----------------------------- MODULE LiveRestart -----------------------------
(***************************************************************************)
(* The live executor across restarts of the process.  The ledger, the risk *)
(* manager, the monitors and the signal being handled live in memory and   *)
(* are lost at any moment; orders, tokens and USDC are the exchange's and  *)
(* stay (orders are good till cancelled).  Before it takes its first       *)
(* signal, LiveExecutor.Run fetches the balance and cancels, one request   *)
(* at a time, whatever orders the exchange still lists; a failure of       *)
(* either is logged and start-up goes on.                                  *)
(***************************************************************************)
EXTENDS LiveExecutor

CONSTANT MaxRestarts  \* bound: restarts

ASSUME RestartConfig == MaxRestarts \in Nat

VARIABLES phase,     \* where Run is
          orphans,   \* orders listed and not yet cancelled
          earlier,   \* orders of earlier sessions (history)
          reported,  \* orders this session's log says may have been left (history)
          restarts

startupVars == <<phase, orphans, earlier, reported, restarts>>
restartVars == <<liveVars, startupVars>>

LiveOrders == {o \in OrderIDs : Live(o)}

RestartInit ==
    /\ LiveInit
    /\ phase = "balance"
    /\ orphans = {}
    /\ earlier = {}
    /\ reported = {}
    /\ restarts = 0

(* A new process: NewManager, an empty ledger, no goroutines.              *)
Restart ==
    /\ restarts < MaxRestarts
    /\ restarts' = restarts + 1
    /\ phase' = "balance"
    /\ orphans' = {}
    /\ earlier' = OrderIDs
    /\ reported' = {}
    /\ halted' = FALSE
    /\ haltCallbacks' = 0
    /\ sessionPnL' = 0
    /\ peakBalance' = StartingBalance
    /\ dailyTrades' = 0
    /\ lastTradeDate' = today
    /\ totalExposure' = 0
    /\ marketExposure' = [m \in Markets |-> 0]
    /\ marketActive' = [m \in Markets |-> 0]
    /\ positions' = [k \in Keys |-> NoPosition]
    /\ exec' = IdleExec
    /\ closer' = [c \in Closers |-> IdleCloser]
    /\ monitors' = [o \in OrderIDs |-> Unmonitored]
    /\ balance' = StartingCash
    /\ told' = [k \in Keys |-> "none"]
    /\ UNCHANGED <<today, exchangeVars>>

(* The balance is the exchange's, or the configured one when that fails.   *)
FetchBalance ==
    /\ phase = "balance"
    /\ phase' = "list"
    /\ MaybeRefreshBalance
    /\ UNCHANGED <<riskVars, positions, exec, closer, monitors, told, exchangeVars,
                   orphans, earlier, reported, restarts>>

(* fetchOpenOrders.                                                        *)
ListOrders ==
    /\ phase = "list"
    /\ phase' = "cancel"
    /\ orphans' = LiveOrders
    /\ UNCHANGED <<liveVars, earlier, reported, restarts>>

(* "startup reconciliation failed; orphan orders may exist"                *)
ListFails ==
    /\ phase = "list"
    /\ phase' = "cancel"
    /\ reported' = earlier
    /\ UNCHANGED <<liveVars, orphans, earlier, restarts>>

(* One DELETE.  "failed to cancel orphan" names the order.                 *)
CancelOrphan(o) ==
    /\ phase = "cancel"
    /\ o \in orphans
    /\ orphans' = orphans \ {o}
    /\ \/ /\ book' = IF Live(o) THEN [book EXCEPT ![o].state = "cancelled"] ELSE book
          /\ UNCHANGED reported
       \/ /\ reported' = reported \cup {o}
          /\ UNCHANGED book
    /\ UNCHANGED <<riskVars, positions, exec, closer, monitors, balance, told, tokens,
                   cash, resolved, phase, earlier, restarts>>

(* Mutant: reconciliation runs beside the loop, which ends it.             *)
StartLoopAtOnce ==
    /\ phase = "cancel"
    /\ phase' = "running"
    /\ orphans' = {}
    /\ UNCHANGED <<liveVars, earlier, reported, restarts>>

(* The halt callback is installed and the select loop starts.              *)
StartLoop ==
    /\ phase = "cancel"
    /\ orphans = {}
    /\ phase' = "running"
    /\ UNCHANGED <<liveVars, orphans, earlier, reported, restarts>>

(* Before the loop runs nothing is traded; the exchange and the clock do   *)
(* not wait.                                                               *)
Trade ==
    /\ IF phase = "running" THEN LiveNext ELSE Exchange \/ Midnight
    /\ UNCHANGED startupVars

RestartNext ==
    \/ Restart
    \/ FetchBalance
    \/ ListOrders
    \/ ListFails
    \/ \E o \in orphans : CancelOrphan(o)
    \/ StartLoop
    \/ Trade

RestartSpec == RestartInit /\ [][RestartNext]_restartVars
----------------------------------------------------------------------------
Watched(o) ==
    \/ exec.pc \in {"posted", "opened"} /\ exec.order = o
    \/ monitors[o].pc \in {"polling", "cancel"}

(* Whenever signals are handled, every live order has an owner.  An entry  *)
(* of this session is being recorded or watched by a goroutine that will   *)
(* end it, although closers may close its position, or OpenPosition refuse *)
(* it, while it is sent.  An order of an earlier session is live only if   *)
(* this start-up's log said so, although a crash may come anywhere, also   *)
(* between the exchange's acceptance and the reply, or in the middle of    *)
(* reconciliation, and orders fill while they are being reconciled.        *)
LiveOrdersHaveOwners ==
    phase = "running" =>
        \A o \in LiveOrders :
            IF o \in earlier THEN o \in reported ELSE book[o].close \/ Watched(o)
=============================================================================
