----------------------------- MODULE GammaFetch -----------------------------
(***************************************************************************)
(* The first half of a poll of the discovery engine: what it finds at      *)
(* Gamma.  The list of events of each tag is read page by page             *)
(* (internal/gamma/pagination.go), then the slugs of the up-or-down series *)
(* are looked up one by one (internal/discovery/updown.go).                *)
(*                                                                         *)
(* Gamma changes meanwhile: an event that leaves a list moves the ones     *)
(* behind it forward, perhaps to a page that was read already, and takes   *)
(* all of its markets with it.  A page that fails ends the poll without an *)
(* effect; a failed lookup of a slug is skipped, and its market counts as  *)
(* gone.  Module Orchestrator takes the result over as the set the poll    *)
(* compares its registry with.                                             *)
(*                                                                         *)
(* A market of a series is named by the time its window starts, and the    *)
(* slugs are made from the time at which the poll gets to them.            *)
(***************************************************************************)
EXTENDS Integers, Sequences, FiniteSets

CONSTANTS Tags,       \* lists that are read: one for each tag of a watchlist, or
                      \* one for all if a watchlist names no tag
          Events,     \* events of Gamma's lists
          Markets,    \* their markets
          MarketsOf,  \* event -> its markets
          Series,     \* windows of an up-or-down series, by their start
          Length,     \* of a window: a quarter of an hour, or an hour
          Margin,     \* a window this near its end is not taken: 2 minutes
          PageSize,   \* defaultPageSize
          Start, End, \* bounds of the clock
          MaxChanges  \* bound: changes of Gamma and requests that fail

ASSUME FetchConfig ==
    /\ IsFiniteSet(Events)
    /\ MarketsOf \in [Events -> SUBSET Markets]
    /\ Length \in Nat \ {0}
    /\ Margin \in 0 .. Length
    /\ \A w \in Series : w \in Nat /\ w % Length = 0
    /\ PageSize \in Nat \ {0}
    /\ Start \in Nat
    /\ End \in Nat
    /\ 2 * Length <= Start
    /\ Start + Length <= End
    /\ MaxChanges \in Nat

ASSUME ListedOrSeries == Markets \cap Series = {}

VARIABLES lists,    \* Gamma: tag -> the events it lists for it
          matching, \* Gamma: markets that pass the filters: open, with a price,
                    \* in a watchlist; windows: those whose event exists and
                    \* whose market is open and has a price
          clock,    \* time
          changes,  \* Gamma: changes and failures so far
          fetch     \* the poll in progress, and what it has found

gammaVars == <<lists, matching, clock>>
fetchVars == <<gammaVars, changes, fetch>>

Idle == [pc |-> "idle"]

(* Markets of the first n events of tag t's list, and of all lists.        *)
First(list, n) == {list[i] : i \in {j \in DOMAIN list : j <= n}}
MarketsIn(es) == UNION {MarketsOf[e] : e \in es}
InList == UNION {MarketsIn(First(lists[t], Len(lists[t]))) : t \in Tags}

(* The time at which the window of time t opened.                          *)
WindowOf(t) == (t \div Length) * Length

(* Mutant: the slug of the window after this one is not tried.             *)
CandidatesUpToNow(now) == {w \in Series : WindowOf(now - 2 * Length) <= w /\ w <= now}

(* candidate15mSlugs and candidate1hSlugs: two windows back, one ahead.    *)
Candidates(now) ==
    {w \in Series : WindowOf(now - 2 * Length) <= w /\ w <= WindowOf(now + Length)}

(* A lookup takes a window unless it is about to end.                      *)
NotEnding(w) == w + Length - clock >= Margin

Listed == matching \cap (InList \cup {w \in Candidates(clock) : NotEnding(w)})

FetchInit ==
    /\ lists \in [Tags -> UNION {{list \in [1 .. n -> Events] :
                                     \A i, j \in 1 .. n : list[i] = list[j] => i = j} :
                                 n \in 0 .. Cardinality(Events)}]
    /\ \E ms \in SUBSET Markets : matching = ms \cup Series
    /\ clock \in Start .. Start + Length - 1
    /\ changes = 0
    /\ fetch = Idle
----------------------------------------------------------------------------
(* Gamma and the clock.  disturbed counts what happens to a poll, asked is  *)
(* the time its slugs were made.                                           *)
Tick ==
    /\ clock < End
    /\ clock' = clock + 1
    /\ UNCHANGED <<lists, matching, changes, fetch>>

MayChange == changes < MaxChanges /\ changes' = changes + 1
Disturb == fetch' = IF fetch = Idle THEN fetch ELSE [fetch EXCEPT !.disturbed = @ + 1]

EventAppears(t, e) ==
    /\ MayChange
    /\ Disturb
    /\ e \notin First(lists[t], Len(lists[t]))
    /\ \E i \in 0 .. Len(lists[t]) :
          lists' = [lists EXCEPT ![t] = SubSeq(@, 1, i) \o <<e>> \o SubSeq(@, i + 1, Len(@))]
    /\ UNCHANGED <<matching, clock>>

EventLeaves(t, i) ==
    /\ MayChange
    /\ Disturb
    /\ lists' = [lists EXCEPT ![t] = SubSeq(@, 1, i - 1) \o SubSeq(@, i + 1, Len(@))]
    /\ UNCHANGED <<matching, clock>>

MarketChanges(m) ==
    /\ MayChange
    /\ Disturb
    /\ matching' = IF m \in matching THEN matching \ {m} ELSE matching \cup {m}
    /\ UNCHANGED <<lists, clock>>
----------------------------------------------------------------------------
(* Engine.poll begins.                                                     *)
FetchBegin ==
    /\ fetch.pc \in {"idle", "found"}
    /\ fetch' = [pc |-> "lists", unread |-> Tags, offset |-> [t \in Tags |-> 0],
                 left |-> {}, current |-> {}, disturbed |-> 0, asked |-> clock]
    /\ UNCHANGED <<gammaVars, changes>>

PageEnd(t) == IF fetch.offset[t] + PageSize < Len(lists[t]) THEN fetch.offset[t] + PageSize
                                                            ELSE Len(lists[t])
Page(t) == {lists[t][i] : i \in fetch.offset[t] + 1 .. PageEnd(t)}
FullPage(t) == PageEnd(t) = fetch.offset[t] + PageSize
Found(t) == MarketsIn(Page(t)) \cap matching

(* One list after the other, in some order.                                *)
ReadsList(t) ==
    /\ fetch.pc = "lists"
    /\ t \in fetch.unread
    /\ \A u \in fetch.unread \ {t} : fetch.offset[u] = 0

(* Mutant: a full page is taken for the last.                              *)
FetchFirstPage(t) ==
    /\ ReadsList(t)
    /\ fetch' = [fetch EXCEPT !.current = @ \cup Found(t), !.unread = @ \ {t}]
    /\ UNCHANGED <<gammaVars, changes>>

(* fetchAllEvents and fetchAndFilter: one page; one that is not full is    *)
(* the last of its list.                                                   *)
FetchPage(t) ==
    /\ ReadsList(t)
    /\ fetch' = IF FullPage(t)
                THEN [fetch EXCEPT !.current = @ \cup Found(t), !.offset[t] = @ + PageSize]
                ELSE [fetch EXCEPT !.current = @ \cup Found(t), !.unread = @ \ {t}]
    /\ UNCHANGED <<gammaVars, changes>>

(* Mutant: after a failed page the poll goes on with what it has.          *)
FetchFailsHalfway ==
    /\ fetch.pc = "lists"
    /\ MayChange
    /\ fetch' = [fetch EXCEPT !.unread = {}, !.disturbed = @ + 1]
    /\ UNCHANGED gammaVars

(* The poll is given up until the next tick of the poll ticker.            *)
FetchFails ==
    /\ fetch.pc = "lists"
    /\ fetch.unread # {}
    /\ MayChange
    /\ fetch' = Idle
    /\ UNCHANGED gammaVars

(* The lists are read, and the slugs are made.                             *)
MakeSlugs ==
    /\ fetch.pc = "lists"
    /\ fetch.unread = {}
    /\ fetch' = [fetch EXCEPT !.pc = "slugs", !.left = Candidates(clock), !.asked = clock]
    /\ UNCHANGED <<gammaVars, changes>>

(* upDownDiscovery.poll: one slug.                                         *)
LookUp(w) ==
    /\ fetch.pc = "slugs"
    /\ w \in fetch.left
    /\ fetch' = [fetch EXCEPT !.left = @ \ {w},
                              !.current = @ \cup {v \in {w} \cap matching : NotEnding(v)}]
    /\ UNCHANGED <<gammaVars, changes>>

LookUpFails(w) ==
    /\ fetch.pc = "slugs"
    /\ w \in fetch.left
    /\ MayChange
    /\ fetch' = [fetch EXCEPT !.left = @ \ {w}, !.disturbed = @ + 1]
    /\ UNCHANGED gammaVars

FetchEnd ==
    /\ fetch.pc = "slugs"
    /\ fetch.left = {}
    /\ fetch' = [fetch EXCEPT !.pc = "found"]
    /\ UNCHANGED <<gammaVars, changes>>

FetchStep ==
    \/ FetchBegin \/ (\E t \in Tags : FetchPage(t)) \/ FetchFails \/ MakeSlugs
    \/ \E w \in Series : LookUp(w) \/ LookUpFails(w)
    \/ FetchEnd

FetchNext ==
    \/ \E t \in Tags : \/ \E e \in Events : EventAppears(t, e)
                       \/ \E i \in DOMAIN lists[t] : EventLeaves(t, i)
    \/ \E m \in Markets \cup Series : MarketChanges(m)
    \/ Tick
    \/ FetchStep

FetchSpec == FetchInit /\ [][FetchNext]_fetchVars
----------------------------------------------------------------------------
(* Types of Gamma's lists and of a poll; slugs name windows of the series. *)
FetchTypeOK ==
    /\ lists \in [Tags -> Seq(Events)]
    /\ matching \subseteq Markets \cup Series
    /\ clock \in Start .. End
    /\ changes \in 0 .. MaxChanges
    /\ \/ fetch = Idle
       \/ fetch \in [pc : {"lists", "slugs", "found"}, unread : SUBSET Tags,
                     offset : [Tags -> Nat], left : SUBSET Series,
                     current : SUBSET (Markets \cup Series), disturbed : Nat, asked : Nat]

Quiet == fetch.pc = "found" /\ fetch.disturbed = 0

(* What a poll finds, page after page and slug after slug, is what Gamma   *)
(* lists, wherever the pages are cut and whatever the time, when nothing   *)
(* changes or fails while it runs.                                         *)
QuietFetchIsExact == Quiet /\ clock = fetch.asked => fetch.current = Listed

(* A poll finds every window that is open, or opens within its own length, *)
(* however late the lookups come; so each window is found before it opens  *)
(* by polls that are less than its length apart, and none loses its market *)
(* while it is open.                                                       *)
OpenWindowsAreFound ==
    Quiet => \A w \in Series \cap matching :
                /\ w <= fetch.asked + Length
                /\ clock < w + Length - Margin
                => w \in fetch.current

(* Otherwise a poll is wrong about the markets of at most two events for   *)
(* each event, filter or request that disturbed it: the event that changed *)
(* and the one that moved across the edge of a page.  (Windows also change *)
(* with the time, and are left out.)  A poll never drops the events of a   *)
(* whole page because one of them left.                                    *)
Wrong == ((fetch.current \ Listed) \cup (Listed \ fetch.current)) \cap Markets
ErrorsHaveCauses ==
    fetch.pc = "found" =>
        \E es \in SUBSET Events : /\ Cardinality(es) <= 2 * fetch.disturbed
                                  /\ Wrong \subseteq MarketsIn(es)
=============================================================================
