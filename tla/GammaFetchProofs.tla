-------------------------- MODULE GammaFetchProofs --------------------------
(***************************************************************************)
(* A poll that nothing disturbs finds exactly what Gamma lists, and one    *)
(* that something disturbs is wrong about the markets of few events, for   *)
(* every number of lists, events and markets, every page size and every    *)
(* length of window.                                                       *)
(***************************************************************************)
EXTENDS GammaFetch, FiniteSetTheorems, TLAPS

Fetches == [pc : {"lists", "slugs", "found"}, unread : SUBSET Tags, offset : [Tags -> Nat],
            left : SUBSET Series, current : SUBSET (Markets \cup Series),
            disturbed : Nat, asked : Nat]

(* The events a poll has got to: those before the next page of a list, and *)
(* all of a list that is read; their markets; and its mistakes about them. *)
Reached(t) == First(lists[t], IF t \in fetch.unread THEN fetch.offset[t] ELSE Len(lists[t]))
AllReached == UNION {MarketsIn(Reached(t)) : t \in Tags}
Mistakes ==
    ((fetch.current \ (AllReached \cap matching)) \cup ((AllReached \cap matching) \ fetch.current))
        \cap Markets
FewMistakes ==
    fetch # Idle => \E es \in SUBSET Events : /\ Cardinality(es) <= 2 * fetch.disturbed
                                             /\ Mistakes \subseteq MarketsIn(es)

(* Lists first, windows afterwards.                                        *)
ListsFirst ==
    /\ fetch.pc = "lists" => fetch.current \subseteq Markets
    /\ fetch.pc \in {"slugs", "found"} => fetch.unread = {}

AskedBefore ==
    fetch.pc \in {"slugs", "found"} =>
        /\ fetch.asked <= clock
        /\ fetch.left \subseteq Candidates(fetch.asked)
        /\ fetch.pc = "found" => fetch.left = {}

(* Of the candidates those looked up are found when they match.            *)
WindowsAreRead ==
    fetch.pc \in {"slugs", "found"} /\ fetch.disturbed = 0 =>
        \A w \in Series :
            /\ w \in fetch.current => /\ w \in matching
                                      /\ w \in Candidates(fetch.asked)
                                      /\ clock = fetch.asked => NotEnding(w)
            /\ w \in Candidates(fetch.asked) \ fetch.left /\ w \in matching /\ NotEnding(w)
                  => w \in fetch.current

WindowInv == ListsFirst /\ AskedBefore /\ WindowsAreRead
FetchInv == FetchTypeOK /\ FewMistakes /\ WindowInv
----------------------------------------------------------------------------
(* A list into which an event is put, and one from which it is taken.      *)
Inserted(list, new, m, i) ==
    /\ DOMAIN list = 1 .. Len(list) /\ DOMAIN new = 1 .. Len(list) + 1
    /\ \A j \in 1 .. i : new[j] = list[j]
    /\ new[i + 1] = m
    /\ \A j \in i + 2 .. Len(list) + 1 : new[j] = list[j - 1]

Removed(list, new, i) ==
    /\ DOMAIN list = 1 .. Len(list) /\ DOMAIN new = 1 .. Len(list) - 1
    /\ \A j \in 1 .. i - 1 : new[j] = list[j]
    /\ \A j \in i .. Len(list) - 1 : new[j] = list[j + 1]

LEMMA Splice ==
    ASSUME NEW list \in Seq(Events), NEW m \in Events, NEW i \in 0 .. Len(list)
    PROVE  LET new == SubSeq(list, 1, i) \o <<m>> \o SubSeq(list, i + 1, Len(list))
           IN  new \in Seq(Events) /\ Len(new) = Len(list) + 1 /\ Inserted(list, new, m, i)
<1> DEFINE a == SubSeq(list, 1, i)
           c == SubSeq(list, i + 1, Len(list))
<1>1. /\ Len(list) \in Nat /\ DOMAIN list = 1 .. Len(list)
      /\ a \in Seq(Events) /\ Len(a) = i /\ \A j \in 1 .. i : a[j] = list[j]
      /\ c \in Seq(Events) /\ Len(c) = Len(list) - i
      /\ \A j \in 1 .. Len(list) - i : c[j] = list[i + j]
  OBVIOUS
<1> HIDE DEF a, c
<1> DEFINE d == a \o <<m>>
<1>2. d \in Seq(Events) /\ Len(d) = i + 1 /\ d[i + 1] = m /\ \A j \in 1 .. i : d[j] = list[j]
  BY <1>1
<1> HIDE DEF d
<1> DEFINE e == d \o c
<1>3. /\ e \in Seq(Events) /\ Len(e) = Len(list) + 1 /\ DOMAIN e = 1 .. Len(list) + 1
      /\ \A j \in 1 .. i + 1 : e[j] = d[j]
      /\ \A j \in i + 2 .. Len(list) + 1 : e[j] = c[j - i - 1]
  BY <1>1, <1>2
<1> HIDE DEF e
<1>4. \A j \in i + 2 .. Len(list) + 1 : e[j] = list[j - 1]
  <2> TAKE j \in i + 2 .. Len(list) + 1
  <2>1. j - i - 1 \in 1 .. Len(list) - i /\ i + (j - i - 1) = j - 1
    BY <1>1
  <2> QED
    BY <1>1, <1>3, <2>1
<1>5. Inserted(list, e, m, i)
  BY <1>1, <1>2, <1>3, <1>4 DEF Inserted
<1> QED
  BY <1>3, <1>5 DEF a, c, d, e

LEMMA Cut ==
    ASSUME NEW list \in Seq(Events), NEW i \in 1 .. Len(list)
    PROVE  LET new == SubSeq(list, 1, i - 1) \o SubSeq(list, i + 1, Len(list))
           IN  new \in Seq(Events) /\ Len(new) = Len(list) - 1 /\ Removed(list, new, i)
<1> DEFINE a == SubSeq(list, 1, i - 1)
           c == SubSeq(list, i + 1, Len(list))
<1>1. /\ Len(list) \in Nat /\ DOMAIN list = 1 .. Len(list)
      /\ a \in Seq(Events) /\ Len(a) = i - 1 /\ \A j \in 1 .. i - 1 : a[j] = list[j]
      /\ c \in Seq(Events) /\ Len(c) = Len(list) - i
      /\ \A j \in 1 .. Len(list) - i : c[j] = list[i + j]
  OBVIOUS
<1> HIDE DEF a, c
<1> DEFINE e == a \o c
<1>2. /\ e \in Seq(Events) /\ Len(e) = Len(list) - 1 /\ DOMAIN e = 1 .. Len(list) - 1
      /\ \A j \in 1 .. i - 1 : e[j] = a[j]
      /\ \A j \in i .. Len(list) - 1 : e[j] = c[j - i + 1]
  <2>1. e \in Seq(Events) /\ Len(e) = Len(list) - 1 /\ DOMAIN e = 1 .. Len(list) - 1
    <3>0. a \in Seq(Events) /\ c \in Seq(Events)
      BY <1>1
    <3>1. e \in Seq(Events) /\ Len(e) = Len(a) + Len(c)
      BY <3>0
    <3>2. Len(a) + Len(c) = Len(list) - 1
      BY <1>1
    <3> HIDE DEF e
    <3> QED
      BY <3>1, <3>2
  <2>2. \A j \in 1 .. Len(list) - 1 : e[j] = IF j <= Len(a) THEN a[j] ELSE c[j - Len(a)]
    BY <1>1
  <2>3. \A j \in 1 .. i - 1 : j \in 1 .. Len(list) - 1 /\ j <= Len(a)
    BY <1>1
  <2>4. \A j \in i .. Len(list) - 1 :
            j \in 1 .. Len(list) - 1 /\ ~(j <= Len(a)) /\ j - Len(a) = j - i + 1
    BY <1>1
  <2> HIDE DEF e
  <2> QED
    BY <2>1, <2>2, <2>3, <2>4
<1> HIDE DEF e
<1>3. \A j \in i .. Len(list) - 1 : e[j] = list[j + 1]
  <2> TAKE j \in i .. Len(list) - 1
  <2>1. j - i + 1 \in 1 .. Len(list) - i /\ i + (j - i + 1) = j + 1
    BY <1>1
  <2> QED
    BY <1>1, <1>2, <2>1
<1>4. Removed(list, e, i)
  BY <1>1, <1>2, <1>3 DEF Removed
<1> QED
  BY <1>2, <1>4 DEF a, c, e

(* An event that appears moves one other across the place n, at most.      *)
LEMMA InsertMovesOne ==
    ASSUME NEW list, Len(list) \in Nat, NEW m, NEW i \in 0 .. Len(list), NEW n \in Nat,
           NEW new, Inserted(list, new, m, i)
    PROVE  \E b : \A x : x \notin {m, b} => (x \in First(new, n) <=> x \in First(list, n))
<1>1. /\ DOMAIN list = 1 .. Len(list) /\ DOMAIN new = 1 .. Len(list) + 1
      /\ \A j \in 1 .. i : new[j] = list[j]
      /\ new[i + 1] = m
      /\ \A j \in i + 2 .. Len(list) + 1 : new[j] = list[j - 1]
  BY DEF Inserted
<1>2. ASSUME NEW x, x \notin {m, list[n]}
      PROVE  x \in First(new, n) <=> x \in First(list, n)
  <2>1. ASSUME NEW j \in DOMAIN new, j <= n, x = new[j] PROVE x \in First(list, n)
    <3>1. j # i + 1
      BY <1>1, <1>2, <2>1
    <3>2. CASE j <= i
      <4>1. j \in DOMAIN list /\ list[j] = x
        BY <1>1, <2>1, <3>2
      <4> QED
        BY <2>1, <4>1 DEF First
    <3>3. CASE j > i + 1
      <4>1. j - 1 \in DOMAIN list /\ j - 1 <= n /\ list[j - 1] = x
        BY <1>1, <2>1, <3>3
      <4> QED
        BY <4>1 DEF First
    <3> QED
      BY <1>1, <3>1, <3>2, <3>3
  <2>2. ASSUME NEW j \in DOMAIN list, j <= n, x = list[j] PROVE x \in First(new, n)
    <3>1. j # n
      BY <1>2, <2>2
    <3>2. CASE j <= i
      <4>1. j \in DOMAIN new /\ new[j] = x
        BY <1>1, <2>2, <3>2
      <4> QED
        BY <2>2, <4>1 DEF First
    <3>3. CASE j > i
      <4>1. j + 1 \in DOMAIN new /\ j + 1 <= n /\ new[j + 1] = x
        BY <1>1, <2>2, <3>1, <3>3
      <4> QED
        BY <4>1 DEF First
    <3> QED
      BY <1>1, <3>2, <3>3
  <2> QED
    BY <2>1, <2>2 DEF First
<1> QED
  BY <1>2

(* So does an event that leaves.                                           *)
LEMMA RemoveMovesOne ==
    ASSUME NEW list, Len(list) \in Nat, NEW i \in 1 .. Len(list), NEW n \in Nat,
           NEW new, Removed(list, new, i)
    PROVE  \E a, b : \A x : x \notin {a, b} => (x \in First(new, n) <=> x \in First(list, n))
<1>1. /\ DOMAIN list = 1 .. Len(list) /\ DOMAIN new = 1 .. Len(list) - 1
      /\ \A j \in 1 .. i - 1 : new[j] = list[j]
      /\ \A j \in i .. Len(list) - 1 : new[j] = list[j + 1]
  BY DEF Removed
<1>2. ASSUME NEW x, x \notin {list[i], list[n + 1]}
      PROVE  x \in First(new, n) <=> x \in First(list, n)
  <2>1. ASSUME NEW j \in DOMAIN new, j <= n, x = new[j] PROVE x \in First(list, n)
    <3>1. CASE j < i
      <4>1. j \in DOMAIN list /\ list[j] = x
        BY <1>1, <2>1, <3>1
      <4> QED
        BY <2>1, <4>1 DEF First
    <3>2. CASE j >= i
      <4>1. list[j + 1] = x /\ j + 1 \in DOMAIN list
        BY <1>1, <2>1, <3>2
      <4>2. j # n
        BY <1>2, <4>1
      <4>3. j + 1 <= n
        BY <1>1, <2>1, <4>2
      <4> QED
        BY <4>1, <4>3 DEF First
    <3> QED
      BY <1>1, <3>1, <3>2
  <2>2. ASSUME NEW j \in DOMAIN list, j <= n, x = list[j] PROVE x \in First(new, n)
    <3>1. j # i
      BY <1>2, <2>2
    <3>2. CASE j < i
      <4>1. j \in DOMAIN new /\ new[j] = x
        BY <1>1, <2>2, <3>2
      <4> QED
        BY <2>2, <4>1 DEF First
    <3>3. CASE j > i
      <4>1. j - 1 \in DOMAIN new /\ j - 1 <= n /\ new[j - 1] = x
        BY <1>1, <2>2, <3>3
      <4> QED
        BY <4>1 DEF First
    <3> QED
      BY <1>1, <3>1, <3>2, <3>3
  <2> QED
    BY <2>1, <2>2 DEF First
<1> QED
  BY <1>2

LEMMA TwoMore ==
    ASSUME NEW S, IsFiniteSet(S), NEW T, NEW a, NEW b, T \subseteq S \cup {a} \cup {b}
    PROVE  Cardinality(T) <= Cardinality(S) + 2
<1>0. ASSUME NEW U, IsFiniteSet(U), NEW x
      PROVE  /\ IsFiniteSet(U \cup {x}) /\ Cardinality(U) \in Nat
             /\ Cardinality(U \cup {x}) \in Nat /\ Cardinality(U \cup {x}) <= Cardinality(U) + 1
  <2>1. IsFiniteSet(U \cup {x})
    BY <1>0, FS_AddElement
  <2>2. Cardinality(U) \in Nat /\ Cardinality(U \cup {x}) \in Nat
    BY <1>0, <2>1, FS_CardinalityType
  <2>3. Cardinality(U \cup {x}) = IF x \in U THEN Cardinality(U) ELSE Cardinality(U) + 1
    BY <1>0, FS_AddElement
  <2> QED
    BY <2>1, <2>2, <2>3
<1>1. /\ IsFiniteSet(S \cup {a}) /\ Cardinality(S) \in Nat
      /\ Cardinality(S \cup {a}) \in Nat /\ Cardinality(S \cup {a}) <= Cardinality(S) + 1
  BY <1>0
<1>2. /\ IsFiniteSet(S \cup {a} \cup {b})
      /\ Cardinality(S \cup {a} \cup {b}) \in Nat
      /\ Cardinality(S \cup {a} \cup {b}) <= Cardinality(S \cup {a}) + 1
  BY <1>0, <1>1
<1>3. Cardinality(T) \in Nat /\ Cardinality(T) <= Cardinality(S \cup {a} \cup {b})
  BY <1>2, FS_Subset, FS_CardinalityType
<1> QED
  BY <1>1, <1>2, <1>3

----------------------------------------------------------------------------
LEMMA Counted ==
    ASSUME changes \in 0 .. MaxChanges, MayChange
    PROVE  changes' \in 0 .. MaxChanges
BY FetchConfig DEF MayChange

(* What a change of Gamma does to a poll.                                  *)
LEMMA Disturbed ==
    ASSUME FetchTypeOK, Disturb
    PROVE  \/ fetch = Idle /\ fetch' = Idle
           \/ /\ fetch \in Fetches /\ fetch' \in Fetches
              /\ fetch'.disturbed = fetch.disturbed + 1
              /\ fetch' = [fetch EXCEPT !.disturbed = fetch.disturbed + 1]
<1>1. fetch = Idle \/ fetch \in Fetches
  BY DEF FetchTypeOK, Fetches
<1>2. CASE fetch = Idle
  BY <1>2 DEF Disturb
<1>3. CASE fetch \in Fetches
  <2>1. fetch # Idle
    BY <1>3 DEF Fetches, Idle
  <2>2. fetch' = [fetch EXCEPT !.disturbed = fetch.disturbed + 1]
    BY <2>1 DEF Disturb
  <2>. QED
    BY <1>3, <2>2 DEF Fetches
<1>. QED
  BY <1>1, <1>2, <1>3

(* One page: what it adds, and how far it gets.                            *)
LEMMA PageStep ==
    ASSUME FetchTypeOK, NEW t \in Tags, FetchPage(t)
    PROVE  /\ fetch \in Fetches /\ fetch' \in Fetches /\ fetch.pc = "lists"
           /\ fetch'.pc = "lists" /\ fetch'.disturbed = fetch.disturbed
           /\ fetch'.current = fetch.current \cup Found(t)
           /\ Found(t) \subseteq Markets
           /\ \A u \in Tags : u # t => (u \in fetch'.unread <=> u \in fetch.unread)
           /\ \A u \in Tags : u # t => fetch'.offset[u] = fetch.offset[u]
           /\ t \in fetch.unread
           /\ FullPage(t) => t \in fetch'.unread /\ fetch'.offset[t] = fetch.offset[t] + PageSize
           /\ ~FullPage(t) => t \notin fetch'.unread
<1>1. /\ fetch \in Fetches /\ fetch.pc = "lists" /\ t \in fetch.unread
      /\ fetch.offset \in [Tags -> Nat] /\ fetch.current \subseteq Markets \cup Series
      /\ lists[t] \in Seq(Events)
  BY DEF FetchTypeOK, Fetches, FetchPage, ReadsList, Idle
<1>2. PageEnd(t) <= Len(lists[t]) /\ PageEnd(t) \in Int /\ fetch.offset[t] + PageSize \in Nat
  BY <1>1, FetchConfig DEF PageEnd
<1>3. Page(t) \subseteq Events
  <2>1. \A i \in fetch.offset[t] + 1 .. PageEnd(t) : i \in DOMAIN lists[t]
    BY <1>1, <1>2
  <2>. QED
    BY <1>1, <2>1 DEF Page
<1>4. Found(t) \subseteq Markets
  BY <1>3, FetchConfig DEF Found, MarketsIn
<1>5. CASE FullPage(t)
  <2>1. fetch' = [fetch EXCEPT !.current = fetch.current \cup Found(t),
                               !.offset[t] = fetch.offset[t] + PageSize]
    BY <1>5 DEF FetchPage
  <2>2. [fetch.offset EXCEPT ![t] = fetch.offset[t] + PageSize] \in [Tags -> Nat]
    BY <1>1, <1>2
  <2>3. /\ fetch'.offset = [fetch.offset EXCEPT ![t] = fetch.offset[t] + PageSize]
        /\ fetch'.unread = fetch.unread /\ fetch'.current = fetch.current \cup Found(t)
        /\ fetch'.pc = "lists" /\ fetch'.disturbed = fetch.disturbed /\ fetch' \in Fetches
    BY <1>1, <1>4, <2>1, <2>2 DEF Fetches
  <2>. QED
    BY <1>1, <1>4, <1>5, <2>3
<1>6. CASE ~FullPage(t)
  <2>1. fetch' = [fetch EXCEPT !.current = fetch.current \cup Found(t),
                               !.unread = fetch.unread \ {t}]
    BY <1>6 DEF FetchPage
  <2>2. /\ fetch'.offset = fetch.offset
        /\ fetch'.unread = fetch.unread \ {t} /\ fetch'.current = fetch.current \cup Found(t)
        /\ fetch'.pc = "lists" /\ fetch'.disturbed = fetch.disturbed /\ fetch' \in Fetches
    BY <1>1, <1>4, <2>1 DEF Fetches
  <2>. QED
    BY <1>1, <1>4, <1>6, <2>2
<1>. QED
  BY <1>5, <1>6

LEMMA FailedLookUp ==
    ASSUME FetchTypeOK, NEW w \in Series, LookUpFails(w)
    PROVE  /\ fetch \in Fetches /\ fetch' \in Fetches
           /\ fetch.pc = "slugs" /\ fetch'.pc = "slugs"
           /\ fetch'.disturbed = fetch.disturbed + 1 /\ fetch'.asked = fetch.asked
           /\ fetch'.left = fetch.left \ {w} /\ fetch'.current = fetch.current
           /\ fetch'.unread = fetch.unread /\ fetch'.offset = fetch.offset
<1>1. fetch \in Fetches /\ fetch.pc = "slugs"
  BY DEF FetchTypeOK, Fetches, LookUpFails, Idle
<1>2. fetch' = [fetch EXCEPT !.left = fetch.left \ {w}, !.disturbed = fetch.disturbed + 1]
  BY DEF LookUpFails
<1>3. fetch.disturbed + 1 \in Nat
  BY <1>1 DEF Fetches
<1>. QED
  BY <1>1, <1>2, <1>3 DEF Fetches

LEMMA FetchTypeInductive ==
    ASSUME FetchTypeOK, [FetchNext]_fetchVars
    PROVE  FetchTypeOK'
<1>. DEFINE ListsOK == lists \in [Tags -> Seq(Events)]
            RestOK == /\ matching \subseteq Markets \cup Series
                      /\ clock \in Start .. End
                      /\ changes \in 0 .. MaxChanges
            FetchOK == fetch = Idle \/ fetch \in Fetches
<1>0. ListsOK /\ RestOK /\ FetchOK
  BY DEF FetchTypeOK, Fetches
<1>1. SUFFICES ListsOK' /\ RestOK' /\ FetchOK'
  BY DEF FetchTypeOK, Fetches
<1>2. ASSUME NEW t \in Tags, NEW e \in Events, EventAppears(t, e)
      PROVE  ListsOK' /\ RestOK' /\ FetchOK'
  <2>1. PICK i \in 0 .. Len(lists[t]) :
            lists' = [lists EXCEPT ![t] = SubSeq(@, 1, i) \o <<e>> \o SubSeq(@, i + 1, Len(@))]
    BY <1>2 DEF EventAppears
  <2>2. lists[t] \in Seq(Events)
    BY <1>0
  <2>3. SubSeq(lists[t], 1, i) \o <<e>> \o SubSeq(lists[t], i + 1, Len(lists[t])) \in Seq(Events)
    BY <2>2, Splice
  <2>4. ListsOK'
    BY <1>0, <2>1, <2>3
  <2>5. FetchOK' /\ RestOK'
    BY <1>0, <1>2, Disturbed, Counted DEF EventAppears
  <2>. QED
    BY <2>4, <2>5
<1>3. ASSUME NEW t \in Tags, NEW i \in DOMAIN lists[t], EventLeaves(t, i)
      PROVE  ListsOK' /\ RestOK' /\ FetchOK'
  <2>1. lists[t] \in Seq(Events) /\ i \in 1 .. Len(lists[t])
    BY <1>0
  <2>2. SubSeq(lists[t], 1, i - 1) \o SubSeq(lists[t], i + 1, Len(lists[t])) \in Seq(Events)
    BY <2>1, Cut
  <2>3. ListsOK'
    BY <1>0, <1>3, <2>2 DEF EventLeaves
  <2>4. FetchOK' /\ RestOK'
    BY <1>0, <1>3, Disturbed, Counted DEF EventLeaves
  <2>. QED
    BY <2>3, <2>4
<1>4. ASSUME NEW m \in Markets \cup Series, MarketChanges(m)
      PROVE  ListsOK' /\ RestOK' /\ FetchOK'
  <2>1. FetchOK'
    BY <1>4, Disturbed DEF MarketChanges
  <2>2. ListsOK' /\ RestOK'
    BY <1>0, <1>4, Counted DEF MarketChanges
  <2>. QED
    BY <2>1, <2>2
<1>5. CASE Tick
  BY <1>0, <1>5, FetchConfig DEF Tick
<1>6. CASE FetchBegin
  BY <1>0, <1>6, FetchConfig DEF FetchBegin, gammaVars, Fetches
<1>7. ASSUME NEW t \in Tags, FetchPage(t)
      PROVE  ListsOK' /\ RestOK' /\ FetchOK'
  BY <1>0, <1>7, PageStep DEF FetchPage, gammaVars
<1>8. CASE FetchFails
  BY <1>0, <1>8, Counted DEF FetchFails, gammaVars
<1>9. CASE MakeSlugs
  <2>1. fetch \in Fetches
    BY <1>0, <1>9 DEF MakeSlugs, Idle
  <2>2. Candidates(clock) \subseteq Series /\ clock \in Nat
    BY <1>0, FetchConfig DEF Candidates
  <2>. QED
    BY <1>0, <1>9, <2>1, <2>2 DEF MakeSlugs, gammaVars, Fetches
<1>10. ASSUME NEW w \in Series, LookUp(w)
       PROVE  ListsOK' /\ RestOK' /\ FetchOK'
  <2>1. fetch \in Fetches
    BY <1>0, <1>10 DEF LookUp, Idle
  <2>. QED
    BY <1>0, <1>10, <2>1 DEF LookUp, gammaVars, Fetches
<1>11. ASSUME NEW w \in Series, LookUpFails(w)
       PROVE  ListsOK' /\ RestOK' /\ FetchOK'
  BY <1>0, <1>11, FailedLookUp, Counted DEF LookUpFails, gammaVars
<1>12. CASE FetchEnd
  <2>1. fetch \in Fetches
    BY <1>0, <1>12 DEF FetchEnd, Idle
  <2>. QED
    BY <1>0, <1>12, <2>1 DEF FetchEnd, gammaVars, Fetches
<1>13. CASE UNCHANGED fetchVars
  BY <1>0, <1>13 DEF fetchVars, gammaVars
<1>. QED
  BY <1>2, <1>3, <1>4, <1>5, <1>6, <1>7, <1>8, <1>9, <1>10, <1>11, <1>12, <1>13
     DEF FetchNext, FetchStep

(* Lists, polls and windows keep their types, whatever Gamma does.         *)
THEOREM FetchTypeCorrect == FetchSpec => []FetchTypeOK
<1>1. FetchInit => FetchTypeOK
  <2>. SUFFICES ASSUME FetchInit PROVE FetchTypeOK
    OBVIOUS
  <2>1. lists \in [Tags -> Seq(Events)]
    <3>1. \A n \in 0 .. Cardinality(Events) : [1 .. n -> Events] \subseteq Seq(Events)
      <4>1. Cardinality(Events) \in Nat
        BY FetchConfig, FS_CardinalityType
      <4>. QED
        BY <4>1
    <3>. QED
      BY <3>1 DEF FetchInit
  <2>2. clock \in Start .. End
    <3>1. clock \in Start .. Start + Length - 1
      BY DEF FetchInit
    <3>2. /\ Start \in Nat /\ End \in Nat /\ Length \in Nat
          /\ Start + Length <= End
      BY FetchConfig
    <3>. QED
      BY <3>1, <3>2
  <2>. QED
    BY <2>1, <2>2, FetchConfig DEF FetchInit, FetchTypeOK
<1>. QED
  BY <1>1, FetchTypeInductive, PTL DEF FetchSpec
----------------------------------------------------------------------------
(* What lists and filters let the poll reach, when they change.            *)
LEMMA ReachMoves ==
    ASSUME FetchTypeOK, FetchTypeOK', matching' = matching,
           \A t \in Tags : Reached(t) \subseteq Events /\ Reached(t)' \subseteq Events,
           NEW a, NEW b,
           \A t \in Tags : \A x : x \notin {a, b} => (x \in Reached(t)' <=> x \in Reached(t))
    PROVE  \A m \in Markets : m \notin MarketsIn({a, b} \cap Events) =>
               (m \in (AllReached \cap matching)' <=> m \in AllReached \cap matching)
<1>1. SUFFICES ASSUME NEW m \in Markets, m \notin MarketsIn({a, b} \cap Events)
               PROVE  m \in AllReached' <=> m \in AllReached
  OBVIOUS
<1>2. \A e \in Events : m \in MarketsOf[e] => e \notin {a, b}
  BY <1>1 DEF MarketsIn
<1>3. m \in AllReached <=> \E t \in Tags : \E e \in Reached(t) : m \in MarketsOf[e]
  BY DEF AllReached, MarketsIn
<1>4. m \in AllReached' <=> \E t \in Tags : \E e \in Reached(t)' : m \in MarketsOf[e]
  BY DEF AllReached, MarketsIn
<1>5. ASSUME NEW t \in Tags, NEW e, m \in MarketsOf[e]
      PROVE  e \in Reached(t)' <=> e \in Reached(t)
  BY <1>2, <1>5
<1>. QED
  BY <1>3, <1>4, <1>5

LEMMA FirstAreEvents ==
    ASSUME NEW list \in Seq(Events), NEW n \in Nat
    PROVE  /\ First(list, n) \subseteq Events
           /\ n >= Len(list) => First(list, n) = First(list, Len(list))
BY DEF First

(* The events, as far as the poll has got, when it is disturbed.           *)
LEMMA DisturbedReach ==
    ASSUME FetchTypeOK, FetchTypeOK', fetch # Idle,
           \/ \E t \in Tags : \/ \E e \in Events : EventAppears(t, e)
                            \/ \E i \in DOMAIN lists[t] : EventLeaves(t, i)
           \/ \E m \in Markets \cup Series : MarketChanges(m)
    PROVE  \E a, b : \A m \in Markets : m \notin MarketsIn({a, b} \cap Events) =>
               (m \in (AllReached \cap matching)' <=> m \in AllReached \cap matching)
<1>1. /\ fetch' \in Fetches /\ fetch \in Fetches
      /\ fetch'.unread = fetch.unread /\ fetch'.offset = fetch.offset
  <2>1. Disturb
    BY DEF EventAppears, EventLeaves, MarketChanges
  <2>2. /\ fetch \in Fetches /\ fetch' \in Fetches
        /\ fetch' = [fetch EXCEPT !.disturbed = fetch.disturbed + 1]
    BY <2>1, Disturbed
  <2>. QED
    BY <2>2 DEF Fetches
<1>2. ASSUME NEW u \in Tags
      PROVE  /\ lists[u] \in Seq(Events) /\ Len(lists[u]) \in Nat /\ fetch.offset[u] \in Nat
             /\ lists'[u] \in Seq(Events) /\ Len(lists'[u]) \in Nat
             /\ Reached(u) = First(lists[u], IF u \in fetch.unread THEN fetch.offset[u]
                                                                  ELSE Len(lists[u]))
             /\ Reached(u)' = First(lists'[u], IF u \in fetch.unread THEN fetch.offset[u]
                                                                    ELSE Len(lists'[u]))
  BY <1>1 DEF FetchTypeOK, Fetches, Reached
<1>3. \A u \in Tags : Reached(u) \subseteq Events /\ Reached(u)' \subseteq Events
  BY <1>2, FirstAreEvents
<1>4. ASSUME NEW u \in Tags, Len(lists'[u]) <= Len(lists[u]) + 1
      PROVE  \E n \in Nat : Reached(u) = First(lists[u], n) /\ Reached(u)' = First(lists'[u], n)
  <2>1. CASE u \in fetch.unread
    BY <1>2, <2>1
  <2>2. CASE u \notin fetch.unread
    <3>1. /\ Len(lists[u]) + 1 \in Nat
          /\ Reached(u) = First(lists[u], Len(lists[u]) + 1)
          /\ Reached(u)' = First(lists'[u], Len(lists[u]) + 1)
      BY <1>2, <1>4, <2>2, FirstAreEvents
    <3>. QED
      BY <3>1
  <2>. QED
    BY <2>1, <2>2
<1>5. ASSUME NEW t \in Tags, NEW e \in Events, EventAppears(t, e)
      PROVE  \E a, b : \A m \in Markets : m \notin MarketsIn({a, b} \cap Events) =>
                 (m \in (AllReached \cap matching)' <=> m \in AllReached \cap matching)
  <2>1. PICK i \in 0 .. Len(lists[t]) :
            lists' = [lists EXCEPT ![t] = SubSeq(@, 1, i) \o <<e>> \o SubSeq(@, i + 1, Len(@))]
    BY <1>5 DEF EventAppears
  <2>2. /\ lists'[t] = SubSeq(lists[t], 1, i) \o <<e>> \o SubSeq(lists[t], i + 1, Len(lists[t]))
        /\ \A u \in Tags \ {t} : lists'[u] = lists[u]
    BY <2>1 DEF FetchTypeOK
  <2>. DEFINE old == lists[t]
             new == lists'[t]
  <2>3. Len(new) = Len(old) + 1 /\ Inserted(old, new, e, i)
    <3>1. old \in Seq(Events) /\ i \in 0 .. Len(old)
      BY <1>2
    <3>2. new = SubSeq(old, 1, i) \o <<e>> \o SubSeq(old, i + 1, Len(old))
      BY <2>2
    <3>. HIDE DEF old, new
    <3>. QED
      BY <3>1, <3>2, Splice
  <2>4. PICK n \in Nat : Reached(t) = First(lists[t], n) /\ Reached(t)' = First(lists'[t], n)
    BY <1>2, <1>4, <2>3
  <2>5. PICK b : \A x : x \notin {e, b} => (x \in Reached(t)' <=> x \in Reached(t))
    <3>1. Len(old) \in Nat /\ i \in 0 .. Len(old)
      BY <1>2
    <3>2. Reached(t) = First(old, n) /\ Reached(t)' = First(new, n)
      BY <2>4
    <3>. HIDE DEF old, new
    <3>3. \E b : \A x : x \notin {e, b} => (x \in First(new, n) <=> x \in First(old, n))
      BY <2>3, <3>1, InsertMovesOne
    <3>. QED
      BY <3>2, <3>3
  <2>6. \A u \in Tags \ {t} : Reached(u)' = Reached(u)
    BY <1>2, <2>2
  <2>7. \A u \in Tags : \A x : x \notin {e, b} => (x \in Reached(u)' <=> x \in Reached(u))
    BY <2>5, <2>6
  <2>8. matching' = matching
    BY <1>5 DEF EventAppears
  <2>9. \A m \in Markets : m \notin MarketsIn({e, b} \cap Events) =>
               (m \in (AllReached \cap matching)' <=> m \in AllReached \cap matching)
    BY <1>3, <2>7, <2>8, ReachMoves
  <2>. QED
    BY <2>9
<1>6. ASSUME NEW t \in Tags, NEW i \in DOMAIN lists[t], EventLeaves(t, i)
      PROVE  \E a, b : \A m \in Markets : m \notin MarketsIn({a, b} \cap Events) =>
                 (m \in (AllReached \cap matching)' <=> m \in AllReached \cap matching)
  <2>1. i \in 1 .. Len(lists[t])
    BY <1>2
  <2>2. /\ lists'[t] = SubSeq(lists[t], 1, i - 1) \o SubSeq(lists[t], i + 1, Len(lists[t]))
        /\ \A u \in Tags \ {t} : lists'[u] = lists[u]
    BY <1>6 DEF EventLeaves, FetchTypeOK
  <2>. DEFINE old == lists[t]
             new == lists'[t]
  <2>3. Len(new) = Len(old) - 1 /\ Removed(old, new, i)
    <3>1. old \in Seq(Events) /\ i \in 1 .. Len(old)
      BY <1>2, <2>1
    <3>2. new = SubSeq(old, 1, i - 1) \o SubSeq(old, i + 1, Len(old))
      BY <2>2
    <3>. HIDE DEF old, new
    <3>. QED
      BY <3>1, <3>2, Cut
  <2>4. PICK n \in Nat : Reached(t) = First(lists[t], n) /\ Reached(t)' = First(lists'[t], n)
    BY <1>2, <1>4, <2>3
  <2>5. PICK c, b : \A x : x \notin {c, b} => (x \in Reached(t)' <=> x \in Reached(t))
    <3>1. Len(old) \in Nat /\ i \in 1 .. Len(old)
      BY <1>2, <2>1
    <3>2. Reached(t) = First(old, n) /\ Reached(t)' = First(new, n)
      BY <2>4
    <3>. HIDE DEF old, new
    <3>3. \E c, b : \A x : x \notin {c, b} => (x \in First(new, n) <=> x \in First(old, n))
      BY <2>3, <3>1, RemoveMovesOne
    <3>. QED
      BY <3>2, <3>3
  <2>6. \A u \in Tags \ {t} : Reached(u)' = Reached(u)
    BY <1>2, <2>2
  <2>7. \A u \in Tags : \A x : x \notin {c, b} => (x \in Reached(u)' <=> x \in Reached(u))
    BY <2>5, <2>6
  <2>8. matching' = matching
    BY <1>6 DEF EventLeaves
  <2>9. \A m \in Markets : m \notin MarketsIn({c, b} \cap Events) =>
               (m \in (AllReached \cap matching)' <=> m \in AllReached \cap matching)
    BY <1>3, <2>7, <2>8, ReachMoves
  <2>. QED
    BY <2>9
<1>7. ASSUME NEW k \in Markets \cup Series, MarketChanges(k)
      PROVE  \E a, b : \A m \in Markets : m \notin MarketsIn({a, b} \cap Events) =>
                 (m \in (AllReached \cap matching)' <=> m \in AllReached \cap matching)
  <2>1. lists' = lists /\ \A x : x # k => (x \in matching' <=> x \in matching)
    BY <1>7 DEF MarketChanges
  <2>2. \A u \in Tags : Reached(u)' = Reached(u)
    BY <1>2, <2>1
  <2>3. AllReached' = AllReached /\ AllReached \subseteq MarketsIn(Events)
    BY <1>3, <2>2 DEF AllReached, MarketsIn
  <2>4. CASE k \in MarketsIn(Events)
    <3>1. PICK e \in Events : k \in MarketsOf[e]
      BY <2>4 DEF MarketsIn
    <3>2. k \in MarketsIn({e, e} \cap Events)
      BY <3>1 DEF MarketsIn
    <3>. QED
      BY <2>1, <2>3, <3>2
  <2>5. CASE k \notin MarketsIn(Events)
    BY <2>1, <2>3, <2>5
  <2>. QED
    BY <2>4, <2>5
<1>. QED
  BY <1>5, <1>6, <1>7

(* What a page adds is what the poll reaches with it.                      *)
LEMMA PageReaches ==
    ASSUME FetchTypeOK, FetchTypeOK', NEW t \in Tags, FetchPage(t)
    PROVE  AllReached' = AllReached \cup MarketsIn(Page(t))
<1>1. /\ fetch \in Fetches /\ fetch' \in Fetches /\ lists' = lists
      /\ lists[t] \in Seq(Events) /\ Len(lists[t]) \in Nat
      /\ DOMAIN lists[t] = 1 .. Len(lists[t]) /\ fetch.offset[t] \in Nat /\ PageSize \in Nat
      /\ t \in fetch.unread
  <2>1. fetch \in Fetches /\ fetch' \in Fetches /\ t \in fetch.unread
    BY PageStep
  <2>2. lists' = lists /\ lists[t] \in Seq(Events)
    BY DEF FetchTypeOK, FetchPage, gammaVars
  <2>3. fetch.offset[t] \in Nat
    BY <2>1 DEF Fetches
  <2>. QED
    BY <2>1, <2>2, <2>3, FetchConfig
<1>2. \A u \in Tags \ {t} : Reached(u)' = Reached(u)
  <2>1. /\ \A u \in Tags : u # t => (u \in fetch'.unread <=> u \in fetch.unread)
        /\ \A u \in Tags : u # t => fetch'.offset[u] = fetch.offset[u]
    BY PageStep
  <2>. QED
    BY <1>1, <2>1 DEF Reached
<1>. DEFINE inPage == fetch.offset[t] + 1 .. PageEnd(t)
<1>3. Page(t) = {lists[t][i] : i \in inPage}
  BY DEF Page
<1>4. Reached(t)' = Reached(t) \cup Page(t)
  <2>1. CASE FullPage(t)
    <3>1. Reached(t)' = First(lists[t], fetch.offset[t] + PageSize)
      BY <1>1, <2>1, PageStep DEF Reached
    <3>2. /\ \A j \in DOMAIN lists[t] :
                j <= fetch.offset[t] + PageSize <=> j <= fetch.offset[t] \/ j \in inPage
          /\ inPage \subseteq DOMAIN lists[t]
      BY <1>1, <2>1 DEF FullPage, PageEnd
    <3>. HIDE DEF inPage
    <3>. QED
      BY <1>1, <1>3, <3>1, <3>2 DEF Reached, First
  <2>2. CASE ~FullPage(t)
    <3>1. Reached(t)' = First(lists[t], Len(lists[t]))
      BY <1>1, <2>2, PageStep DEF Reached
    <3>2. /\ \A j \in DOMAIN lists[t] : j <= Len(lists[t]) /\ (j <= fetch.offset[t] \/ j \in inPage)
          /\ inPage \subseteq DOMAIN lists[t]
      BY <1>1, <2>2 DEF FullPage, PageEnd
    <3>. HIDE DEF inPage
    <3>. QED
      BY <1>1, <1>3, <3>1, <3>2 DEF Reached, First
  <2>. QED
    BY <2>1, <2>2
<1>5. MarketsIn(Reached(t) \cup Page(t)) = MarketsIn(Reached(t)) \cup MarketsIn(Page(t))
  BY DEF MarketsIn
<1>6. \A u \in Tags \ {t} : MarketsIn(Reached(u))' = MarketsIn(Reached(u))
  BY <1>2 DEF MarketsIn
<1>7. MarketsIn(Reached(t))' = MarketsIn(Reached(t)) \cup MarketsIn(Page(t))
  BY <1>4, <1>5 DEF MarketsIn
<1>. QED
  BY <1>6, <1>7 DEF AllReached

LEMMA MistakesStep ==
    ASSUME FetchTypeOK, FetchTypeOK', FewMistakes, [FetchNext]_fetchVars
    PROVE  FewMistakes'
<1>. DEFINE Few == \E es \in SUBSET Events : /\ Cardinality(es) <= 2 * fetch'.disturbed
                                             /\ Mistakes' \subseteq MarketsIn(es)
<1>. SUFFICES ASSUME fetch' # Idle PROVE Few
  BY DEF FewMistakes, MarketsIn
<1>1. /\ fetch = Idle \/ fetch \in Fetches
      /\ fetch' \in Fetches
      /\ fetch \in Fetches => fetch # Idle /\ fetch.disturbed \in Nat
  BY DEF FetchTypeOK, Fetches, Idle
<1>2. ASSUME NEW es \in SUBSET Events
      PROVE  IsFiniteSet(es) /\ Cardinality(es) \in Nat
  BY <1>2, FetchConfig, FS_Subset, FS_CardinalityType
(* No more mistakes, and no fewer disturbances.                            *)
<1>3. ASSUME fetch \in Fetches, Mistakes' \subseteq Mistakes, fetch'.disturbed >= fetch.disturbed
      PROVE  Few
  <2>1. PICK es \in SUBSET Events : /\ Cardinality(es) <= 2 * fetch.disturbed
                                    /\ Mistakes \subseteq MarketsIn(es)
    BY <1>1, <1>3 DEF FewMistakes
  <2>2. fetch'.disturbed \in Nat /\ fetch.disturbed \in Nat
    BY <1>1, <1>3 DEF Fetches
  <2>. QED
    BY <1>2, <1>3, <2>1, <2>2
<1>4. ASSUME \/ \E t \in Tags : \/ \E e \in Events : EventAppears(t, e)
                              \/ \E i \in DOMAIN lists[t] : EventLeaves(t, i)
             \/ \E m \in Markets \cup Series : MarketChanges(m)
      PROVE  Few
  <2>1. Disturb
    BY <1>4 DEF EventAppears, EventLeaves, MarketChanges
  <2>2. /\ fetch \in Fetches /\ fetch # Idle /\ fetch'.disturbed = fetch.disturbed + 1
        /\ fetch' = [fetch EXCEPT !.disturbed = fetch.disturbed + 1]
    BY <1>1, <2>1, Disturbed
  <2>3. fetch'.current = fetch.current
    BY <2>2 DEF Fetches
  <2>4. PICK a, b : \A m \in Markets : m \notin MarketsIn({a, b} \cap Events) =>
               (m \in (AllReached \cap matching)' <=> m \in AllReached \cap matching)
    BY <1>4, <2>2, DisturbedReach
  <2>5. PICK es \in SUBSET Events : /\ Cardinality(es) <= 2 * fetch.disturbed
                                    /\ Mistakes \subseteq MarketsIn(es)
    BY <1>1, <2>2 DEF FewMistakes
  <2>. DEFINE more == es \cup ({a, b} \cap Events)
  <2>6. Mistakes' \subseteq Mistakes \cup MarketsIn({a, b} \cap Events)
    BY <2>3, <2>4 DEF Mistakes
  <2>7. MarketsIn(more) = MarketsIn(es) \cup MarketsIn({a, b} \cap Events)
    BY DEF MarketsIn
  <2>8. Cardinality(more) <= Cardinality(es) + 2
    <3>1. IsFiniteSet(es) /\ more \subseteq es \cup {a} \cup {b}
      BY <1>2
    <3>. HIDE DEF more
    <3>. QED
      BY <3>1, TwoMore
  <2>9. more \in SUBSET Events /\ Cardinality(more) \in Nat /\ Cardinality(es) \in Nat
    BY <1>2
  <2>. HIDE DEF more
  <2>10. Cardinality(more) <= 2 * fetch'.disturbed
    BY <1>1, <2>2, <2>5, <2>8, <2>9
  <2>. QED
    BY <2>5, <2>6, <2>7, <2>9, <2>10
<1>5. CASE FetchBegin
  <2>1. /\ fetch'.unread = Tags /\ fetch'.offset = [t \in Tags |-> 0]
        /\ fetch'.current = {} /\ fetch'.disturbed = 0
        /\ lists' = lists /\ lists \in [Tags -> Seq(Events)]
    BY <1>5 DEF FetchBegin, gammaVars, FetchTypeOK
  <2>2. \A t \in Tags : Reached(t)' = {}
    BY <2>1 DEF Reached, First
  <2>3. AllReached' = {}
    BY <2>2 DEF AllReached, MarketsIn
  <2>4. Mistakes' = {}
    BY <2>1, <2>3 DEF Mistakes
  <2>. QED
    BY <2>1, <2>4, FS_EmptySet
<1>6. ASSUME NEW t \in Tags, FetchPage(t)
      PROVE  Few
  <2>1. /\ fetch \in Fetches /\ matching' = matching
        /\ fetch'.current = fetch.current \cup (MarketsIn(Page(t)) \cap matching)
        /\ fetch'.disturbed = fetch.disturbed /\ fetch.disturbed \in Nat
    BY <1>1, <1>6, PageStep DEF FetchPage, gammaVars, Found
  <2>2. AllReached' = AllReached \cup MarketsIn(Page(t))
    BY <1>6, PageReaches
  <2>3. Mistakes' \subseteq Mistakes
    BY <2>1, <2>2 DEF Mistakes
  <2>. QED
    BY <1>3, <2>1, <2>3
(* Windows, and steps that read nothing.                                   *)
<1>7. ASSUME fetch \in Fetches, lists' = lists, matching' = matching,
             fetch'.unread = fetch.unread, fetch'.offset = fetch.offset,
             fetch'.current \cap Markets = fetch.current \cap Markets,
             fetch'.disturbed >= fetch.disturbed
      PROVE  Few
  <2>1. AllReached' = AllReached
    BY <1>7 DEF AllReached, Reached, First, MarketsIn
  <2>2. Mistakes' \subseteq Mistakes
    BY <1>7, <2>1 DEF Mistakes
  <2>. QED
    BY <1>3, <1>7, <2>2
<1>8. ASSUME NEW w \in Series, LookUp(w)
      PROVE  Few
  <2>1. fetch \in Fetches /\ w \notin Markets /\ lists' = lists /\ matching' = matching
    BY <1>1, <1>8, ListedOrSeries DEF LookUp, Idle, gammaVars
  <2>2. /\ fetch'.unread = fetch.unread /\ fetch'.offset = fetch.offset
        /\ fetch'.current \cap Markets = fetch.current \cap Markets
        /\ fetch'.disturbed = fetch.disturbed /\ fetch.disturbed \in Nat
    BY <1>8, <2>1 DEF LookUp, Fetches
  <2>. QED
    BY <1>7, <2>1, <2>2
<1>9. ASSUME NEW w \in Series, LookUpFails(w)
      PROVE  Few
  <2>1. lists' = lists /\ matching' = matching /\ fetch \in Fetches /\ fetch.disturbed \in Nat
    BY <1>1, <1>9, FailedLookUp DEF LookUpFails, gammaVars
  <2>. QED
    BY <1>7, <1>9, <2>1, FailedLookUp
<1>10. CASE MakeSlugs \/ FetchEnd \/ Tick \/ UNCHANGED fetchVars
  <2>1. /\ fetch \in Fetches /\ lists' = lists /\ matching' = matching
    BY <1>1, <1>10 DEF MakeSlugs, FetchEnd, Tick, fetchVars, gammaVars, Idle
  <2>2. /\ fetch'.unread = fetch.unread /\ fetch'.offset = fetch.offset
        /\ fetch'.current = fetch.current
        /\ fetch'.disturbed = fetch.disturbed /\ fetch.disturbed \in Nat
    BY <1>10, <2>1 DEF MakeSlugs, FetchEnd, Tick, fetchVars, Fetches
  <2>. QED
    BY <1>7, <2>1, <2>2
<1>11. ~FetchFails
  BY DEF FetchFails
<1>. QED
  BY <1>4, <1>5, <1>6, <1>8, <1>9, <1>10, <1>11 DEF FetchNext, FetchStep

LEMMA FewMistakesHold == FetchSpec => []FewMistakes
<1>1. FetchInit => FewMistakes
  BY DEF FetchInit, FewMistakes
<1>2. FetchTypeOK /\ FetchTypeOK' /\ FewMistakes /\ [FetchNext]_fetchVars => FewMistakes'
  BY MistakesStep
<1>. QED
  BY <1>1, <1>2, FetchTypeCorrect, PTL DEF FetchSpec

(* When the lists are read, the poll has reached all of them.              *)
LEMMA ReachedAll ==
    ASSUME FetchTypeOK, ListsFirst, fetch.pc = "found"
    PROVE  AllReached = InList /\ InList \subseteq Markets
<1>1. fetch \in Fetches /\ fetch.unread = {} /\ \A t \in Tags : lists[t] \in Seq(Events)
  BY DEF FetchTypeOK, Fetches, ListsFirst, Idle
<1>2. \A t \in Tags : Reached(t) = First(lists[t], Len(lists[t])) /\ Reached(t) \subseteq Events
  BY <1>1, FirstAreEvents DEF Reached
<1>3. AllReached = InList
  BY <1>2 DEF AllReached, InList
<1>4. \A t \in Tags : MarketsIn(Reached(t)) \subseteq Markets
  BY <1>2, FetchConfig DEF MarketsIn
<1>. QED
  BY <1>3, <1>4 DEF AllReached
----------------------------------------------------------------------------
(* The windows: the poll's own steps, then the others.                     *)
LEMMA WindowStep ==
    ASSUME FetchTypeOK, FetchTypeOK', WindowInv, [FetchNext]_fetchVars
    PROVE  WindowInv'
<1>0. fetch = Idle \/ fetch \in Fetches
  BY DEF FetchTypeOK, Fetches
<1>1. ASSUME fetch' = Idle
      PROVE  WindowInv'
  BY <1>1 DEF WindowInv, ListsFirst, AskedBefore, WindowsAreRead, Idle
<1>2. ASSUME Disturb, clock' = clock
      PROVE  WindowInv'
  <2>1. CASE fetch' # Idle
    <3>1. /\ fetch \in Fetches /\ fetch'.disturbed # 0
          /\ fetch'.pc = fetch.pc /\ fetch'.asked = fetch.asked /\ fetch'.left = fetch.left
          /\ fetch'.current = fetch.current /\ fetch'.unread = fetch.unread
      BY <1>2, <2>1, Disturbed DEF Fetches
    <3>2. Candidates(fetch.asked)' = Candidates(fetch.asked)
      BY <3>1 DEF Candidates
    <3>. QED
      BY <1>2, <3>1, <3>2 DEF WindowInv, ListsFirst, AskedBefore, WindowsAreRead
  <2>. QED
    BY <1>1, <2>1
<1>3. CASE FetchBegin
  <2>1. fetch'.pc = "lists" /\ fetch'.current = {}
    BY <1>3 DEF FetchBegin
  <2>. QED
    BY <2>1 DEF WindowInv, ListsFirst, AskedBefore, WindowsAreRead
<1>4. ASSUME NEW t \in Tags, FetchPage(t)
      PROVE  WindowInv'
  BY <1>4, PageStep DEF WindowInv, ListsFirst, AskedBefore, WindowsAreRead
<1>5. CASE MakeSlugs
  <2>1. /\ fetch \in Fetches /\ fetch.pc = "lists" /\ fetch.unread = {} /\ clock' = clock
        /\ fetch.current \subseteq Markets /\ clock \in Nat
    BY <1>0, <1>5, FetchConfig DEF MakeSlugs, Idle, gammaVars, WindowInv, ListsFirst, FetchTypeOK
  <2>2. /\ fetch'.pc = "slugs" /\ fetch'.unread = {} /\ fetch'.current = fetch.current
        /\ fetch'.left = Candidates(clock) /\ fetch'.asked = clock
    BY <1>5, <2>1 DEF MakeSlugs, Fetches
  <2>3. Candidates(fetch.asked)' = Candidates(clock)
    BY <2>2 DEF Candidates
  <2>4. ListsFirst' /\ AskedBefore'
    BY <2>1, <2>2, <2>3 DEF ListsFirst, AskedBefore
  <2>5. WindowsAreRead'
    BY <2>1, <2>2, <2>3, ListedOrSeries DEF WindowsAreRead
  <2>. QED
    BY <2>4, <2>5 DEF WindowInv
<1>6. ASSUME NEW w \in Series, LookUp(w)
      PROVE  WindowInv'
  <2>1. /\ fetch \in Fetches /\ fetch.pc = "slugs" /\ w \in fetch.left
        /\ matching' = matching /\ clock' = clock
    BY <1>0, <1>6 DEF LookUp, Idle, gammaVars
  <2>2. /\ fetch'.pc = "slugs" /\ fetch'.disturbed = fetch.disturbed
        /\ fetch'.current = fetch.current \cup {v \in {w} \cap matching : NotEnding(v)}
        /\ fetch'.left = fetch.left \ {w} /\ fetch'.asked = fetch.asked
        /\ fetch'.unread = fetch.unread
    BY <1>6, <2>1 DEF LookUp, Fetches
  <2>3. Candidates(fetch.asked)' = Candidates(fetch.asked) /\ \A v : NotEnding(v)' <=> NotEnding(v)
    BY <2>1, <2>2 DEF Candidates, NotEnding
  <2>4. ListsFirst' /\ AskedBefore'
    BY <2>1, <2>2, <2>3 DEF WindowInv, ListsFirst, AskedBefore
  <2>5. WindowsAreRead'
    BY <2>1, <2>2, <2>3 DEF WindowsAreRead, AskedBefore, WindowInv
  <2>. QED
    BY <2>4, <2>5 DEF WindowInv
<1>7. ASSUME NEW w \in Series, LookUpFails(w)
      PROVE  WindowInv'
  <2>1. fetch'.disturbed # 0 /\ clock' = clock
    <3>1. fetch'.disturbed = fetch.disturbed + 1 /\ fetch \in Fetches
      BY <1>7, FailedLookUp
    <3>2. clock' = clock
      BY <1>7 DEF LookUpFails, gammaVars
    <3>. QED
      BY <3>1, <3>2 DEF Fetches
  <2>2. Candidates(fetch.asked)' = Candidates(fetch.asked)
    BY <1>7, FailedLookUp DEF Candidates
  <2>. QED
    BY <1>7, <2>1, <2>2, FailedLookUp DEF WindowInv, ListsFirst, AskedBefore, WindowsAreRead
<1>8. CASE FetchEnd
  <2>1. /\ fetch \in Fetches /\ fetch.pc = "slugs" /\ fetch.left = {}
        /\ matching' = matching /\ clock' = clock
    BY <1>0, <1>8 DEF FetchEnd, Idle, gammaVars
  <2>2. /\ fetch'.pc = "found" /\ fetch'.disturbed = fetch.disturbed
        /\ fetch'.current = fetch.current /\ fetch'.asked = fetch.asked
        /\ fetch'.left = {} /\ fetch'.unread = fetch.unread
    BY <1>8, <2>1 DEF FetchEnd, Fetches
  <2>3. Candidates(fetch.asked)' = Candidates(fetch.asked) /\ \A v : NotEnding(v)' <=> NotEnding(v)
    BY <2>1, <2>2 DEF Candidates, NotEnding
  <2>. QED
    BY <2>1, <2>2, <2>3 DEF WindowInv, ListsFirst, AskedBefore, WindowsAreRead
<1>9. CASE Tick
  <2>1. fetch' = fetch /\ matching' = matching /\ clock \in Nat /\ clock' = clock + 1
    BY <1>9, FetchConfig DEF FetchTypeOK, Tick
  <2>2. CASE fetch \in Fetches
    <3>1. fetch.asked \in Nat
      BY <2>2 DEF Fetches
    <3>2. Candidates(fetch.asked)' = Candidates(fetch.asked)
      BY <2>1 DEF Candidates
    <3>3. \A v \in Series : NotEnding(v)' => NotEnding(v)
      BY <2>1, FetchConfig DEF NotEnding
    <3>4. ListsFirst' /\ AskedBefore'
      BY <2>1, <3>1, <3>2 DEF WindowInv, ListsFirst, AskedBefore
    <3>5. fetch.pc \in {"slugs", "found"} => clock' # fetch.asked
      BY <2>1, <3>1 DEF WindowInv, AskedBefore
    <3>6. WindowsAreRead'
      BY <2>1, <3>2, <3>3, <3>5 DEF WindowInv, WindowsAreRead
    <3>. QED
      BY <3>4, <3>6 DEF WindowInv
  <2>. QED
    BY <1>0, <1>1, <2>1, <2>2
<1>10. CASE UNCHANGED fetchVars
  BY <1>10 DEF fetchVars, gammaVars, WindowInv, ListsFirst, AskedBefore, WindowsAreRead,
     Candidates, NotEnding
<1>. QED
  BY <1>1, <1>2, <1>3, <1>4, <1>5, <1>6, <1>7, <1>8, <1>9, <1>10
     DEF FetchNext, FetchStep, FetchFails, EventAppears, EventLeaves, MarketChanges

LEMMA FetchInvHolds == FetchSpec => []FetchInv
<1>1. FetchInit => WindowInv
  BY DEF FetchInit, WindowInv, ListsFirst, AskedBefore, WindowsAreRead, Idle
<1>2. FetchTypeOK /\ FetchTypeOK' /\ WindowInv /\ [FetchNext]_fetchVars => WindowInv'
  BY WindowStep
<1>3. FetchInv <=> FetchTypeOK /\ FewMistakes /\ WindowInv
  BY DEF FetchInv
<1>. QED
  BY <1>1, <1>2, <1>3, FetchTypeCorrect, FewMistakesHold, PTL DEF FetchSpec

(* An undisturbed poll finds what Gamma lists (fetchAllEvents, updown.poll):*)
(* for all lists, page sizes, and lengths of window.                       *)
THEOREM QuietFetchExact == FetchSpec => []QuietFetchIsExact
<1>1. FetchInv => QuietFetchIsExact
  <2>. SUFFICES ASSUME FetchInv, fetch.pc = "found", fetch.disturbed = 0, clock = fetch.asked
                PROVE  fetch.current = Listed
    BY DEF QuietFetchIsExact, Quiet
  <2>1. fetch \in Fetches /\ fetch # Idle /\ fetch.current \subseteq Markets \cup Series
    BY DEF FetchInv, FetchTypeOK, Fetches, Idle
  <2>2. fetch.current \cap Markets = InList \cap matching
    <3>1. PICK es \in SUBSET Events : Cardinality(es) <= 0 /\ Mistakes \subseteq MarketsIn(es)
      BY <2>1 DEF FetchInv, FewMistakes
    <3>2. es = {}
      <4>1. IsFiniteSet(es) /\ Cardinality(es) \in Nat
        BY FetchConfig, FS_Subset, FS_CardinalityType
      <4>2. Cardinality(es) = 0
        BY <3>1, <4>1
      <4>. QED
        BY <4>1, <4>2, FS_EmptySet
    <3>3. Mistakes = {}
      BY <3>1, <3>2 DEF MarketsIn
    <3>4. AllReached = InList /\ InList \subseteq Markets
      BY ReachedAll DEF FetchInv, WindowInv
    <3>. QED
      BY <3>3, <3>4 DEF Mistakes
  <2>3. \A w \in Series : w \in fetch.current <=>
                          w \in matching /\ w \in Candidates(clock) /\ NotEnding(w)
    BY DEF FetchInv, WindowInv, WindowsAreRead, AskedBefore
  <2>4. InList \subseteq Markets /\ Candidates(clock) \subseteq Series
    BY ReachedAll DEF FetchInv, WindowInv, Candidates
  <2>. QED
    BY <2>1, <2>2, <2>3, <2>4, ListedOrSeries DEF Listed
<1>. QED
  BY <1>1, FetchInvHolds, PTL

(* The start of a window is the last multiple of the length.               *)
LEMMA WindowStart ==
    ASSUME Length \in Nat \ {0}, NEW t \in Int
    PROVE  /\ WindowOf(t) \in Int
           /\ WindowOf(t) <= t
           /\ \A w \in Nat : w % Length = 0 /\ w <= t => w <= WindowOf(t)
<1>. DEFINE q == t \div Length
<1>1. q \in Int /\ q * Length <= t /\ t < (q + 1) * Length
  OBVIOUS
<1>2. ASSUME NEW w \in Nat, w % Length = 0, w <= t
      PROVE  w <= q * Length
  <2>. DEFINE k == w \div Length
  <2>1. k \in Nat /\ w = k * Length
    BY <1>2
  <2>. HIDE DEF q, k
  <2>2. k < q + 1
    BY <1>1, <1>2, <2>1
  <2>3. k <= q
    BY <1>1, <2>1, <2>2
  <2>. QED
    BY <1>1, <2>1, <2>3
<1>. QED
  BY <1>1, <1>2 DEF WindowOf

(* No window is missed: whatever the clock is when its slugs are made      *)
(* (candidate15mSlugs, candidate1hSlugs), an undisturbed poll finds each   *)
(* window that is open or next to open.                                    *)
THEOREM OpenWindowsFound == FetchSpec => []OpenWindowsAreFound
<1>1. FetchInv => OpenWindowsAreFound
  <2>. SUFFICES ASSUME FetchInv, fetch.pc = "found", fetch.disturbed = 0,
                       NEW w \in Series, w \in matching,
                       w <= fetch.asked + Length, clock < w + Length - Margin
                PROVE  w \in fetch.current
    BY DEF OpenWindowsAreFound, Quiet
  <2>1. fetch \in Fetches /\ clock \in Nat /\ Start <= clock
    BY FetchConfig DEF FetchInv, FetchTypeOK, Fetches, Idle
  <2>2. fetch.asked \in Nat /\ fetch.asked <= clock /\ fetch.left = {}
    BY <2>1 DEF FetchInv, WindowInv, AskedBefore, Fetches
  <2>3. /\ w \in Nat /\ w % Length = 0 /\ Length \in Nat \ {0} /\ Margin \in Nat
        /\ Margin <= Length
    BY FetchConfig
  <2>4. w <= WindowOf(fetch.asked + Length)
    BY <2>2, <2>3, WindowStart
  <2>5. WindowOf(fetch.asked - 2 * Length) <= w
    <3>1. /\ fetch.asked - 2 * Length \in Int
          /\ fetch.asked - 2 * Length <= w
      BY <2>1, <2>2, <2>3
    <3>2. /\ WindowOf(fetch.asked - 2 * Length) \in Int
          /\ WindowOf(fetch.asked - 2 * Length) <= fetch.asked - 2 * Length
      BY <2>3, <3>1, WindowStart
    <3>. QED
      BY <2>3, <3>1, <3>2
  <2>6. w \in Candidates(fetch.asked) \ fetch.left
    BY <2>2, <2>4, <2>5 DEF Candidates
  <2>7. NotEnding(w)
    BY <2>1, <2>3 DEF NotEnding
  <2>. QED
    BY <2>6, <2>7 DEF FetchInv, WindowInv, WindowsAreRead
<1>. QED
  BY <1>1, FetchInvHolds, PTL

(* A poll that events, filters or requests disturb d times is wrong about  *)
(* the markets of 2 * d events at most, however many markets they have:    *)
(* for all lists, page sizes and lengths of window.                        *)
THEOREM ErrorsCaused == FetchSpec => []ErrorsHaveCauses
<1>1. FetchInv => ErrorsHaveCauses
  <2>. SUFFICES ASSUME FetchInv, fetch.pc = "found"
                PROVE  \E es \in SUBSET Events : /\ Cardinality(es) <= 2 * fetch.disturbed
                                                 /\ Wrong \subseteq MarketsIn(es)
    BY DEF ErrorsHaveCauses
  <2>1. fetch # Idle
    BY DEF Idle
  <2>2. AllReached = InList /\ InList \subseteq Markets
    BY ReachedAll DEF FetchInv, WindowInv
  <2>3. Markets \cap Candidates(clock) = {}
    BY ListedOrSeries DEF Candidates
  <2>4. Wrong = Mistakes
    BY <2>2, <2>3 DEF Wrong, Mistakes, Listed
  <2>. QED
    BY <2>1, <2>4 DEF FetchInv, FewMistakes
<1>. QED
  BY <1>1, FetchInvHolds, PTL
=============================================================================
