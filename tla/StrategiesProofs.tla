-------------------------- MODULE StrategiesProofs --------------------------
(***************************************************************************)
(* Proofs about the strategies of a workspace, for any number of           *)
(* strategies, setups, rules, conditions, trades and versions.             *)
(*                                                                         *)
(* A call changes the versions of one strategy in one of three ways: it    *)
(* writes the draft (a copy of a locked version is a new draft), it locks  *)
(* the current version, or it makes the strategy.  Each is shown to keep   *)
(* every locked version (LockedKept), from which the records of trades and *)
(* the pages that wait follow.                                             *)
(***************************************************************************)
EXTENDS Strategies, SequenceTheorems, TLAPS

StrategyRow == [archived : BOOLEAN, current : 1..MaxVersions]
SetupFields == [name : Names, conditions : Partial(Conditions, Texts)]
RuleFields  == [scope : SnapshotIds \cup {Null}, text : Texts]

-----------------------------------------------------------------------------
(* Partial functions, which hold the rows a version owns. *)

LEMMA PartialIntro ==
  ASSUME NEW S, NEW T, NEW D, D \subseteq S, NEW f \in [D -> T]
  PROVE  f \in Partial(S, T) /\ DOMAIN f = D
BY DEF Partial

LEMMA PartialElim ==
  ASSUME NEW S, NEW T, NEW f \in Partial(S, T)
  PROVE  /\ DOMAIN f \subseteq S /\ f \in [DOMAIN f -> T]
         /\ \A x \in DOMAIN f : f[x] \in T
BY DEF Partial

LEMMA WithOK ==
  ASSUME NEW S, NEW T, NEW f \in Partial(S, T), NEW k \in S, NEW v \in T
  PROVE  /\ With(f, k, v) \in Partial(S, T)
         /\ DOMAIN With(f, k, v) = DOMAIN f \cup {k}
         /\ With(f, k, v)[k] = v
         /\ \A x \in DOMAIN f \ {k} : With(f, k, v)[x] = f[x]
<1>1. DOMAIN f \subseteq S /\ \A x \in DOMAIN f : f[x] \in T
  BY PartialElim
<1>2. With(f, k, v) \in [DOMAIN f \cup {k} -> T]
  BY <1>1 DEF With
<1> QED
  BY <1>1, <1>2, PartialIntro DEF With

LEMMA WithoutOK ==
  ASSUME NEW S, NEW T, NEW f \in Partial(S, T), NEW k
  PROVE  /\ Without(f, k) \in Partial(S, T)
         /\ DOMAIN Without(f, k) = DOMAIN f \ {k}
         /\ \A x \in DOMAIN f \ {k} : Without(f, k)[x] = f[x]
<1>1. DOMAIN f \subseteq S /\ \A x \in DOMAIN f : f[x] \in T
  BY PartialElim
<1>2. Without(f, k) \in [DOMAIN f \ {k} -> T]
  BY <1>1 DEF Without
<1> QED
  BY <1>1, <1>2, PartialIntro DEF Without

LEMMA ExceptOK ==
  ASSUME NEW S, NEW T, NEW f \in Partial(S, T), NEW k \in DOMAIN f, NEW v \in T
  PROVE  /\ [f EXCEPT ![k] = v] \in Partial(S, T)
         /\ DOMAIN [f EXCEPT ![k] = v] = DOMAIN f
         /\ [f EXCEPT ![k] = v][k] = v
         /\ \A x \in DOMAIN f \ {k} : [f EXCEPT ![k] = v][x] = f[x]
<1>1. DOMAIN f \subseteq S /\ f \in [DOMAIN f -> T]
  BY PartialElim
<1>2. [f EXCEPT ![k] = v] \in [DOMAIN f -> T]
  BY <1>1
<1> QED
  BY <1>1, <1>2, PartialIntro

LEMMA NoRowsOK ==
  ASSUME NEW S, NEW T
  PROVE  NoRows \in Partial(S, T) /\ DOMAIN NoRows = {}
<1>1. NoRows \in [{} -> T]
  BY DEF NoRows
<1> QED
  BY <1>1, PartialIntro

-----------------------------------------------------------------------------
(* Versions and their edits. *)

(* The rules of version n that belong to a setup. *)
Scoped(v, n) ==
  \A r \in DOMAIN v.rules :
    v.rules[r].scope # Null =>
      v.rules[r].scope[1] = n /\ v.rules[r].scope[2] \in DOMAIN v.setups

(* A content that may take the place of version v, the n-th. *)
Edit(v, n, w) == w \in Version /\ w.locked = v.locked /\ Scoped(w, n)

LEMMA VersionFields ==
  ASSUME NEW v \in Version
  PROVE  /\ v.locked \in BOOLEAN /\ v.name \in Names
         /\ v.setups \in Partial(Setups, SetupFields)
         /\ v.rules \in Partial(Rules, RuleFields)
BY DEF Version, SetupFields, RuleFields

LEMMA SetupsWith ==
  ASSUME NEW f \in Partial(Setups, SetupFields), NEW k \in Setups, NEW v \in SetupFields
  PROVE  With(f, k, v) \in Partial(Setups, SetupFields) /\ DOMAIN f \subseteq DOMAIN With(f, k, v)
<1>1. With(f, k, v) \in Partial(Setups, SetupFields)
  BY WithOK
<1>2. DOMAIN With(f, k, v) = DOMAIN f \cup {k}
  BY DEF With
<1> QED
  BY <1>1, <1>2

LEMMA RulesWith ==
  ASSUME NEW f \in Partial(Rules, RuleFields), NEW k \in Rules, NEW v \in RuleFields
  PROVE  /\ With(f, k, v) \in Partial(Rules, RuleFields)
         /\ DOMAIN With(f, k, v) = DOMAIN f \cup {k}
         /\ With(f, k, v)[k] = v
         /\ \A x \in DOMAIN f \ {k} : With(f, k, v)[x] = f[x]
<1>1. With(f, k, v) \in Partial(Rules, RuleFields)
  BY WithOK
<1> QED
  BY <1>1 DEF With

LEMMA RulesWithout ==
  ASSUME NEW f \in Partial(Rules, RuleFields), NEW k \in Rules
  PROVE  /\ Without(f, k) \in Partial(Rules, RuleFields)
         /\ DOMAIN Without(f, k) = DOMAIN f \ {k}
         /\ \A x \in DOMAIN f \ {k} : Without(f, k)[x] = f[x]
<1>1. Without(f, k) \in Partial(Rules, RuleFields)
  BY WithoutOK
<1> QED
  BY <1>1 DEF Without

LEMMA EditName ==
  ASSUME NEW v \in Version, NEW n, Scoped(v, n), NEW name \in Names
  PROVE  Edit(v, n, [v EXCEPT !.name = name])
BY DEF Version, Edit, Scoped

LEMMA EditSetups ==
  ASSUME NEW v \in Version, NEW n, Scoped(v, n),
         NEW x \in Partial(Setups, SetupFields), DOMAIN v.setups \subseteq DOMAIN x
  PROVE  Edit(v, n, [v EXCEPT !.setups = x])
<1>1. [v EXCEPT !.setups = x] \in Version
  BY DEF Version, SetupFields
<1>2. /\ [v EXCEPT !.setups = x].setups = x /\ [v EXCEPT !.setups = x].rules = v.rules
      /\ [v EXCEPT !.setups = x].locked = v.locked
  BY DEF Version
<1> QED
  BY <1>1, <1>2 DEF Edit, Scoped

LEMMA EditRules ==
  ASSUME NEW v \in Version, NEW n,
         NEW x \in Partial(Rules, RuleFields),
         \A r \in DOMAIN x : x[r].scope # Null => x[r].scope[1] = n /\ x[r].scope[2] \in DOMAIN v.setups
  PROVE  Edit(v, n, [v EXCEPT !.rules = x])
<1>1. [v EXCEPT !.rules = x] \in Version
  BY DEF Version, RuleFields
<1>2. /\ [v EXCEPT !.rules = x].setups = v.setups /\ [v EXCEPT !.rules = x].rules = x
      /\ [v EXCEPT !.rules = x].locked = v.locked
  BY DEF Version
<1> QED
  BY <1>1, <1>2 DEF Edit, Scoped

LEMMA SnapshotOK ==
  ASSUME NEW n \in 1..MaxVersions, NEW u \in Setups
  PROVE  <<n, u>> \in SnapshotIds /\ <<n, u>>[1] = n /\ <<n, u>>[2] = u
BY DEF SnapshotIds

(* A copy belongs to its own version. *)
LEMMA CopyOK ==
  ASSUME NEW v \in Version, NEW m, Scoped(v, m), NEW n \in 1..MaxVersions
  PROVE  /\ CopyOf(v, n) \in Version /\ CopyOf(v, n).locked = FALSE
         /\ Scoped(CopyOf(v, n), n)
<1> DEFINE rules == [r \in DOMAIN v.rules |->
                       [scope |-> Rescoped(v.rules[r].scope, n), text |-> v.rules[r].text]]
           w == [v EXCEPT !.locked = FALSE, !.rules = rules]
<1>1. /\ DOMAIN v.rules \subseteq Rules
      /\ \A r \in DOMAIN v.rules : v.rules[r] \in RuleFields
  BY VersionFields, PartialElim
<1>2. ASSUME NEW r \in DOMAIN v.rules
      PROVE  /\ rules[r] \in RuleFields
             /\ rules[r].scope # Null => rules[r].scope[1] = n /\ rules[r].scope[2] \in DOMAIN v.setups
  <2>1. v.rules[r].scope \in SnapshotIds \cup {Null} /\ v.rules[r].text \in Texts
    BY <1>1, <1>2 DEF RuleFields
  <2>2. rules[r].scope = Rescoped(v.rules[r].scope, n) /\ rules[r].text = v.rules[r].text
        /\ rules[r] = [scope |-> Rescoped(v.rules[r].scope, n), text |-> v.rules[r].text]
    BY <1>2
  <2>3. CASE v.rules[r].scope = Null
    BY <2>1, <2>2, <2>3 DEF Rescoped, RuleFields
  <2>4. CASE v.rules[r].scope # Null
    <3>1. v.rules[r].scope[2] \in Setups
      BY <2>1, <2>4 DEF SnapshotIds
    <3>2. v.rules[r].scope[2] \in DOMAIN v.setups
      BY <2>4 DEF Scoped
    <3>3. PICK u \in Setups : u = v.rules[r].scope[2]
      BY <3>1
    <3>4. Rescoped(v.rules[r].scope, n) = <<n, u>>
      BY <2>4, <3>3 DEF Rescoped
    <3>5. <<n, u>> \in SnapshotIds /\ <<n, u>>[1] = n /\ <<n, u>>[2] = u
      BY SnapshotOK
    <3> QED
      BY <2>1, <2>2, <3>2, <3>3, <3>4, <3>5 DEF RuleFields
  <2> QED
    BY <2>3, <2>4
<1>3. rules \in Partial(Rules, RuleFields) /\ DOMAIN rules = DOMAIN v.rules
  BY <1>1, <1>2, PartialIntro
<1> HIDE DEF rules
<1>4. w \in Version /\ w.locked = FALSE /\ w.rules = rules /\ w.setups = v.setups
  BY <1>3 DEF Version, RuleFields
<1>5. Scoped(w, n)
  BY <1>2, <1>3, <1>4 DEF Scoped
<1>6. CopyOf(v, n) = w
  BY DEF CopyOf, rules
<1> QED
  BY <1>4, <1>5, <1>6

-----------------------------------------------------------------------------
(* The versions of a strategy: every one but the last is locked. *)

HistoryOK(s) ==
  /\ strategy[s] = Null => versions[s] = << >>
  /\ strategy[s] # Null => Len(versions[s]) = strategy[s].current
  /\ versions[s] \in Seq(Version)
  /\ \A n \in 1..Len(versions[s]) : Scoped(versions[s][n], n)
  /\ \A n \in 1..Len(versions[s]) - 1 : versions[s][n].locked

HistoriesOK ==
  /\ strategy \in [StrategyIds -> StrategyRow \cup {Null}]
  /\ versions = [o \in StrategyIds |-> versions[o]]
  /\ \A s \in StrategyIds : HistoryOK(s)

(* The call changes the versions of no other strategy. *)
Only(s) ==
  /\ versions' = [o \in StrategyIds |-> versions'[o]]
  /\ \A o \in StrategyIds \ {s} : versions'[o] = versions[o] /\ strategy'[o] = strategy[o]

(* No call takes a version away, or changes a locked one. *)
LockedKept ==
  \A s \in StrategyIds :
    /\ Len(versions[s]) <= Len(versions'[s])
    /\ \A n \in 1..Len(versions[s]) : versions[s][n].locked => versions'[s][n] = versions[s][n]

(* A history without a draft. *)
LastLocked(h) == h = << >> \/ h[Len(h)].locked

LEMMA LengthsOK ==
  ASSUME HistoriesOK
  PROVE  \A s \in StrategyIds : Len(versions[s]) \in Nat
<1> TAKE s \in StrategyIds
<1>1. versions[s] \in Seq(Version)
  BY DEF HistoriesOK, HistoryOK
<1> QED
  BY <1>1, LenProperties

LEMMA CurrentOK ==
  ASSUME HistoriesOK, NEW s \in StrategyIds, Exists(s)
  PROVE  /\ strategy[s] \in StrategyRow
         /\ strategy[s].current \in 1..MaxVersions /\ strategy[s].current \in Nat
         /\ strategy[s].current \in 1..Len(versions[s])
         /\ Len(versions[s]) = strategy[s].current
         /\ versions[s] \in Seq(Version)
         /\ Current(s) = versions[s][Len(versions[s])]
         /\ Current(s) \in Version
         /\ Scoped(Current(s), strategy[s].current)
<1>1. strategy[s] \in StrategyRow /\ HistoryOK(s)
  BY DEF HistoriesOK, Exists
<1>2. strategy[s].current \in 1..MaxVersions /\ strategy[s].current \in Nat
  BY <1>1, StrategiesAssumption DEF StrategyRow
<1>3. Len(versions[s]) = strategy[s].current /\ versions[s] \in Seq(Version)
  BY <1>1 DEF HistoryOK, Exists
<1>4. strategy[s].current \in 1..Len(versions[s])
  BY <1>2, <1>3
<1>5. Current(s) = versions[s][Len(versions[s])] /\ Current(s) \in Version
  BY <1>3, <1>4, ElementOfSeq DEF Current
<1> QED
  BY <1>1, <1>2, <1>3, <1>4, <1>5 DEF HistoryOK

LEMMA HistoryBound ==
  ASSUME HistoriesOK, NEW s \in StrategyIds, NEW n \in 1..Len(versions[s])
  PROVE  n \in 1..MaxVersions
<1>1. Exists(s)
  <2>1. ASSUME strategy[s] = Null PROVE FALSE
    <3>1. versions[s] = << >>
      BY <2>1 DEF HistoriesOK, HistoryOK
    <3> QED
      BY <3>1, EmptySeq
  <2> QED
    BY <2>1 DEF Exists
<1> QED
  BY <1>1, CurrentOK, StrategiesAssumption

(* The published versions of a strategy. *)
LEMMA PublishedIs ==
  ASSUME NEW h \in Seq(Version)
  PROVE  LET p == IF LastLocked(h) THEN h ELSE SubSeq(h, 1, Len(h) - 1) IN
         /\ p \in Seq(Version)
         /\ Len(p) = IF LastLocked(h) THEN Len(h) ELSE Len(h) - 1
         /\ \A n \in 1..Len(p) : p[n] = h[n]
<1>1. CASE LastLocked(h)
  BY <1>1
<1>2. CASE ~LastLocked(h)
  <2>1. Len(h) \in Nat /\ Len(h) > 0
    <3>1. h # << >> /\ Len(h) \in Nat
      BY <1>2 DEF LastLocked
    <3>2. Len(h) # 0
      BY <3>1, EmptySeq
    <3> QED
      BY <3>1, <3>2
  <2>2. \A i \in 1..Len(h) - 1 : h[i] \in Version
    <3>1. \A i \in 1..Len(h) : h[i] \in Version
      BY ElementOfSeq
    <3> QED
      BY <2>1, <3>1
  <2>3. PICK k \in Nat : k = Len(h) - 1
    BY <2>1
  <2>4. \A i \in 1..k : h[i] \in Version
    BY <2>2, <2>3
  <2>5. /\ SubSeq(h, 1, k) \in Seq(Version)
        /\ Len(SubSeq(h, 1, k)) = IF 1 <= k THEN k - 1 + 1 ELSE 0
        /\ \A i \in 1..k - 1 + 1 : SubSeq(h, 1, k)[i] = h[1 + i - 1]
    BY <2>4, SubSeqProperties
  <2>6. Len(SubSeq(h, 1, k)) = k
    BY <2>5
  <2>7. \A i \in 1..k : i \in 1..k - 1 + 1 /\ 1 + i - 1 = i
    OBVIOUS
  <2>8. \A i \in 1..k : SubSeq(h, 1, k)[i] = h[i]
    BY <2>5, <2>7
  <2> QED
    BY <1>2, <2>3, <2>5, <2>6, <2>8
<1> QED
  BY <1>1, <1>2

(* The published versions of s are a sequence that published' repeats. *)
PublishedGrows(s, k) ==
  /\ Len(Published(s)') = Len(Published(s)) + k
  /\ \A n \in 1..Len(Published(s)) : Published(s)'[n] = Published(s)[n]

LEMMA PublishedShape ==
  ASSUME NEW s, versions[s] \in Seq(Version)
  PROVE  /\ Published(s) \in Seq(Version)
         /\ Len(Published(s)) = IF LastLocked(versions[s]) THEN Len(versions[s]) ELSE Len(versions[s]) - 1
         /\ \A n \in 1..Len(Published(s)) : Published(s)[n] = versions[s][n]
BY PublishedIs DEF Published, LastLocked

LEMMA PublishedShapeNext ==
  ASSUME NEW s, versions'[s] \in Seq(Version)
  PROVE  /\ Published(s)' \in Seq(Version)
         /\ Len(Published(s)') = IF LastLocked(versions'[s]) THEN Len(versions'[s])
                                 ELSE Len(versions'[s]) - 1
         /\ \A n \in 1..Len(Published(s)') : Published(s)'[n] = versions'[s][n]
BY PublishedIs DEF Published, LastLocked

LEMMA PublishedSame ==
  ASSUME NEW s, versions[s] \in Seq(Version), versions'[s] \in Seq(Version), PublishedGrows(s, 0)
  PROVE  Published(s)' = Published(s)
BY PublishedShape, PublishedShapeNext, SeqEqual DEF PublishedGrows

(* A call that changes one strategy keeps what it must of the others. *)
LEMMA HistoryStep ==
  ASSUME HistoriesOK, NEW s \in StrategyIds, Only(s),
         strategy' \in [StrategyIds -> StrategyRow \cup {Null}],
         HistoryOK(s)', Len(versions[s]) <= Len(versions'[s]),
         \A i \in 1..Len(versions[s]) : versions[s][i].locked => versions'[s][i] = versions[s][i]
  PROVE  HistoriesOK' /\ LockedKept /\ \A o \in StrategyIds \ {s} : Published(o)' = Published(o)
<1>1. \A o \in StrategyIds \ {s} : HistoryOK(o)'
  BY DEF HistoriesOK, HistoryOK, Only
<1>2. HistoriesOK'
  BY <1>1 DEF HistoriesOK, Only
<1>3. LockedKept
  <2> SUFFICES ASSUME NEW o \in StrategyIds
               PROVE  /\ Len(versions[o]) <= Len(versions'[o])
                      /\ \A i \in 1..Len(versions[o]) :
                           versions[o][i].locked => versions'[o][i] = versions[o][i]
    BY DEF LockedKept
  <2>1. CASE o = s
    BY <2>1
  <2>2. CASE o # s
    <3>1. versions'[o] = versions[o] /\ Len(versions[o]) \in Nat
      BY <2>2 DEF Only, HistoriesOK, HistoryOK
    <3> QED
      BY <3>1
  <2> QED
    BY <2>1, <2>2
<1>4. \A o \in StrategyIds \ {s} : Published(o)' = Published(o)
  BY DEF Only, Published
<1> QED
  BY <1>2, <1>3, <1>4

(* The versions of a strategy are written or copied to a draft. *)
LEMMA WriteEffect ==
  ASSUME HistoriesOK, NEW s \in StrategyIds, Open(s), NEW w, Edit(Current(s), strategy[s].current, w),
         NEW noted, Write(s, w, noted)
  PROVE  HistoriesOK' /\ LockedKept /\ \A o \in StrategyIds : Published(o)' = Published(o)
<1> DEFINE n == strategy[s].current
           h == versions[s]
<1>1. /\ Exists(s) /\ strategy[s] \in StrategyRow
      /\ n \in 1..MaxVersions /\ n \in Nat /\ n \in 1..Len(h) /\ Len(h) = n /\ h \in Seq(Version)
      /\ Current(s) = h[n] /\ Current(s) \in Version /\ Scoped(Current(s), n)
  BY CurrentOK DEF Open
<1>2. w \in Version /\ w.locked = Current(s).locked /\ Scoped(w, n)
  BY DEF Edit
<1>3. /\ strategy \in [StrategyIds -> StrategyRow \cup {Null}]
      /\ versions = [o \in StrategyIds |-> versions[o]]
      /\ HistoryOK(s)
  BY DEF HistoriesOK
<1>4. ASSUME Only(s), versions'[s] \in Seq(Version), PublishedGrows(s, 0),
             strategy' \in [StrategyIds -> StrategyRow \cup {Null}],
             HistoryOK(s)', Len(h) <= Len(versions'[s]),
             \A i \in 1..Len(h) : h[i].locked => versions'[s][i] = h[i]
      PROVE  HistoriesOK' /\ LockedKept /\ \A o \in StrategyIds : Published(o)' = Published(o)
  BY <1>1, <1>4, HistoryStep, PublishedSame
<1>5. CASE Current(s).locked
  <2> DEFINE c == CopyOf(w, n + 1)
  <2>1. /\ n + 1 \in 1..MaxVersions
        /\ versions' = [versions EXCEPT ![s] = Append(h, c)]
        /\ strategy' = [strategy EXCEPT ![s].current = n + 1]
    BY <1>1, <1>5, StrategiesAssumption DEF Write
  <2>2. c \in Version /\ c.locked = FALSE /\ Scoped(c, n + 1)
    BY <1>2, <2>1, CopyOK
  <2> HIDE DEF c
  <2>3. /\ versions'[s] = Append(h, c) /\ versions' = [o \in StrategyIds |-> versions'[o]]
        /\ \A o \in StrategyIds \ {s} : versions'[o] = versions[o] /\ strategy'[o] = strategy[o]
    BY <1>3, <2>1
  <2>4. /\ Append(h, c) \in Seq(Version) /\ Len(Append(h, c)) = n + 1
        /\ Append(h, c)[n + 1] = c
        /\ \A i \in 1..n : Append(h, c)[i] = h[i]
    BY <1>1, <2>2
  <2>5. strategy'[s].current = n + 1 /\ strategy'[s] \in StrategyRow
        /\ strategy' \in [StrategyIds -> StrategyRow \cup {Null}]
    <3>1. [strategy[s] EXCEPT !.current = n + 1] \in StrategyRow
          /\ [strategy[s] EXCEPT !.current = n + 1].current = n + 1
      BY <1>1, <2>1 DEF StrategyRow
    <3>2. strategy' = [strategy EXCEPT ![s] = [strategy[s] EXCEPT !.current = n + 1]]
      BY <2>1
    <3> QED
      BY <1>3, <3>1, <3>2
  <2>6. strategy'[s] # Null
    BY <2>5, NullRowAssumption DEF StrategyRow
  <2>7. \A i \in 1..n : h[i].locked /\ Scoped(h[i], i)
    BY <1>1, <1>3, <1>5 DEF HistoryOK
  <2>8. HistoryOK(s)'
    <3>1. \A i \in 1..Len(versions'[s]) : Scoped(versions'[s][i], i)
      BY <1>1, <2>2, <2>3, <2>4, <2>7
    <3>2. \A i \in 1..Len(versions'[s]) - 1 : versions'[s][i].locked
      BY <1>1, <2>3, <2>4, <2>7
    <3> QED
      BY <2>3, <2>4, <2>5, <2>6, <3>1, <3>2 DEF HistoryOK, Scoped
  <2>9. PublishedGrows(s, 0)
    <3>1. LastLocked(h) /\ ~LastLocked(versions'[s])
      <4>1. versions'[s] # << >>
        BY <1>1, <2>3, <2>4, EmptySeq
      <4> QED
        BY <1>1, <1>5, <2>2, <2>3, <2>4, <4>1 DEF LastLocked
    <3>2. Len(Published(s)) = n /\ \A i \in 1..n : Published(s)[i] = h[i]
      BY <1>1, <3>1, PublishedShape
    <3>3. Len(Published(s)') = n /\ \A i \in 1..n : Published(s)'[i] = Append(h, c)[i]
      <4>1. Len(versions'[s]) - 1 = n /\ versions'[s] \in Seq(Version)
        BY <1>1, <2>3, <2>4
      <4>2. Len(Published(s)') = n
        BY <3>1, <4>1, PublishedShapeNext
      <4> QED
        BY <2>3, <4>1, <4>2, PublishedShapeNext
    <3> QED
      BY <1>1, <2>4, <3>2, <3>3 DEF PublishedGrows
  <2> QED
    BY <1>1, <1>4, <2>3, <2>4, <2>5, <2>8, <2>9 DEF Only
<1>6. CASE ~Current(s).locked
  <2>1. versions' = [versions EXCEPT ![s][n] = w] /\ strategy' = strategy
    BY <1>6 DEF Write
  <2>2. /\ versions'[s] = [h EXCEPT ![n] = w] /\ versions' = [o \in StrategyIds |-> versions'[o]]
        /\ \A o \in StrategyIds \ {s} : versions'[o] = versions[o] /\ strategy'[o] = strategy[o]
    BY <1>3, <2>1
  <2>3. /\ [h EXCEPT ![n] = w] \in Seq(Version) /\ Len([h EXCEPT ![n] = w]) = n
        /\ [h EXCEPT ![n] = w][n] = w
        /\ \A i \in 1..n - 1 : [h EXCEPT ![n] = w][i] = h[i]
    BY <1>1, <1>2
  <2>4. HistoryOK(s)'
    <3>1. \A i \in 1..n : i = n \/ i \in 1..n - 1
      BY <1>1
    <3>2. \A i \in 1..Len(versions'[s]) : Scoped(versions'[s][i], i)
      BY <1>1, <1>2, <1>3, <2>2, <2>3, <3>1 DEF HistoryOK
    <3>3. \A i \in 1..Len(versions'[s]) - 1 : versions'[s][i].locked
      BY <1>1, <1>3, <2>2, <2>3 DEF HistoryOK
    <3>4. strategy'[s] # Null /\ strategy'[s].current = Len(versions'[s])
      BY <1>1, <2>1, <2>2, <2>3 DEF Exists
    <3>5. versions'[s] \in Seq(Version)
      BY <2>2, <2>3
    <3> QED
      BY <3>2, <3>3, <3>4, <3>5 DEF HistoryOK, Scoped
  <2>5. PublishedGrows(s, 0)
    <3>1. ~LastLocked(h) /\ ~LastLocked(versions'[s])
      <4>1. versions'[s] # << >> /\ h # << >>
        BY <1>1, <2>2, <2>3, EmptySeq
      <4> QED
        BY <1>1, <1>2, <1>6, <2>2, <2>3, <4>1 DEF LastLocked
    <3>2. Len(Published(s)) = n - 1 /\ \A i \in 1..n - 1 : Published(s)[i] = h[i]
      BY <1>1, <3>1, PublishedShape
    <3>3. Len(Published(s)') = n - 1 /\ \A i \in 1..n - 1 : Published(s)'[i] = [h EXCEPT ![n] = w][i]
      BY <1>1, <2>2, <2>3, <3>1, PublishedShapeNext, SMTT(30)
    <3> QED
      BY <1>1, <2>3, <3>2, <3>3 DEF PublishedGrows
  <2>6. \A i \in 1..Len(h) : h[i].locked => versions'[s][i] = h[i]
    <3>1. ~h[n].locked /\ \A i \in 1..Len(h) : i = n \/ i \in 1..n - 1
      BY <1>1, <1>6
    <3> QED
      BY <2>2, <2>3, <3>1
  <2> QED
    BY <1>1, <1>3, <1>4, <2>1, <2>2, <2>3, <2>4, <2>5, <2>6 DEF Only
<1> QED
  BY <1>5, <1>6

(* The current version is locked for good, and published if it was not. *)
LEMMA LockEffect ==
  ASSUME HistoriesOK, NEW s \in StrategyIds, Open(s), LockCurrent(s), UNCHANGED strategy
  PROVE  /\ HistoriesOK' /\ LockedKept
         /\ \A o \in StrategyIds \ {s} : Published(o)' = Published(o)
         /\ Published(s)' = Published(s) \/ PublishedGrows(s, 1)
         /\ Len(Published(s)') = strategy[s].current
         /\ Len(versions'[s]) = strategy[s].current
         /\ versions'[s][strategy[s].current] = [Current(s) EXCEPT !.locked = TRUE]
<1> DEFINE n == strategy[s].current
           h == versions[s]
           w == [Current(s) EXCEPT !.locked = TRUE]
<1>1. /\ Exists(s) /\ n \in Nat /\ n \in 1..Len(h) /\ Len(h) = n /\ h \in Seq(Version)
      /\ Current(s) = h[n] /\ Current(s) \in Version /\ Scoped(Current(s), n)
  BY CurrentOK DEF Open
<1>2. w \in Version /\ w.locked = TRUE /\ w.rules = Current(s).rules /\ w.setups = Current(s).setups
  BY <1>1 DEF Version
<1>3. Scoped(w, n)
  BY <1>1, <1>2 DEF Scoped
<1>4. /\ strategy \in [StrategyIds -> StrategyRow \cup {Null}]
      /\ versions = [o \in StrategyIds |-> versions[o]]
      /\ HistoryOK(s)
  BY DEF HistoriesOK
<1>5. versions' = [versions EXCEPT ![s] = [h EXCEPT ![n] = w]]
  BY <1>1, <1>4 DEF LockCurrent
<1>6. h[n].locked => w = h[n]
  <2>1. CASE h[n].locked
    <3>1. h[n].locked = TRUE
      BY <2>1, <1>1, VersionFields
    <3> QED
      BY <1>1, <3>1 DEF Version
  <2> QED
    BY <2>1
<1> HIDE DEF w
<1>7. /\ versions'[s] = [h EXCEPT ![n] = w] /\ versions' = [o \in StrategyIds |-> versions'[o]]
      /\ \A o \in StrategyIds \ {s} : versions'[o] = versions[o] /\ strategy'[o] = strategy[o]
  BY <1>4, <1>5
<1>8. /\ versions'[s] \in Seq(Version) /\ Len(versions'[s]) = n
      /\ versions'[s][n] = w
      /\ \A i \in 1..n - 1 : versions'[s][i] = h[i]
  BY <1>1, <1>2, <1>7
<1>9. \A i \in 1..n : i = n \/ i \in 1..n - 1
  BY <1>1
<1>10. HistoryOK(s)'
  <2>1. \A i \in 1..Len(versions'[s]) : Scoped(versions'[s][i], i)
    BY <1>1, <1>3, <1>4, <1>8, <1>9 DEF HistoryOK
  <2>2. \A i \in 1..Len(versions'[s]) - 1 : versions'[s][i].locked
    BY <1>1, <1>4, <1>8 DEF HistoryOK
  <2>3. strategy'[s] # Null /\ strategy'[s].current = Len(versions'[s])
    BY <1>1, <1>8 DEF Exists
  <2> QED
    BY <1>8, <2>1, <2>2, <2>3 DEF HistoryOK, Scoped
<1>11. \A i \in 1..Len(h) : h[i].locked => versions'[s][i] = h[i]
  BY <1>1, <1>6, <1>8, <1>9
<1>12. HistoriesOK' /\ LockedKept /\ \A o \in StrategyIds \ {s} : Published(o)' = Published(o)
  BY <1>1, <1>4, <1>7, <1>8, <1>10, <1>11, HistoryStep DEF Only
<1>13. h # << >> /\ versions'[s] # << >>
  BY <1>1, <1>8, EmptySeq
<1>14. Len(Published(s)') = n /\ \A i \in 1..n : Published(s)'[i] = versions'[s][i]
  <2>1. LastLocked(versions'[s])
    BY <1>2, <1>8 DEF LastLocked
  <2>2. Len(Published(s)') = n
    BY <1>8, <2>1, PublishedShapeNext
  <2> QED
    BY <1>8, <2>2, PublishedShapeNext
<1>15. Published(s)' = Published(s) \/ PublishedGrows(s, 1)
  <2>1. CASE h[n].locked
    <3>1. LastLocked(h)
      BY <1>1, <2>1 DEF LastLocked
    <3>2. Len(Published(s)) = n
      BY <1>1, <3>1, PublishedShape
    <3>3. \A i \in 1..n : Published(s)[i] = h[i]
      BY <1>1, <3>2, PublishedShape
    <3>4. \A i \in 1..n : versions'[s][i] = h[i]
      BY <1>6, <1>8, <1>9, <2>1
    <3>5. PublishedGrows(s, 0)
      BY <1>1, <1>14, <3>2, <3>3, <3>4 DEF PublishedGrows
    <3> QED
      BY <1>1, <1>8, <3>5, PublishedSame
  <2>2. CASE ~h[n].locked
    <3>1. ~LastLocked(h)
      BY <1>1, <1>13, <2>2 DEF LastLocked
    <3>2. Len(Published(s)) = n - 1
      BY <1>1, <3>1, PublishedShape
    <3>3. \A i \in 1..n - 1 : Published(s)[i] = h[i]
      BY <1>1, <3>2, PublishedShape
    <3>4. \A i \in 1..n - 1 : i \in 1..n
      BY <1>1
    <3> QED
      BY <1>1, <1>8, <1>14, <3>2, <3>3, <3>4 DEF PublishedGrows
  <2> QED
    BY <2>1, <2>2
<1> QED
  BY <1>8, <1>12, <1>14, <1>15 DEF w

LEMMA CreateEffect ==
  ASSUME HistoriesOK, NEW s \in StrategyIds, NEW name \in Names, CreateStrategy(s, name)
  PROVE  HistoriesOK' /\ LockedKept /\ \A o \in StrategyIds : Published(o)' = Published(o)
<1> DEFINE w == FirstVersion(name)
           row == [archived |-> FALSE, current |-> 1]
<1>1. /\ strategy \in [StrategyIds -> StrategyRow \cup {Null}]
      /\ versions = [o \in StrategyIds |-> versions[o]]
      /\ strategy[s] = Null /\ versions[s] = << >>
  BY DEF HistoriesOK, HistoryOK, CreateStrategy
<1>2. w \in Version /\ w.locked = FALSE /\ Scoped(w, 1)
  <2>1. /\ NoRows \in Partial(Setups, SetupFields) /\ NoRows \in Partial(Rules, RuleFields)
        /\ DOMAIN NoRows = {}
    BY NoRowsOK
  <2>2. w.locked = FALSE /\ w.rules = NoRows
    BY DEF FirstVersion
  <2>3. w \in Version
    BY <2>1 DEF FirstVersion, Version, SetupFields, RuleFields
  <2> QED
    BY <2>1, <2>2, <2>3 DEF Scoped
<1>3. row \in StrategyRow /\ row.current = 1 /\ row # Null
  <2>1. 1 \in 1..MaxVersions
    BY StrategiesAssumption
  <2>2. row \in StrategyRow /\ row.current = 1
    BY <2>1 DEF StrategyRow
  <2> QED
    BY <2>2, NullRowAssumption DEF StrategyRow
<1>4. strategy' = [strategy EXCEPT ![s] = row] /\ versions' = [versions EXCEPT ![s] = <<w>>]
  BY DEF CreateStrategy
<1> HIDE DEF w, row
<1>5. /\ versions'[s] = <<w>> /\ versions' = [o \in StrategyIds |-> versions'[o]] /\ strategy'[s] = row
      /\ strategy' \in [StrategyIds -> StrategyRow \cup {Null}]
      /\ \A o \in StrategyIds \ {s} : versions'[o] = versions[o] /\ strategy'[o] = strategy[o]
  BY <1>1, <1>3, <1>4
<1>6. versions'[s] \in Seq(Version) /\ Len(versions'[s]) = 1 /\ versions'[s][1] = w
  BY <1>2, <1>5
<1>7. HistoryOK(s)'
  <2>1. \A i \in 1..Len(versions'[s]) : Scoped(versions'[s][i], i)
    BY <1>2, <1>6
  <2>2. \A i \in 1..Len(versions'[s]) - 1 : versions'[s][i].locked
    BY <1>6
  <2> QED
    BY <1>3, <1>5, <1>6, <2>1, <2>2 DEF HistoryOK, Scoped
<1>8. Len(versions[s]) = 0
  BY <1>1, EmptySeq
<1>9. HistoriesOK' /\ LockedKept /\ \A o \in StrategyIds \ {s} : Published(o)' = Published(o)
  BY <1>1, <1>5, <1>6, <1>7, <1>8, HistoryStep DEF Only
<1>10. Published(s)' = Published(s)
  <2>1. Published(s) = << >>
    BY <1>1 DEF Published
  <2>2. ~LastLocked(versions'[s])
    <3>1. versions'[s] # << >>
      BY <1>6, EmptySeq
    <3> QED
      BY <1>2, <1>6, <3>1 DEF LastLocked
  <2>3. Published(s)' \in Seq(Version) /\ Len(Published(s)') = 0
    BY <1>6, <2>2, PublishedShapeNext
  <2> QED
    BY <2>1, <2>3, EmptySeq
<1> QED
  BY <1>9, <1>10

(* Archiving touches no version. *)
LEMMA ArchiveEffect ==
  ASSUME HistoriesOK, NEW s \in StrategyIds, ArchiveStrategy(s) \/ RestoreStrategy(s)
  PROVE  HistoriesOK' /\ LockedKept /\ \A o \in StrategyIds : Published(o)' = Published(o)
<1>1. PICK archived \in BOOLEAN : strategy' = [strategy EXCEPT ![s].archived = archived]
  BY DEF ArchiveStrategy, RestoreStrategy
<1>2. Exists(s) /\ versions' = versions
  BY DEF ArchiveStrategy, RestoreStrategy
<1>3. /\ strategy \in [StrategyIds -> StrategyRow \cup {Null}]
      /\ versions = [o \in StrategyIds |-> versions[o]]
      /\ HistoryOK(s) /\ strategy[s] \in StrategyRow
  BY <1>2, CurrentOK DEF HistoriesOK
<1> DEFINE row == [strategy[s] EXCEPT !.archived = archived]
<1>4. row \in StrategyRow /\ row.current = strategy[s].current
  BY <1>3 DEF StrategyRow
<1>5. strategy' = [strategy EXCEPT ![s] = row]
  BY <1>1
<1> HIDE DEF row
<1>6. /\ strategy' \in [StrategyIds -> StrategyRow \cup {Null}] /\ strategy'[s] = row
      /\ \A o \in StrategyIds \ {s} : strategy'[o] = strategy[o]
  BY <1>3, <1>4, <1>5
<1>7. row # Null
  BY <1>4, NullRowAssumption DEF StrategyRow
<1>8. HistoryOK(s)'
  BY <1>2, <1>3, <1>4, <1>6, <1>7 DEF HistoryOK, Exists, Scoped
<1>9. Len(versions[s]) \in Nat
  BY <1>3 DEF HistoryOK
<1> QED
  BY <1>2, <1>3, <1>6, <1>8, <1>9, HistoryStep DEF Only, Published

-----------------------------------------------------------------------------
(* The calls that write a strategy. *)

SetupsOK == setup \in [Setups -> [strategy : StrategyIds, archived : BOOLEAN] \cup {Null}]

(* The call writes no trade and leaves every published version alone. *)
EditStep ==
  /\ HistoriesOK' /\ LockedKept /\ SetupsOK'
  /\ \A o \in StrategyIds : Published(o)' = Published(o)
  /\ UNCHANGED <<trade, form>>

LEMMA StrategyCallStep ==
  ASSUME HistoriesOK, SetupsOK, NEW s \in StrategyIds, StrategyCall(s)
  PROVE  EditStep
<1>1. UNCHANGED <<setup, trade, form>>
  BY DEF StrategyCall, ArchiveStrategy, RestoreStrategy, CreateStrategy, UpdateStrategyContent
<1>2. ASSUME NEW name \in Names, NEW noted \in BOOLEAN, UpdateStrategyContent(s, name, noted)
      PROVE  HistoriesOK' /\ LockedKept /\ \A o \in StrategyIds : Published(o)' = Published(o)
  <2>1. Open(s) /\ Write(s, [Current(s) EXCEPT !.name = name], noted)
    BY <1>2 DEF UpdateStrategyContent
  <2>2. Current(s) \in Version /\ Scoped(Current(s), strategy[s].current)
    BY <2>1, CurrentOK DEF Open
  <2>3. Edit(Current(s), strategy[s].current, [Current(s) EXCEPT !.name = name])
    BY <2>2, EditName
  <2> QED
    BY <2>1, <2>3, WriteEffect
<1>3. HistoriesOK' /\ LockedKept /\ \A o \in StrategyIds : Published(o)' = Published(o)
  BY <1>2, CreateEffect, ArchiveEffect DEF StrategyCall
<1> QED
  BY <1>1, <1>3 DEF EditStep, SetupsOK

(* What an edit of a field of a row makes of the version. *)
LEMMA NestedEdits ==
  ASSUME NEW v, NEW x
  PROVE  /\ \A y : [v EXCEPT !.setups[x].name = y] =
                  [v EXCEPT !.setups = [v.setups EXCEPT ![x] = [v.setups[x] EXCEPT !.name = y]]]
         /\ \A y : [v EXCEPT !.setups[x].conditions = y] =
                  [v EXCEPT !.setups = [v.setups EXCEPT ![x] = [v.setups[x] EXCEPT !.conditions = y]]]
         /\ \A y : [v EXCEPT !.rules[x].text = y] =
                  [v EXCEPT !.rules = [v.rules EXCEPT ![x] = [v.rules[x] EXCEPT !.text = y]]]
OBVIOUS

(* A setup of the current version is given other rows. *)
LEMMA SetupEdit ==
  ASSUME HistoriesOK, NEW s \in StrategyIds, Open(s), NEW u \in DOMAIN Current(s).setups,
         NEW row \in SetupFields
  PROVE  Edit(Current(s), strategy[s].current,
            [Current(s) EXCEPT !.setups = [Current(s).setups EXCEPT ![u] = row]])
<1>1. Current(s) \in Version /\ Scoped(Current(s), strategy[s].current)
  BY CurrentOK DEF Open
<1>2. Current(s).setups \in Partial(Setups, SetupFields)
  BY <1>1, VersionFields
<1>3. /\ [Current(s).setups EXCEPT ![u] = row] \in Partial(Setups, SetupFields)
      /\ DOMAIN [Current(s).setups EXCEPT ![u] = row] = DOMAIN Current(s).setups
  BY <1>2, ExceptOK
<1> QED
  BY <1>1, <1>3, EditSetups

LEMMA SetupRow ==
  ASSUME HistoriesOK, NEW s \in StrategyIds, Open(s), NEW u \in DOMAIN Current(s).setups
  PROVE  /\ Current(s).setups[u] \in SetupFields
         /\ Current(s).setups[u].conditions \in Partial(Conditions, Texts)
         /\ \A name \in Names : [Current(s).setups[u] EXCEPT !.name = name] \in SetupFields
         /\ \A rows \in Partial(Conditions, Texts) :
              [Current(s).setups[u] EXCEPT !.conditions = rows] \in SetupFields
<1>1. Current(s).setups \in Partial(Setups, SetupFields)
  BY CurrentOK, VersionFields DEF Open
<1>2. Current(s).setups[u] \in SetupFields
  BY <1>1, PartialElim
<1> QED
  BY <1>2 DEF SetupFields

LEMMA SetupCallStep ==
  ASSUME HistoriesOK, SetupsOK, NEW s \in StrategyIds, NEW u \in Setups, SetupCall(s, u)
  PROVE  EditStep
<1>1. ASSUME ArchiveSetup(u, s) \/ RestoreSetup(u, s) PROVE EditStep
  <2>1. PICK archived \in BOOLEAN : setup' = [setup EXCEPT ![u].archived = archived]
    BY <1>1 DEF ArchiveSetup, RestoreSetup
  <2>2. UNCHANGED <<strategy, versions, trade, form>> /\ setup[u] # Null
    BY <1>1 DEF ArchiveSetup, RestoreSetup, OwnedBy
  <2>3. SetupsOK'
    BY <2>1, <2>2 DEF SetupsOK
  <2>4. HistoriesOK'
    BY <2>2 DEF HistoriesOK, HistoryOK, Scoped
  <2>5. LockedKept
    <3>1. \A o \in StrategyIds : Len(versions[o]) \in Nat
      BY LengthsOK
    <3> QED
      BY <2>2, <3>1 DEF LockedKept
  <2> QED
    BY <2>2, <2>3, <2>4, <2>5 DEF EditStep, Published
<1>2. ASSUME NEW name \in Names, NEW noted \in BOOLEAN, CreateSetup(u, s, name, noted)
      PROVE  EditStep
  <2>1. Open(s) /\ setup' = [setup EXCEPT ![u] = [strategy |-> s, archived |-> FALSE]]
        /\ UNCHANGED <<trade, form>>
    BY <1>2 DEF CreateSetup
  <2>2. SetupsOK'
    BY <2>1 DEF SetupsOK
  <2>3. CASE UNCHANGED <<strategy, versions>>
    <3>1. HistoriesOK'
      BY <2>3 DEF HistoriesOK, HistoryOK, Scoped
    <3>2. \A o \in StrategyIds : Len(versions[o]) \in Nat
      BY LengthsOK
    <3> QED
      BY <2>1, <2>2, <2>3, <3>1, <3>2 DEF EditStep, LockedKept, Published
  <2>4. CASE Write(s, [Current(s) EXCEPT
                         !.setups = With(@, u, [name |-> name, conditions |-> NoRows])], noted)
    <3> DEFINE row == [name |-> name, conditions |-> NoRows]
               rows == With(Current(s).setups, u, row)
    <3>0. Current(s) \in Version /\ Scoped(Current(s), strategy[s].current)
      BY <2>1, CurrentOK DEF Open
    <3>1. Current(s).setups \in Partial(Setups, SetupFields)
      BY <3>0, VersionFields
    <3>2. row \in SetupFields
      BY NoRowsOK DEF SetupFields
    <3> HIDE DEF row
    <3>3. rows \in Partial(Setups, SetupFields) /\ DOMAIN Current(s).setups \subseteq DOMAIN rows
      BY <3>1, <3>2, SetupsWith
    <3> HIDE DEF rows
    <3>4. Edit(Current(s), strategy[s].current, [Current(s) EXCEPT !.setups = rows])
      BY <3>0, <3>3, EditSetups
    <3>5. Write(s, [Current(s) EXCEPT !.setups = rows], noted)
      BY <2>4 DEF rows, row
    <3> QED
      BY <2>1, <2>2, <3>4, <3>5, WriteEffect DEF EditStep
  <2> QED
    BY <1>2, <2>3, <2>4 DEF CreateSetup
<1>3. ASSUME NEW name \in Names, NEW noted \in BOOLEAN, UpdateSetupContent(u, s, name, noted)
      PROVE  EditStep
  <2>1. /\ Open(s) /\ u \in DOMAIN Current(s).setups /\ UNCHANGED <<setup, trade, form>>
        /\ Write(s, [Current(s) EXCEPT !.setups[u].name = name], noted)
    BY <1>3 DEF UpdateSetupContent, Usable
  <2> DEFINE row == [Current(s).setups[u] EXCEPT !.name = name]
  <2>2. row \in SetupFields
    BY <2>1, SetupRow
  <2> HIDE DEF row
  <2>3. Edit(Current(s), strategy[s].current,
            [Current(s) EXCEPT !.setups = [Current(s).setups EXCEPT ![u] = row]])
    BY <2>1, <2>2, SetupEdit
  <2>4. Write(s, [Current(s) EXCEPT !.setups = [Current(s).setups EXCEPT ![u] = row]], noted)
    BY <2>1, NestedEdits DEF row
  <2> QED
    BY <2>1, <2>3, <2>4, WriteEffect DEF EditStep, SetupsOK
<1> QED
  BY <1>1, <1>2, <1>3 DEF SetupCall

LEMMA ConditionCallStep ==
  ASSUME HistoriesOK, SetupsOK, NEW s \in StrategyIds, NEW u \in Setups, NEW k \in Conditions,
         ConditionCall(s, u, k)
  PROVE  EditStep
<1>1. ASSUME Open(s), u \in DOMAIN Current(s).setups, UNCHANGED <<setup, trade, form>>,
             NEW rows \in Partial(Conditions, Texts), NEW noted \in BOOLEAN,
             Write(s, [Current(s) EXCEPT !.setups[u].conditions = rows], noted)
      PROVE  EditStep
  <2> DEFINE row == [Current(s).setups[u] EXCEPT !.conditions = rows]
  <2>1. row \in SetupFields
    BY <1>1, SetupRow
  <2> HIDE DEF row
  <2>2. Edit(Current(s), strategy[s].current,
            [Current(s) EXCEPT !.setups = [Current(s).setups EXCEPT ![u] = row]])
    BY <1>1, <2>1, SetupEdit
  <2>3. Write(s, [Current(s) EXCEPT !.setups = [Current(s).setups EXCEPT ![u] = row]], noted)
    BY <1>1, NestedEdits DEF row
  <2> QED
    BY <1>1, <2>2, <2>3, WriteEffect DEF EditStep, SetupsOK
<1>2. PICK noted \in BOOLEAN :
        \/ RemoveSetupCondition(u, s, k, noted)
        \/ \E text \in Texts :
             \/ CreateSetupCondition(u, s, k, text, noted)
             \/ UpdateSetupCondition(u, s, k, text, noted)
  BY DEF ConditionCall
<1>3. /\ Open(s) /\ u \in DOMAIN Current(s).setups /\ UNCHANGED <<setup, trade, form>>
  BY <1>2 DEF RemoveSetupCondition, CreateSetupCondition, UpdateSetupCondition, Usable
<1> DEFINE old == Current(s).setups[u].conditions
<1>4. old \in Partial(Conditions, Texts)
  BY <1>3, SetupRow
<1>5. CASE RemoveSetupCondition(u, s, k, noted)
  <2>1. Without(old, k) \in Partial(Conditions, Texts)
    BY <1>4, WithoutOK
  <2>2. Write(s, [Current(s) EXCEPT !.setups[u].conditions = Without(old, k)], noted)
    BY <1>5 DEF RemoveSetupCondition
  <2> QED
    BY <1>1, <1>3, <2>1, <2>2
<1>6. ASSUME NEW text \in Texts, CreateSetupCondition(u, s, k, text, noted) PROVE EditStep
  <2>1. With(old, k, text) \in Partial(Conditions, Texts)
    BY <1>4, WithOK
  <2>2. Write(s, [Current(s) EXCEPT !.setups[u].conditions = With(old, k, text)], noted)
    BY <1>6 DEF CreateSetupCondition
  <2> QED
    BY <1>1, <1>3, <2>1, <2>2
<1>7. ASSUME NEW text \in Texts, UpdateSetupCondition(u, s, k, text, noted) PROVE EditStep
  <2>1. [old EXCEPT ![k] = text] \in Partial(Conditions, Texts)
    BY <1>4, <1>7, ExceptOK DEF UpdateSetupCondition
  <2>2. [Current(s) EXCEPT !.setups[u].conditions[k] = text] =
          [Current(s) EXCEPT !.setups[u].conditions = [old EXCEPT ![k] = text]]
    OBVIOUS
  <2>3. Write(s, [Current(s) EXCEPT !.setups[u].conditions = [old EXCEPT ![k] = text]], noted)
    BY <1>7, <2>2 DEF UpdateSetupCondition
  <2> QED
    BY <1>1, <1>3, <2>1, <2>3
<1> QED
  BY <1>2, <1>5, <1>6, <1>7

LEMMA RuleCallStep ==
  ASSUME HistoriesOK, SetupsOK, NEW s \in StrategyIds, NEW r \in Rules, RuleCall(s, r)
  PROVE  EditStep
<1> DEFINE n == strategy[s].current
           old == Current(s).rules
<1>1. PICK noted \in BOOLEAN :
        \/ RemoveStrategyRule(s, r, noted)
        \/ \E text \in Texts : UpdateStrategyRule(s, r, text, noted)
        \/ \E text \in Texts, u \in Setups \cup {Null} : CreateStrategyRule(s, r, u, text, noted)
  BY DEF RuleCall
<1>2. Open(s) /\ UNCHANGED <<setup, trade, form>>
  BY <1>1 DEF RemoveStrategyRule, UpdateStrategyRule, CreateStrategyRule
<1>3. /\ Current(s) \in Version /\ Scoped(Current(s), n) /\ n \in 1..MaxVersions
  BY <1>2, CurrentOK DEF Open
<1>8. old \in Partial(Rules, RuleFields)
  BY <1>3, VersionFields
<1>4. ASSUME NEW rows \in Partial(Rules, RuleFields),
             \A x \in DOMAIN rows : rows[x].scope # Null =>
               rows[x].scope[1] = n /\ rows[x].scope[2] \in DOMAIN Current(s).setups,
             Write(s, [Current(s) EXCEPT !.rules = rows], noted)
      PROVE  EditStep
  <2>1. Edit(Current(s), n, [Current(s) EXCEPT !.rules = rows])
    BY <1>3, <1>4, EditRules
  <2> QED
    BY <1>2, <1>4, <2>1, WriteEffect DEF EditStep, SetupsOK
<1>5. CASE RemoveStrategyRule(s, r, noted)
  <2>1. /\ Without(old, r) \in Partial(Rules, RuleFields)
        /\ DOMAIN Without(old, r) = DOMAIN old \ {r}
        /\ \A x \in DOMAIN old \ {r} : Without(old, r)[x] = old[x]
    BY <1>8, RulesWithout
  <2>2. \A x \in DOMAIN Without(old, r) : Without(old, r)[x].scope # Null =>
          Without(old, r)[x].scope[1] = n /\ Without(old, r)[x].scope[2] \in DOMAIN Current(s).setups
    BY <1>3, <2>1 DEF Scoped
  <2>3. Write(s, [Current(s) EXCEPT !.rules = Without(old, r)], noted)
    BY <1>5 DEF RemoveStrategyRule
  <2> QED
    BY <1>4, <2>1, <2>2, <2>3
<1>6. ASSUME NEW text \in Texts, UpdateStrategyRule(s, r, text, noted) PROVE EditStep
  <2> DEFINE row == [old[r] EXCEPT !.text = text]
             rows == [old EXCEPT ![r] = row]
  <2>1. r \in DOMAIN old /\ Write(s, [Current(s) EXCEPT !.rules = rows], noted)
    BY <1>6, NestedEdits DEF UpdateStrategyRule
  <2>2. old[r] \in RuleFields
    BY <1>8, <2>1, PartialElim
  <2>3. row \in RuleFields /\ row.scope = old[r].scope
    BY <2>2 DEF RuleFields
  <2> HIDE DEF row
  <2>4. /\ rows \in Partial(Rules, RuleFields) /\ DOMAIN rows = DOMAIN old /\ rows[r] = row
        /\ \A x \in DOMAIN old \ {r} : rows[x] = old[x]
    BY <1>8, <2>1, <2>3, ExceptOK
  <2> HIDE DEF rows
  <2>5. \A x \in DOMAIN rows : rows[x].scope = old[x].scope
    BY <2>3, <2>4
  <2>6. \A x \in DOMAIN rows : rows[x].scope # Null =>
          rows[x].scope[1] = n /\ rows[x].scope[2] \in DOMAIN Current(s).setups
    BY <1>3, <2>4, <2>5 DEF Scoped
  <2> QED
    BY <1>4, <2>1, <2>4, <2>6
<1>7. ASSUME NEW text \in Texts, NEW u \in Setups \cup {Null}, CreateStrategyRule(s, r, u, text, noted)
      PROVE  EditStep
  <2> DEFINE scope == IF u = Null THEN Null ELSE Snapshot(s, u)
             row == [scope |-> scope, text |-> text]
             rows == With(old, r, row)
  <2>1. /\ u # Null => u \in DOMAIN Current(s).setups
        /\ Write(s, [Current(s) EXCEPT !.rules = rows], noted)
    BY <1>7 DEF CreateStrategyRule, Usable
  <2>2. /\ row \in RuleFields
        /\ row.scope # Null => row.scope[1] = n /\ row.scope[2] \in DOMAIN Current(s).setups
    <3>1. CASE u = Null
      BY <3>1 DEF RuleFields
    <3>2. CASE u # Null
      <4>1. u \in Setups /\ scope = <<n, u>>
        BY <3>2 DEF Snapshot
      <4>2. <<n, u>> \in SnapshotIds /\ <<n, u>>[1] = n /\ <<n, u>>[2] = u
        BY <1>3, <4>1, SnapshotOK
      <4>3. row = [scope |-> <<n, u>>, text |-> text]
        BY <4>1
      <4> HIDE DEF scope, row
      <4>4. row.scope = <<n, u>> /\ row \in RuleFields
        BY <4>2, <4>3 DEF RuleFields
      <4> QED
        BY <2>1, <3>2, <4>2, <4>4
    <3> QED
      BY <3>1, <3>2
  <2> HIDE DEF row
  <2>3. /\ rows \in Partial(Rules, RuleFields) /\ DOMAIN rows = DOMAIN old \cup {r} /\ rows[r] = row
        /\ \A x \in DOMAIN old \ {r} : rows[x] = old[x]
    <3>1. row \in RuleFields
      BY <2>2
    <3> QED
      BY <1>8, <3>1, RulesWith, ZenonT(40)
  <2> HIDE DEF rows
  <2>4. \A x \in DOMAIN rows : rows[x].scope # Null =>
          rows[x].scope[1] = n /\ rows[x].scope[2] \in DOMAIN Current(s).setups
    BY <1>3, <2>2, <2>3 DEF Scoped
  <2> QED
    BY <1>4, <2>1, <2>3, <2>4
<1> QED
  BY <1>1, <1>5, <1>6, <1>7

-----------------------------------------------------------------------------
(* What the trades and the page recorded stays true of every later version. *)

RuleCheck == [text : Texts, status : CheckStatuses]
Answer    == [label : Texts, status : Answers]

MatchesVersion(row, v) ==
  /\ v.locked
  /\ row.setup # Null => row.setup \in DOMAIN v.setups /\ row.snapshot = <<row.version, row.setup>>
  /\ DOMAIN row.checks \in {{}, ApplicableRules(v, row.snapshot)}
  /\ \A r \in DOMAIN row.checks : row.checks[r].text = v.rules[r].text
  /\ \A k \in DOMAIN row.answers : row.answers[k].label = v.setups[row.setup].conditions[k]

RowOK(row, histories) ==
  /\ row.strategy = Null => row.setup = Null
  /\ row.setup = Null => DOMAIN row.checks = {} /\ DOMAIN row.answers = {}
  /\ row.strategy # Null =>
       /\ row.version \in 1..Len(histories[row.strategy])
       /\ MatchesVersion(row, histories[row.strategy][row.version])

RecordsOK ==
  /\ trade \in [Trades -> Trade \cup {Null}]
  /\ \A t \in Trades : trade[t] # Null => RowOK(trade[t], versions)

(* A page that rendered a locked version. *)
FormOK ==
  form # Null =>
    /\ form.strategy \in StrategyIds
    /\ form.locked =>
         /\ form.token[1] \in 1..Len(versions[form.strategy])
         /\ LET v == versions[form.strategy][form.token[1]] IN
            v.locked /\ form.labels = v.setups[form.setup].conditions

LEMMA LengthsOKNext ==
  ASSUME HistoriesOK'
  PROVE  \A s \in StrategyIds : Len(versions'[s]) \in Nat
<1>1. \A s \in StrategyIds : versions'[s] \in Seq(Version)
  BY DEF HistoriesOK, HistoryOK
<1> QED
  BY <1>1

LEMMA VersionKept ==
  ASSUME HistoriesOK, HistoriesOK', LockedKept,
         NEW s \in StrategyIds, NEW n \in 1..Len(versions[s]), versions[s][n].locked
  PROVE  n \in 1..Len(versions'[s]) /\ versions'[s][n] = versions[s][n]
<1>1. Len(versions[s]) \in Nat /\ Len(versions'[s]) \in Nat /\ Len(versions[s]) <= Len(versions'[s])
  BY LengthsOK, LengthsOKNext DEF LockedKept
<1> QED
  BY <1>1 DEF LockedKept

LEMMA RowKept ==
  ASSUME HistoriesOK, HistoriesOK', LockedKept, NEW row \in Trade, RowOK(row, versions)
  PROVE  RowOK(row, versions')
<1>1. CASE row.strategy = Null
  BY <1>1 DEF RowOK
<1>2. CASE row.strategy # Null
  <2>1. row.strategy \in StrategyIds
    BY <1>2 DEF Trade
  <2>2. row.version \in 1..Len(versions[row.strategy]) /\ versions[row.strategy][row.version].locked
    BY <1>2 DEF RowOK, MatchesVersion
  <2>3. /\ row.version \in 1..Len(versions'[row.strategy])
        /\ versions'[row.strategy][row.version] = versions[row.strategy][row.version]
    BY <2>1, <2>2, VersionKept
  <2> QED
    BY <2>3 DEF RowOK
<1> QED
  BY <1>1, <1>2

LEMMA RecordsKept ==
  ASSUME HistoriesOK, HistoriesOK', LockedKept, RecordsOK,
         NEW t \in Trades, NEW row \in Trade \cup {Null}, row # Null => RowOK(row, versions'),
         trade' = [trade EXCEPT ![t] = row]
  PROVE  RecordsOK'
<1>1. trade' \in [Trades -> Trade \cup {Null}]
  BY DEF RecordsOK
<1>2. ASSUME NEW o \in Trades, trade'[o] # Null PROVE RowOK(trade'[o], versions')
  <2>1. CASE o = t
    BY <1>2, <2>1 DEF RecordsOK
  <2>2. CASE o # t
    <3>1. trade'[o] = trade[o]
      BY <2>2 DEF RecordsOK
    <3>2. trade[o] \in Trade /\ RowOK(trade[o], versions)
      BY <1>2, <3>1 DEF RecordsOK
    <3> QED
      BY <3>1, <3>2, RowKept
  <2> QED
    BY <2>1, <2>2
<1> QED
  BY <1>1, <1>2 DEF RecordsOK

LEMMA FormKept ==
  ASSUME HistoriesOK, HistoriesOK', LockedKept, FormOK, form' = form
  PROVE  FormOK'
<1> SUFFICES ASSUME form # Null PROVE FormOK'
  BY DEF FormOK
<1>1. form.strategy \in StrategyIds
  BY DEF FormOK
<1>2. CASE form.locked
  <2>1. form.token[1] \in 1..Len(versions[form.strategy]) /\ versions[form.strategy][form.token[1]].locked
    BY <1>2 DEF FormOK
  <2>2. /\ form.token[1] \in 1..Len(versions'[form.strategy])
        /\ versions'[form.strategy][form.token[1]] = versions[form.strategy][form.token[1]]
    BY <1>1, <2>1, VersionKept
  <2> QED
    BY <1>1, <1>2, <2>2 DEF FormOK
<1>3. CASE ~form.locked
  BY <1>1, <1>3 DEF FormOK
<1> QED
  BY <1>2, <1>3

-----------------------------------------------------------------------------
(* The inductive invariant, and what every step of Next does. *)

Inv == HistoriesOK /\ SetupsOK /\ RecordsOK /\ FormOK

PageFits ==
  \A t \in Trades :
    trade[t] = Null /\ trade'[t] # Null /\ form # Null /\ form.locked =>
      \A k \in DOMAIN trade'[t].answers :
        k \in DOMAIN form.labels /\ trade'[t].answers[k].label = form.labels[k]

AllPublished == [s \in StrategyIds |-> Published(s)]
AllPinned    == [t \in Trades |-> Pinned(t)]

Step ==
  /\ Inv'
  /\ History!Next \/ UNCHANGED <<AllPublished, AllPinned>>
  /\ PageFits

LEMMA EditKeeps ==
  ASSUME Inv, EditStep
  PROVE  Step
<1>1. RecordsOK'
  <2>1. \A t \in Trades : trade[t] # Null => RowOK(trade[t], versions')
    BY RowKept DEF Inv, EditStep, RecordsOK
  <2> QED
    BY <2>1 DEF EditStep, Inv, RecordsOK
<1>2. FormOK'
  BY FormKept DEF Inv, EditStep
<1>3. AllPublished' = AllPublished /\ AllPinned' = AllPinned
  BY DEF EditStep, AllPublished, AllPinned, Pinned
<1>4. PageFits
  BY DEF EditStep, PageFits
<1> QED
  BY <1>1, <1>2, <1>3, <1>4 DEF Step, Inv, EditStep

(* A call that writes one trade and no version, and classifies nothing. *)
LEMMA QuietTrade ==
  ASSUME Inv, UNCHANGED <<strategy, versions, setup, form>>,
         NEW t \in Trades, NEW row \in Trade, RowOK(row, versions),
         trade' = [trade EXCEPT ![t] = row],
         trade[t] = Null => DOMAIN row.answers = {},
         \/ row.strategy = Null /\ (trade[t] = Null \/ trade[t].strategy = Null)
         \/ trade[t] # Null /\ row.strategy = trade[t].strategy /\ row.version = trade[t].version
  PROVE  Step
<1>1. HistoriesOK' /\ SetupsOK' /\ FormOK'
  BY DEF Inv, HistoriesOK, HistoryOK, Scoped, SetupsOK, FormOK
<1>2. LockedKept
  BY LengthsOK DEF LockedKept, Inv
<1>3. RecordsOK'
  BY <1>1, <1>2, RecordsKept DEF Inv
<1>4. trade'[t] = row /\ row # Null /\ \A o \in Trades \ {t} : trade'[o] = trade[o]
  BY NullRowAssumption DEF Inv, RecordsOK
<1>5. \A o \in Trades : Pinned(o)' = Pinned(o)
  BY <1>4 DEF Pinned
<1>6. AllPublished' = AllPublished /\ AllPinned' = AllPinned
  BY <1>5 DEF AllPublished, AllPinned, Published
<1>7. PageFits
  BY <1>4 DEF PageFits
<1> QED
  BY <1>1, <1>3, <1>6, <1>7 DEF Step, Inv

(* A strategy publishes its current version, which may tie a trade to it. *)
LEMMA PublishStep ==
  ASSUME Inv, NEW s \in StrategyIds, Open(s), LockCurrent(s), UNCHANGED strategy,
         \/ AllPinned' = AllPinned
         \/ \E t \in Trades :
              /\ Pinned(t) = Null /\ Pinned(t)' = <<s, strategy[s].current>>
              /\ \A o \in Trades \ {t} : Pinned(o)' = Pinned(o)
  PROVE  History!Next
<1> DEFINE n == strategy[s].current
<1>1. /\ \A o \in StrategyIds \ {s} : Published(o)' = Published(o)
      /\ Published(s)' = Published(s) \/ PublishedGrows(s, 1)
      /\ Len(Published(s)') = n
  BY LockEffect DEF Inv
<1>2. n \in Nat /\ n > 0
  BY CurrentOK DEF Inv, Open
<1> HIDE DEF n
<1>3. /\ AllPublished[s] = Published(s) /\ AllPublished'[s] = Published(s)'
      /\ \A o \in StrategyIds \ {s} : AllPublished'[o] = AllPublished[o]
  BY <1>1 DEF AllPublished
<1>4. AllPublished' = AllPublished \/ History!Publish(s)
  <2>1. CASE Published(s)' = Published(s)
    BY <1>1, <2>1 DEF AllPublished
  <2>2. CASE PublishedGrows(s, 1)
    BY <1>3, <2>2 DEF History!Publish, AllPublished, PublishedGrows
  <2> QED
    BY <1>1, <2>1, <2>2
<1>5. AllPinned' = AllPinned \/ \E t \in Trades : History!PinNewest(t, s)
  <2>1. ASSUME NEW t \in Trades, Pinned(t) = Null, Pinned(t)' = <<s, n>>,
               \A o \in Trades \ {t} : Pinned(o)' = Pinned(o)
        PROVE  History!PinNewest(t, s)
    <3>1. AllPinned[t] = Null /\ AllPublished'[s] = Published(s)'
      BY <1>3, <2>1 DEF AllPinned
    <3>2. AllPinned' = [AllPinned EXCEPT ![t] = <<s, Len(AllPublished'[s])>>]
      BY <1>1, <1>3, <2>1 DEF AllPinned
    <3> QED
      BY <1>1, <1>2, <3>1, <3>2 DEF History!PinNewest, AllPinned, AllPublished
  <2> QED
    BY <2>1 DEF n
<1> QED
  BY <1>4, <1>5 DEF History!Next, History!Keep, AllPublished, AllPinned

-----------------------------------------------------------------------------
(* The calls of a trade. *)

LEMMA UnclassifiedOK ==
  /\ Unclassified \in Trade
  /\ \A histories : RowOK(Unclassified, histories)
  /\ Unclassified.strategy = Null /\ Unclassified.setup = Null
  /\ DOMAIN Unclassified.checks = {} /\ DOMAIN Unclassified.answers = {}
<1>1. /\ NoRows \in Partial(Rules, RuleCheck) /\ NoRows \in Partial(Conditions, Answer)
      /\ DOMAIN NoRows = {}
  BY NoRowsOK
<1>2. Unclassified \in Trade
  BY <1>1 DEF Unclassified, Trade, RuleCheck, Answer
<1> QED
  BY <1>1, <1>2 DEF Unclassified, RowOK

LEMMA TradeFields ==
  ASSUME NEW row \in Trade
  PROVE  /\ row.strategy \in StrategyIds \cup {Null} /\ row.version \in 1..MaxVersions \cup {Null}
         /\ row.setup \in Setups \cup {Null}
         /\ row.checks \in Partial(Rules, RuleCheck) /\ row.answers \in Partial(Conditions, Answer)
BY DEF Trade, RuleCheck, Answer

LEMMA SetupChosen ==
  ASSUME NEW row \in Trade, row.version \in 1..MaxVersions, NEW u \in Setups
  PROVE  /\ UnderSetup(row, u) \in Trade
         /\ UnderSetup(row, u).setup = u /\ UnderSetup(row, u).snapshot = <<row.version, u>>
         /\ UnderSetup(row, u).strategy = row.strategy /\ UnderSetup(row, u).version = row.version
         /\ UnderSetup(row, u).checks = row.checks /\ UnderSetup(row, u).answers = row.answers
<1>1. <<row.version, u>> \in SnapshotIds
  BY SnapshotOK
<1> QED
  BY <1>1 DEF UnderSetup, Trade

LEMMA StrategyChosen ==
  ASSUME Inv, NEW s \in StrategyIds, Open(s), NEW row \in Trade
  PROVE  LET new == UnderStrategy(row, s) IN
         /\ new \in Trade /\ new.strategy = s /\ new.version = strategy[s].current
         /\ new.setup = row.setup /\ new.checks = row.checks /\ new.answers = row.answers
<1>1. strategy[s].current \in 1..MaxVersions
  BY CurrentOK DEF Inv, Open
<1> QED
  BY <1>1 DEF UnderStrategy, Trade

(* A row that records the version its call has just locked. *)
LEMMA LockedRecord ==
  ASSUME Inv, NEW s \in StrategyIds, Open(s), LockCurrent(s), UNCHANGED <<strategy, setup>>,
         form' = form \/ form' = Null,
         NEW t \in Trades, trade[t] = Null \/ trade[t].strategy = Null,
         NEW row \in Trade, row.strategy = s, row.version = strategy[s].current,
         row.setup = Null => DOMAIN row.checks = {} /\ DOMAIN row.answers = {},
         row.setup # Null =>
           row.setup \in DOMAIN Current(s).setups /\ row.snapshot = <<row.version, row.setup>>,
         DOMAIN row.checks \in {{}, ApplicableRules(Current(s), row.snapshot)},
         \A r \in DOMAIN row.checks : row.checks[r].text = Current(s).rules[r].text,
         \A k \in DOMAIN row.answers :
           row.answers[k].label = Current(s).setups[row.setup].conditions[k],
         trade' = [trade EXCEPT ![t] = row],
         trade[t] = Null /\ form # Null /\ form.locked =>
           \A k \in DOMAIN row.answers : k \in DOMAIN form.labels /\ row.answers[k].label = form.labels[k]
  PROVE  Step
<1> DEFINE n == strategy[s].current
           w == [Current(s) EXCEPT !.locked = TRUE]
<1>1. /\ HistoriesOK' /\ LockedKept /\ Len(versions'[s]) = n /\ versions'[s][n] = w
  BY LockEffect DEF Inv
<1>2. n \in 1..n /\ Current(s) \in Version
  BY CurrentOK DEF Inv, Open
<1>3. w.locked /\ w.setups = Current(s).setups /\ w.rules = Current(s).rules
  BY <1>2 DEF Version
<1> HIDE DEF w, n
<1>4. ApplicableRules(w, row.snapshot) = ApplicableRules(Current(s), row.snapshot)
  BY <1>3 DEF ApplicableRules
<1>5. MatchesVersion(row, w)
  BY <1>3, <1>4 DEF MatchesVersion
<1>6. s # Null
  BY StrategiesAssumption
<1>7. RowOK(row, versions')
  BY <1>1, <1>2, <1>5, <1>6 DEF RowOK, n
<1>8. RecordsOK'
  BY <1>1, <1>7, RecordsKept DEF Inv
<1>9. FormOK'
  <2>1. CASE form' = form
    BY <1>1, <2>1, FormKept DEF Inv
  <2>2. CASE form' = Null
    BY <2>2 DEF FormOK
  <2> QED
    BY <2>1, <2>2
<1>10. trade'[t] = row /\ row # Null /\ \A o \in Trades \ {t} : trade'[o] = trade[o]
  BY NullRowAssumption DEF Inv, RecordsOK
<1>11. /\ Pinned(t) = Null /\ Pinned(t)' = <<s, n>>
       /\ \A o \in Trades \ {t} : Pinned(o)' = Pinned(o)
  BY <1>6, <1>10 DEF Pinned, n
<1>12. History!Next
  BY <1>11, PublishStep DEF n
<1>13. PageFits
  BY <1>10 DEF PageFits
<1> QED
  BY <1>1, <1>8, <1>9, <1>12, <1>13 DEF Step, Inv, SetupsOK

LEMMA CreateTradeStep ==
  ASSUME Inv, NEW t \in Trades, CreateTrade(t)
  PROVE  Step
<1>1. /\ trade[t] = Null /\ trade' = [trade EXCEPT ![t] = Unclassified]
      /\ UNCHANGED <<strategy, versions, setup, form>>
  BY DEF CreateTrade
<1> QED
  BY <1>1, UnclassifiedOK, QuietTrade

LEMMA CreateTradeUnderStrategyStep ==
  ASSUME Inv, NEW t \in Trades, NEW s \in StrategyIds, CreateTradeUnderStrategy(t, s)
  PROVE  Step
<1> DEFINE row == UnderStrategy(Unclassified, s)
<1>1. /\ trade[t] = Null /\ Open(s) /\ LockCurrent(s) /\ trade' = [trade EXCEPT ![t] = row]
      /\ UNCHANGED <<strategy, setup, form>>
  BY DEF CreateTradeUnderStrategy
<1>2. /\ row \in Trade /\ row.strategy = s /\ row.version = strategy[s].current
      /\ row.setup = Null /\ DOMAIN row.checks = {} /\ DOMAIN row.answers = {}
  BY <1>1, UnclassifiedOK, StrategyChosen
<1> HIDE DEF row
<1> QED
  BY <1>1, <1>2, LockedRecord

(* What is written of a trade that is recorded under a setup. *)
LEMMA ChecksOK ==
  ASSUME NEW v \in Version, NEW snapshot
  PROVE  /\ RuleChecks(v, snapshot) \in Partial(Rules, RuleCheck)
         /\ DOMAIN RuleChecks(v, snapshot) = ApplicableRules(v, snapshot)
         /\ \A r \in ApplicableRules(v, snapshot) : RuleChecks(v, snapshot)[r].text = v.rules[r].text
<1>1. v.rules \in Partial(Rules, RuleFields)
  BY VersionFields
<1>2. DOMAIN v.rules \subseteq Rules /\ \A r \in DOMAIN v.rules : v.rules[r].text \in Texts
  <2>1. DOMAIN v.rules \subseteq Rules /\ \A r \in DOMAIN v.rules : v.rules[r] \in RuleFields
    BY <1>1, PartialElim
  <2> QED
    BY <2>1 DEF RuleFields
<1>3. ApplicableRules(v, snapshot) \subseteq Rules
  BY <1>2 DEF ApplicableRules
<1>4. RuleChecks(v, snapshot) \in [ApplicableRules(v, snapshot) -> RuleCheck]
  BY <1>2 DEF RuleChecks, RuleCheck, CheckStatuses, ApplicableRules
<1>5. RuleChecks(v, snapshot) \in Partial(Rules, RuleCheck)
  BY <1>3, <1>4, PartialIntro
<1> QED
  BY <1>5 DEF RuleChecks

LEMMA AnswersOK ==
  ASSUME NEW labels \in Partial(Conditions, Texts), NEW status \in [DOMAIN labels -> Answers]
  PROVE  /\ ConditionChecks(labels, status) \in Partial(Conditions, Answer)
         /\ DOMAIN ConditionChecks(labels, status) = DOMAIN labels
         /\ \A k \in DOMAIN labels : ConditionChecks(labels, status)[k].label = labels[k]
<1>1. DOMAIN labels \subseteq Conditions /\ \A k \in DOMAIN labels : labels[k] \in Texts
  BY PartialElim
<1>2. ConditionChecks(labels, status) \in [DOMAIN labels -> Answer]
  BY <1>1 DEF ConditionChecks, Answer
<1>3. ConditionChecks(labels, status) \in Partial(Conditions, Answer)
  BY <1>1, <1>2, PartialIntro
<1> QED
  BY <1>3 DEF ConditionChecks

LEMMA CreateTradeUnderSetupStep ==
  ASSUME Inv, NEW t \in Trades, NEW s \in StrategyIds, NEW u \in Setups, CreateTradeUnderSetup(t, s, u)
  PROVE  Step
<1> DEFINE v == Current(s)
           n == strategy[s].current
           labels == v.setups[u].conditions
           base == UnderSetup(UnderStrategy(Unclassified, s), u)
<1>1. /\ trade[t] = Null /\ Open(s) /\ LockCurrent(s) /\ UNCHANGED <<strategy, setup>> /\ form' = Null
      /\ u \in DOMAIN v.setups
      /\ form # Null /\ form.strategy = s /\ form.setup = u /\ form.token = <<n, u>>
      /\ DOMAIN form.labels = DOMAIN labels
  BY DEF CreateTradeUnderSetup, Usable, PageIsCurrent, Snapshot
<1>2. PICK status \in [DOMAIN labels -> Answers] :
        trade' = [trade EXCEPT ![t] = [base EXCEPT !.checks = RuleChecks(v, <<n, u>>),
                                                   !.answers = ConditionChecks(labels, status)]]
  BY DEF CreateTradeUnderSetup, Snapshot
<1>3. /\ n \in 1..MaxVersions /\ v \in Version /\ Len(versions[s]) = n /\ v = versions[s][n]
  BY <1>1, CurrentOK DEF Inv, Open
<1>4. labels \in Partial(Conditions, Texts)
  BY <1>1, SetupRow DEF Inv
<1>5. /\ UnderStrategy(Unclassified, s) \in Trade
      /\ UnderStrategy(Unclassified, s).strategy = s /\ UnderStrategy(Unclassified, s).version = n
  BY <1>1, UnclassifiedOK, StrategyChosen
<1>6. /\ base \in Trade /\ base.strategy = s /\ base.version = n
      /\ base.setup = u /\ base.snapshot = <<n, u>>
  BY <1>3, <1>5, SetupChosen
<1> DEFINE checks == RuleChecks(v, <<n, u>>)
           answers == ConditionChecks(labels, status)
           row == [base EXCEPT !.checks = checks, !.answers = answers]
<1>7. /\ checks \in Partial(Rules, RuleCheck) /\ DOMAIN checks = ApplicableRules(v, <<n, u>>)
      /\ \A r \in DOMAIN checks : checks[r].text = v.rules[r].text
  BY <1>3, ChecksOK
<1>8. /\ answers \in Partial(Conditions, Answer) /\ DOMAIN answers = DOMAIN labels
      /\ \A k \in DOMAIN answers : answers[k].label = labels[k]
  BY <1>4, AnswersOK
<1> HIDE DEF base, checks, answers
<1>9. /\ row \in Trade /\ row.strategy = s /\ row.version = n /\ row.setup = u
      /\ row.snapshot = <<n, u>> /\ row.checks = checks /\ row.answers = answers
  BY <1>6, <1>7, <1>8 DEF Trade, RuleCheck, Answer
<1>10. trade' = [trade EXCEPT ![t] = row]
  BY <1>2 DEF base, checks, answers
<1>11. ASSUME form.locked PROVE form.labels = labels
  <2>1. form.labels = versions[form.strategy][form.token[1]].setups[form.setup].conditions
    BY <1>1, <1>11 DEF Inv, FormOK
  <2>2. form.token[1] = n
    BY <1>1
  <2>3. versions[form.strategy][form.token[1]] = v
    BY <1>1, <1>3, <2>2
  <2> QED
    BY <1>1, <2>1, <2>3
<1>12. u # Null
  BY StrategiesAssumption
<1> HIDE DEF row, labels
<1> QED
  BY <1>1, <1>7, <1>8, <1>9, <1>10, <1>11, <1>12, LockedRecord, ZenonT(40) DEF labels

LEMMA AssignStrategyStep ==
  ASSUME Inv, NEW t \in Trades, NEW s \in StrategyIds, NEW u \in Setups \cup {Null}, AssignStrategy(t, s, u)
  PROVE  Step
<1> DEFINE row == UnderStrategy(trade[t], s)
           n == strategy[s].current
<1>1. /\ trade[t] # Null /\ trade[t].strategy = Null /\ Open(s) /\ LockCurrent(s)
      /\ UNCHANGED <<strategy, setup, form>>
  BY DEF AssignStrategy
<1>7. \/ u = Null /\ trade' = [trade EXCEPT ![t] = row]
      \/ u # Null /\ u \in DOMAIN Current(s).setups /\ trade' = [trade EXCEPT ![t] = UnderSetup(row, u)]
      \/ UNCHANGED trade
  BY DEF AssignStrategy, Usable
<1>2. /\ trade[t] \in Trade /\ trade[t].setup = Null
      /\ DOMAIN trade[t].checks = {} /\ DOMAIN trade[t].answers = {}
  BY <1>1 DEF Inv, RecordsOK, RowOK
<1>3. /\ row \in Trade /\ row.strategy = s /\ row.version = n /\ row.setup = Null
      /\ DOMAIN row.checks = {} /\ DOMAIN row.answers = {}
  BY <1>1, <1>2, StrategyChosen
<1> HIDE DEF row
<1>4. CASE trade' = [trade EXCEPT ![t] = row]
  BY <1>1, <1>3, <1>4, LockedRecord
<1>5. CASE u # Null /\ u \in DOMAIN Current(s).setups /\ trade' = [trade EXCEPT ![t] = UnderSetup(row, u)]
  <2> DEFINE new == UnderSetup(row, u)
  <2>1. n \in 1..MaxVersions
    BY <1>1, CurrentOK DEF Inv, Open
  <2>2. /\ new \in Trade /\ new.strategy = s /\ new.version = n /\ new.setup = u
        /\ new.snapshot = <<n, u>> /\ DOMAIN new.checks = {} /\ DOMAIN new.answers = {}
    BY <1>3, <1>5, <2>1, SetupChosen
  <2> HIDE DEF new
  <2>3. trade' = [trade EXCEPT ![t] = new]
    BY <1>5 DEF new
  <2>4. new.setup # Null /\ u \in DOMAIN Current(s).setups
    BY <1>5, <2>2
  <2>5. /\ \A r \in DOMAIN new.checks : new.checks[r].text = Current(s).rules[r].text
        /\ \A k \in DOMAIN new.answers : new.answers[k].label = Current(s).setups[new.setup].conditions[k]
        /\ DOMAIN new.checks \in {{}, ApplicableRules(Current(s), new.snapshot)}
    BY <2>2
  <2> HIDE DEF n
  <2>6. new.strategy = s /\ new.version = strategy[s].current /\ new.snapshot = <<new.version, new.setup>>
    BY <2>2 DEF n
  <2> QED
    BY <1>1, <2>2, <2>3, <2>4, <2>5, <2>6, LockedRecord
<1>6. CASE UNCHANGED trade
  <2>1. HistoriesOK' /\ LockedKept
    BY <1>1, LockEffect DEF Inv
  <2>2. \A o \in Trades : trade[o] # Null => RowOK(trade[o], versions')
    BY <2>1, RowKept DEF Inv, RecordsOK
  <2>3. RecordsOK'
    BY <1>6, <2>2 DEF Inv, RecordsOK
  <2>4. FormOK'
    BY <1>1, <2>1, FormKept DEF Inv
  <2>5. AllPinned' = AllPinned
    BY <1>6 DEF AllPinned, Pinned
  <2>6. History!Next
    BY <1>1, <2>5, PublishStep
  <2>7. PageFits
    BY <1>6 DEF PageFits
  <2> QED
    BY <1>1, <2>1, <2>3, <2>4, <2>6, <2>7 DEF Step, Inv, SetupsOK
<1> QED
  BY <1>4, <1>5, <1>6, <1>7

LEMMA AssignSetupStep ==
  ASSUME Inv, NEW t \in Trades, NEW u \in Setups, AssignSetup(t, u)
  PROVE  Step
<1> DEFINE old == trade[t]
           row == UnderSetup(old, u)
<1>1. /\ old # Null /\ old.strategy # Null /\ old.setup = Null
      /\ u \in DOMAIN versions[old.strategy][old.version].setups
      /\ trade' = [trade EXCEPT ![t] = row]
      /\ UNCHANGED <<strategy, versions, setup, form>>
  BY DEF AssignSetup, Usable
<1>2. /\ old \in Trade /\ RowOK(old, versions)
  BY <1>1 DEF Inv, RecordsOK
<1>3. /\ old.strategy \in StrategyIds /\ old.version \in 1..Len(versions[old.strategy])
      /\ versions[old.strategy][old.version].locked
      /\ DOMAIN old.checks = {} /\ DOMAIN old.answers = {}
  BY <1>1, <1>2, TradeFields DEF RowOK, MatchesVersion
<1>4. old.version \in 1..MaxVersions
  BY <1>3, HistoryBound DEF Inv
<1>5. /\ row \in Trade /\ row.setup = u /\ row.snapshot = <<old.version, u>>
      /\ row.strategy = old.strategy /\ row.version = old.version
      /\ row.checks = old.checks /\ row.answers = old.answers
  BY <1>2, <1>4, SetupChosen
<1> HIDE DEF row, old
<1>6. u # Null
  BY StrategiesAssumption
<1>7. MatchesVersion(row, versions[old.strategy][old.version])
  BY <1>1, <1>3, <1>5 DEF MatchesVersion
<1>8. RowOK(row, versions)
  BY <1>1, <1>3, <1>5, <1>6, <1>7 DEF RowOK
<1> QED
  BY <1>1, <1>5, <1>8, QuietTrade DEF old

LEMMA UpdateTradeRuleCheckStep ==
  ASSUME Inv, NEW t \in Trades, NEW r, NEW status \in CheckStatuses, UpdateTradeRuleCheck(t, r, status)
  PROVE  Step
<1> DEFINE old == trade[t]
           check == [old.checks[r] EXCEPT !.status = status]
           checks == [old.checks EXCEPT ![r] = check]
           row == [old EXCEPT !.checks = checks]
<1>1. /\ old # Null /\ r \in DOMAIN old.checks
      /\ UNCHANGED <<strategy, versions, setup, form>>
  BY DEF UpdateTradeRuleCheck
<1>2. trade' = [trade EXCEPT ![t] = row]
  BY DEF UpdateTradeRuleCheck
<1>3. old \in Trade /\ RowOK(old, versions)
  BY <1>1 DEF Inv, RecordsOK
<1>4. old.checks \in Partial(Rules, RuleCheck)
  BY <1>3, TradeFields
<1>5. old.checks[r] \in RuleCheck
  BY <1>1, <1>4, PartialElim
<1>6. check \in RuleCheck /\ check.text = old.checks[r].text
  BY <1>5 DEF RuleCheck
<1> HIDE DEF check
<1>7. /\ checks \in Partial(Rules, RuleCheck) /\ DOMAIN checks = DOMAIN old.checks
      /\ checks[r] = check /\ \A x \in DOMAIN old.checks \ {r} : checks[x] = old.checks[x]
  BY <1>1, <1>4, <1>6, ExceptOK
<1> HIDE DEF checks
<1>8. \A x \in DOMAIN checks : checks[x].text = old.checks[x].text
  BY <1>6, <1>7
<1>9. /\ row \in Trade /\ row.checks = checks /\ row.strategy = old.strategy
      /\ row.version = old.version /\ row.setup = old.setup /\ row.snapshot = old.snapshot
      /\ row.answers = old.answers
  BY <1>3, <1>7 DEF Trade, RuleCheck
<1> HIDE DEF row
<1>10. ASSUME old.strategy # Null
       PROVE  MatchesVersion(row, versions[old.strategy][old.version])
  <2> DEFINE v == versions[old.strategy][old.version]
  <2>1. MatchesVersion(old, v)
    BY <1>3, <1>10 DEF RowOK
  <2> HIDE DEF v
  <2>2. MatchesVersion(row, v)
    BY <1>7, <1>8, <1>9, <2>1 DEF MatchesVersion
  <2> QED
    BY <2>2 DEF v
<1>11. RowOK(row, versions)
  BY <1>3, <1>7, <1>9, <1>10 DEF RowOK
<1> QED
  BY <1>1, <1>2, <1>9, <1>11, QuietTrade DEF row

LEMMA OpenTradeFormStep ==
  ASSUME Inv, NEW s \in StrategyIds, NEW u \in Setups, OpenTradeForm(s, u)
  PROVE  Step
<1>1. /\ Open(s) /\ UNCHANGED <<strategy, versions, setup, trade>>
      /\ form' = [strategy |-> s, setup |-> u, token |-> <<strategy[s].current, u>>,
                  locked |-> Current(s).locked, labels |-> Current(s).setups[u].conditions]
  BY DEF OpenTradeForm, Snapshot
<1>2. strategy[s].current \in 1..Len(versions[s])
  BY <1>1, CurrentOK DEF Inv, Open
<1>3. FormOK'
  BY <1>1, <1>2 DEF FormOK, Current
<1>4. HistoriesOK' /\ SetupsOK' /\ RecordsOK'
  BY <1>1 DEF Inv, HistoriesOK, HistoryOK, Scoped, SetupsOK, RecordsOK
<1>5. AllPublished' = AllPublished /\ AllPinned' = AllPinned
  BY <1>1 DEF AllPublished, AllPinned, Published, Pinned
<1>6. PageFits
  BY <1>1 DEF PageFits
<1> QED
  BY <1>3, <1>4, <1>5, <1>6 DEF Step, Inv

-----------------------------------------------------------------------------
(* The theorems. *)

LEMMA TradeCallStep ==
  ASSUME Inv, NEW t \in Trades, TradeCall(t)
  PROVE  Step
BY CreateTradeStep, AssignSetupStep, CreateTradeUnderStrategyStep, CreateTradeUnderSetupStep,
   AssignStrategyStep, UpdateTradeRuleCheckStep DEF TradeCall

LEMMA StepOK ==
  ASSUME Inv, [Next]_vars
  PROVE  /\ Inv' /\ PageFits
         /\ History!Next \/ UNCHANGED <<AllPublished, AllPinned>>
<1>1. CASE UNCHANGED vars
  <2>1. Inv'
    BY <1>1 DEF vars, Inv, HistoriesOK, HistoryOK, Scoped, SetupsOK, RecordsOK, FormOK
  <2>2. AllPublished' = AllPublished /\ AllPinned' = AllPinned
    BY <1>1 DEF vars, AllPublished, AllPinned, Published, Pinned
  <2>3. PageFits
    BY <1>1 DEF vars, PageFits
  <2> QED
    BY <2>1, <2>2, <2>3
<1>2. ASSUME EditStep PROVE Step
  BY <1>2, EditKeeps
<1>3. CASE Next
  <2>1. CASE \E s \in StrategyIds : StrategyCall(s)
    BY <1>2, <2>1, StrategyCallStep DEF Inv, Step
  <2>2. CASE \E s \in StrategyIds, u \in Setups : SetupCall(s, u) \/ OpenTradeForm(s, u)
    BY <1>2, <2>2, SetupCallStep, OpenTradeFormStep DEF Inv, Step
  <2>3. CASE \E s \in StrategyIds, r \in Rules : RuleCall(s, r)
    BY <1>2, <2>3, RuleCallStep DEF Inv, Step
  <2>4. CASE \E s \in StrategyIds, u \in Setups, k \in Conditions : ConditionCall(s, u, k)
    BY <1>2, <2>4, ConditionCallStep DEF Inv, Step
  <2>5. CASE \E t \in Trades : TradeCall(t)
    BY <2>5, TradeCallStep DEF Step
  <2> QED
    BY <1>3, <2>1, <2>2, <2>3, <2>4, <2>5 DEF Next
<1> QED
  BY <1>1, <1>3

LEMMA InvInit == Init => Inv
<1> SUFFICES ASSUME Init PROVE Inv
  OBVIOUS
<1>1. /\ versions = [o \in StrategyIds |-> versions[o]]
      /\ strategy \in [StrategyIds -> StrategyRow \cup {Null}]
      /\ \A s \in StrategyIds : strategy[s] = Null /\ versions[s] = << >>
  BY DEF Init
<1>2. << >> \in Seq(Version) /\ Len(<< >>) = 0
  BY EmptySeq
<1>3. ASSUME NEW s \in StrategyIds PROVE HistoryOK(s)
  <2>1. strategy[s] = Null /\ versions[s] = << >> /\ Len(versions[s]) = 0
    BY <1>1, <1>2
  <2>2. \A n \in 1..Len(versions[s]) : FALSE
    BY <2>1
  <2>3. \A n \in 1..Len(versions[s]) - 1 : FALSE
    BY <2>1
  <2> QED
    BY <1>2, <2>1, <2>2, <2>3 DEF HistoryOK
<1>5. HistoriesOK
  BY <1>1, <1>3 DEF HistoriesOK
<1>4. SetupsOK /\ RecordsOK /\ FormOK
  BY DEF Init, SetupsOK, RecordsOK, FormOK
<1> QED
  BY <1>4, <1>5 DEF Inv

LEMMA VersionsAreFunction ==
  ASSUME Inv, \A s \in StrategyIds : versions[s] \in Seq(Version)
  PROVE  versions \in [StrategyIds -> Seq(Version)]
BY DEF Inv, HistoriesOK

(* The inductive invariant: every version but the last of a strategy is    *)
(* locked, every rule is scoped to its own version, and what a trade or a  *)
(* waiting page recorded of a locked version is what that version says.    *)
THEOREM Invariance == Spec => []Inv
BY InvInit, StepOK, PTL DEF Spec

(* Every row has the shape of its table, and the current version of a      *)
(* strategy is its last, whatever strategy-management.ts is asked to do.   *)
THEOREM TypeCorrect == Spec => []TypeOK
<1>1. Inv => TypeOK
  <2> SUFFICES ASSUME Inv PROVE TypeOK
    OBVIOUS
  <2>1. versions \in [StrategyIds -> Seq(Version)]
    <3>1. \A s \in StrategyIds : versions[s] \in Seq(Version)
      BY DEF Inv, HistoriesOK, HistoryOK
    <3> QED
      BY <3>1, VersionsAreFunction
  <2>2. ASSUME NEW s \in StrategyIds
        PROVE  Len(versions[s]) = IF Exists(s) THEN strategy[s].current ELSE 0
    BY EmptySeq DEF Inv, HistoriesOK, HistoryOK, Exists
  <2> QED
    BY <2>1, <2>2 DEF TypeOK, Inv, HistoriesOK, SetupsOK, RecordsOK, StrategyRow
<1> QED BY <1>1, Invariance, PTL

(* A rule of a setup refers to the setup's snapshot in the rule's own      *)
(* version: copyVersionContent rescopes every rule of every copy.          *)
THEOREM RulesAreRescoped == Spec => []RulesStayInVersion
<1>1. Inv => RulesStayInVersion
  <2> SUFFICES ASSUME Inv, NEW s \in StrategyIds, NEW n \in DOMAIN versions[s]
               PROVE  Scoped(versions[s][n], n)
    BY DEF RulesStayInVersion, Scoped
  <2>1. versions[s] \in Seq(Version) /\ \A m \in 1..Len(versions[s]) : Scoped(versions[s][m], m)
    BY DEF Inv, HistoriesOK, HistoryOK
  <2>2. DOMAIN versions[s] = 1..Len(versions[s])
    BY <2>1, LenProperties
  <2> QED
    BY <2>1, <2>2
<1> QED BY <1>1, Invariance, PTL

(* What a trade recorded of its strategy is what its locked version says.  *)
THEOREM RecordsStayTrue == Spec => []RecordsMatchVersion
<1>1. Inv => RecordsMatchVersion
  <2> SUFFICES ASSUME Inv, NEW t \in Trades, trade[t] # Null, trade[t].strategy # Null
               PROVE  /\ trade[t].version \in DOMAIN versions[trade[t].strategy]
                      /\ MatchesVersion(trade[t], versions[trade[t].strategy][trade[t].version])
    BY DEF RecordsMatchVersion, MatchesVersion
  <2>1. trade[t] \in Trade /\ RowOK(trade[t], versions)
    BY DEF Inv, RecordsOK
  <2>2. trade[t].strategy \in StrategyIds
    BY <2>1, TradeFields
  <2>3. versions[trade[t].strategy] \in Seq(Version)
    BY <2>2 DEF Inv, HistoriesOK, HistoryOK
  <2>4. DOMAIN versions[trade[t].strategy] = 1..Len(versions[trade[t].strategy])
    BY <2>3, LenProperties
  <2> QED
    BY <2>1, <2>4 DEF RowOK
<1> QED BY <1>1, Invariance, PTL

(* The answers of a page that rendered a locked version are recorded under *)
(* the labels it showed: the token of assertConditionSet is that of the    *)
(* version, and a locked version does not change.                          *)
THEOREM AnswersAreThoseShown == Spec => AnswersFitThePage
<1>1. Inv /\ [Next]_vars => PageFits
  BY StepOK
<1> QED BY <1>1, Invariance, PTL DEF Spec, AnswersFitThePage, PageFits

(* Edits, copies, archiving and classifications do to the locked versions  *)
(* and to the trades tied to them only what StrategyHistory does.          *)
THEOREM StrategiesImplementHistory == Spec => ImplementsStrategyHistory
<1>1. Init => History!Init
  BY DEF Init, History!Init, Published, Pinned
<1>2. Inv /\ [Next]_vars => [History!Next]_<<AllPublished, AllPinned>>
  BY StepOK
<1> QED
  BY <1>1, <1>2, Invariance, PTL
  DEF Spec, ImplementsStrategyHistory, History!Spec, History!vars, AllPublished, AllPinned
=============================================================================
