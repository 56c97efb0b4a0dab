------------------------------ MODULE KeyProofs ------------------------------
(***************************************************************************)
(* Proofs about KeyState: the reference counts of key states are right     *)
(* however threads and reloads interleave, a revocation that was handled   *)
(* holds, coins stay spendable until deposits of them end, and threads     *)
(* sign with valid keys.                                                   *)
(***************************************************************************)
EXTENDS KeyState, SumTheorems

---------------------------------------------------------------------------
(* Least and greatest elements.                                            *)

LEMMA LeastExists ==
    ASSUME NEW S, IsFiniteSet(S), S \subseteq Int, S # {}
    PROVE  Min(S) \in S /\ \A y \in S : Min(S) <= y
PROOF
<1> DEFINE B == {s \in SUBSET S : s # {} /\ ~ \E x \in s : \A y \in s : x <= y}
<1>1. SUFFICES ASSUME B # {} PROVE FALSE
  <2>1. S \notin B
    BY <1>1
  <2>2. \E x \in S : \A y \in S : x <= y
    BY <2>1
  <2> QED
    BY <2>2 DEF Min
<1>2. PICK s \in B : \A t \in B : Cardinality(s) <= Cardinality(t)
  <2>1. B \subseteq SUBSET S
    OBVIOUS
  <2> HIDE DEF B
  <2> QED
    BY <1>1, <2>1, SmallestSubset
<1>3. PICK x : x \in s
  OBVIOUS
<1> DEFINE t == s \ {x}
<1>4. IsFiniteSet(s) /\ Cardinality(t) < Cardinality(s) /\ t \in SUBSET S
  <2>1. IsFiniteSet(s) /\ s \subseteq S
    BY FS_Subset
  <2>2. Cardinality(t) = Cardinality(s) - 1 /\ Cardinality(s) \in Nat
    BY <1>3, <2>1, FS_RemoveElement, FS_CardinalityType
  <2>3. t \in SUBSET S
    BY <2>1
  <2> HIDE DEF t, B
  <2> QED
    BY <2>1, <2>2, <2>3
<1>5. t \notin B
  <2>1. Cardinality(t) \in Nat /\ Cardinality(s) \in Nat
    BY <1>4, FS_Subset, FS_CardinalityType
  <2> QED
    BY <1>2, <1>4, <2>1
<1>6. CASE t = {}
  <2>1. s = {x} /\ x \in Int
    BY <1>3, <1>6
  <2> QED
    BY <2>1
<1>7. CASE t # {}
  <2>1. PICK y \in t : \A z \in t : y <= z
    BY <1>4, <1>5, <1>7
  <2>2. x \in Int /\ y \in Int /\ y \in s /\ s \subseteq Int
    BY <1>3
  <2>3. CASE x <= y
    <3>1. \A z \in s : x <= z
      BY <2>1, <2>2, <2>3
    <3> QED
      BY <1>3, <3>1
  <2>4. CASE y <= x
    <3>1. \A z \in s : y <= z
      BY <2>1, <2>2, <2>4
    <3> QED
      BY <2>2, <3>1
  <2> QED
    BY <2>2, <2>3, <2>4
<1> QED
  BY <1>6, <1>7

LEMMA GreatestExists ==
    ASSUME NEW S, IsFiniteSet(S), S \subseteq Int, S # {}
    PROVE  Max(S) \in S
PROOF
<1> DEFINE f == [x \in S |-> -x]
           T == {-x : x \in S}
<1>1. f \in Surjection(S, T)
  BY DEF Surjection
<1>2. T \subseteq Int /\ T # {}
  OBVIOUS
<1>3. \A x \in S : -x \in T
  OBVIOUS
<1>4. \A y \in T : \E x \in S : y = -x
  OBVIOUS
<1> HIDE DEF f, T
<1>5. IsFiniteSet(T)
  BY <1>1, FS_Surjection
<1>6. Min(T) \in T /\ \A y \in T : Min(T) <= y
  BY <1>2, <1>5, LeastExists
<1>7. PICK m \in S : Min(T) = -m
  BY <1>4, <1>6
<1>8. \A x \in S : m >= x
  BY <1>3, <1>6, <1>7
<1> QED
  BY <1>7, <1>8 DEF Max

---------------------------------------------------------------------------
(* The files and the tables.                                               *)

FilesOK ==
    /\ now \in Int
    /\ IsFiniteSet(sign_files) /\ sign_files \subseteq Int
    /\ IsFiniteSet(denom_files) /\ \A d \in denom_files : d.start \in Int

TablesOK ==
    /\ \A d \in db : d.start \in Int
    /\ published \subseteq db
    /\ faults \in Nat

LEMMA FreshFiles ==
    ASSUME FilesOK, NEW stamp \in Int
    PROVE  /\ IsFiniteSet(NewSignKeys(stamp)) /\ NewSignKeys(stamp) \subseteq Int
           /\ IsFiniteSet(NewDenomKeys(stamp))
           /\ \A d \in NewDenomKeys(stamp) : d.start \in Int
PROOF
<1> USE DurationsAssumption
<1>1. ASSUME NEW starts, IsFiniteSet(starts), starts \subseteq Int,
             NEW duration \in Int, NEW overlap \in Int
      PROVE  GetAnchor(starts, duration, overlap) \in Int
  <2>1. now \in Int
    BY DEF FilesOK
  <2>2. CASE starts = {}
    BY <2>1, <2>2 DEF GetAnchor
  <2>3. CASE starts # {}
    <3>1. Max(starts) \in Int
      BY <1>1, <2>3, GreatestExists
    <3> QED
      BY <2>1, <3>1, <1>1 DEF GetAnchor
  <2> QED
    BY <2>2, <2>3
<1>2. ASSUME NEW a \in Int, NEW step
      PROVE  IsFiniteSet(NewStarts(a, step, stamp)) /\ NewStarts(a, step, stamp) \subseteq Int
  <2>1. IsFiniteSet(a..(stamp - 1)) /\ NewStarts(a, step, stamp) \subseteq a..(stamp - 1)
    BY <1>2, FS_Interval DEF NewStarts
  <2> QED
    BY <2>1, FS_Subset
<1>3. IsFiniteSet(NewSignKeys(stamp)) /\ NewSignKeys(stamp) \subseteq Int
  <2>1. GetAnchor(sign_files, SignkeyDuration, 0) \in Int
    BY <1>1 DEF FilesOK
  <2> QED
    BY <1>2, <2>1 DEF NewSignKeys
<1> DEFINE old == {d.start : d \in {d \in denom_files : d.gen = 0}}
           anchor == GetAnchor(old, DurationWithdraw, DurationOverlap)
           starts == NewStarts(anchor, DurationWithdraw - DurationOverlap, stamp)
           keys == {[start |-> t, gen |-> 0] : t \in starts}
<1>4. IsFiniteSet(old) /\ old \subseteq Int
  <2> DEFINE D == {d \in denom_files : d.gen = 0}
             f == [d \in D |-> d.start]
  <2>1. IsFiniteSet(D) /\ \A d \in D : d.start \in Int
    BY FS_Subset DEF FilesOK
  <2>2. f \in Surjection(D, old)
    BY DEF Surjection
  <2>3. old \subseteq Int
    BY <2>1
  <2> HIDE DEF f, D, old
  <2> QED
    BY <2>1, <2>2, <2>3, FS_Surjection
<1>5. IsFiniteSet(starts) /\ starts \subseteq Int
  <2> HIDE DEF old
  <2>a. DurationWithdraw \in Int /\ DurationOverlap \in Int
    OBVIOUS
  <2>1. anchor \in Int
    BY ONLY <1>1, <1>4, <2>a
  <2> HIDE DEF anchor
  <2> QED
    BY <1>2, <2>1
<1>6. IsFiniteSet(keys) /\ \A d \in keys : d.start \in Int
  <2> HIDE DEF starts
  <2> DEFINE f == [t \in starts |-> [start |-> t, gen |-> 0]]
  <2>1. f \in Surjection(starts, keys)
    BY DEF Surjection
  <2>2. \A d \in keys : d.start \in Int
    <3> HIDE DEF f
    <3>1. \A d \in keys : \E t \in starts : d = [start |-> t, gen |-> 0]
      OBVIOUS
    <3> QED
      BY <1>5, <3>1
  <2> HIDE DEF f, keys
  <2> QED
    BY <1>5, <2>1, <2>2, FS_Surjection
<1>7. NewDenomKeys(stamp) = {} \/ NewDenomKeys(stamp) = keys
  BY DEF NewDenomKeys
<1> HIDE DEF keys
<1> QED
  BY <1>3, <1>6, <1>7, FS_EmptySet

LEMMA FilesStep ==
    ASSUME FilesOK, FileStep
    PROVE  FilesOK'
PROOF
<1> USE DurationsAssumption
<1>1. ASSUME NEW a \in Int, NEW b \in Int, WriteKeys(a, b), UNCHANGED now
      PROVE  FilesOK'
  <2>1. /\ sign_files' = sign_files \cup NewSignKeys(a)
        /\ denom_files' = denom_files \cup NewDenomKeys(b)
    BY <1>1 DEF WriteKeys, WriteSignKeys, WriteDenomKeys
  <2>2. /\ IsFiniteSet(NewSignKeys(a)) /\ NewSignKeys(a) \subseteq Int
        /\ IsFiniteSet(NewDenomKeys(b))
        /\ \A d \in NewDenomKeys(b) : d.start \in Int
    BY FreshFiles
  <2> QED
    BY <1>1, <2>1, <2>2, FS_Union DEF FilesOK
<1>2. now \in Int /\ Stamp \in Int
  BY DEF FilesOK, Stamp
<1>3. ASSUME Keyup PROVE FilesOK'
  BY <1>1, <1>2, <1>3 DEF Keyup
<1>4. ASSUME KeyupStops PROVE FilesOK'
  <2>1. PICK t \in now..(Stamp - 1) : WriteKeys(t, 0) \/ WriteKeys(Stamp, t)
    BY <1>4 DEF KeyupStops
  <2>2. t \in Int /\ 0 \in Int
    BY <1>2
  <2> QED
    BY <1>1, <1>2, <1>4, <2>1, <2>2 DEF KeyupStops
<1>5. ASSUME Tick PROVE FilesOK'
  BY <1>5 DEF Tick, FilesOK
<1>6. ASSUME NEW d \in denom_files, Revoke(d) PROVE FilesOK'
  <2>1. PICK gone \in SUBSET Unlinked :
           denom_files' = (denom_files \ gone) \cup Replacement(d)
    BY <1>6 DEF Revoke
  <2>2. IsFiniteSet(denom_files \ gone)
    BY FS_Subset DEF FilesOK
  <2>3. IsFiniteSet(Replacement(d)) /\ \A e \in Replacement(d) : e.start \in Int
    <3>1. CASE Replacement(d) = {}
      BY <3>1, FS_EmptySet
    <3>2. CASE Replacement(d) # {}
      <4> DEFINE e == [start |-> d.start,
                       gen |-> Min({i \in 1..(MaxRevocations + 1) :
                          [start |-> d.start, gen |-> i] \notin denom_files})]
      <4>1. Replacement(d) = {e} /\ e.start = d.start /\ d.start \in Int
        BY <3>2 DEF Replacement, FilesOK
      <4> HIDE DEF e
      <4>2. IsFiniteSet({e})
        BY FS_Singleton
      <4> QED
        BY <4>1, <4>2
    <3> QED
      BY <3>1, <3>2
  <2>4. UNCHANGED <<now, sign_files>>
    BY <1>6 DEF Revoke
  <2> QED
    BY <2>1, <2>2, <2>3, <2>4, FS_Union DEF FilesOK
<1>7. ASSUME NEW d \in denom_files, RevokeStops(d) PROVE FilesOK'
  BY <1>7 DEF RevokeStops, FilesOK
<1> QED
  BY <1>3, <1>4, <1>5, <1>6, <1>7 DEF FileStep

LEMMA FilesRead ==
    ASSUME FilesOK, ReadDirectories
    PROVE  FilesOK'
PROOF
<1>1. /\ denom_files' \subseteq denom_files /\ sign_files' \subseteq sign_files
      /\ now' = now
  BY DEF ReadDirectories, Unexpired
<1> QED
  BY <1>1, FS_Subset DEF FilesOK

---------------------------------------------------------------------------
(* The inductive invariant.                                                *)

Fields ==
    {"refcnt", "denoms", "revoked", "priv", "sign", "signkeys", "next_reload",
     "seen"}

(* A key state in use at a time, given the rows of the database and the    *)
(* number of its failures.                                                 *)
Good(s, time, rows, failed) ==
    /\ DOMAIN s = Fields
    /\ s.sign \in Int /\ s.sign < time
    /\ s.next_reload \in Int /\ s.next_reload <= SignExpire(s.sign)
    /\ s.denoms \subseteq rows /\ s.seen \subseteq rows
    /\ failed = 0 =>
         \A d \in s.seen : time <= ExpireDeposit(d) => d \in s.denoms \cup s.revoked

(* Every handle is free or has a good key state.                           *)
Wellformed(states, time, rows, failed) ==
    /\ DOMAIN states = Handles
    /\ \A h \in Handles :
          /\ states[h].refcnt \in Nat
          /\ states[h].refcnt = 0 => states[h] = Freed
          /\ states[h].refcnt # 0 => Good(states[h], time, rows, failed)

One(a, h) == IF a = h THEN 1 ELSE 0

Uses(assigned, h) == Cardinality({t \in Threads : assigned[t] = h})

(* ReferencesCounted, shorter.                                             *)
Counted(states, assigned, i, j) ==
    \A h \in Handles : states[h].refcnt = Uses(assigned, h) + One(i, h) + One(j, h)

SignalsOK ==
    /\ effective \subseteq revocations /\ pending \subseteq revocations
    /\ Len(pipe) \in Nat
    /\ pipe \in Seq([sig : {"USR1", "TERM"}, rev : SUBSET revocations])

HandlesOK ==
    /\ internal \in Handles \cup {None}
    /\ fs \in Handles \cup {None}
    /\ held \in [Threads -> Handles \cup {None}]
    /\ fs # None => loop = "install"
    /\ loop = "exited" => internal = None

(* A state that is or will be installed has no key whose revocation has    *)
(* been or is being handled.                                               *)
RevocationOK ==
    /\ RevocationHolds
    /\ fs # None => ks[fs].denoms \cap (effective \cup pending) = {}

IndInv ==
    /\ FilesOK /\ TablesOK /\ SignalsOK /\ HandlesOK
    /\ Wellformed(ks, now, db, faults)
    /\ Counted(ks, held, internal, fs)
    /\ RevocationOK

---------------------------------------------------------------------------
(* Counting.                                                               *)

LEMMA CountsOne ==
    ASSUME NEW a, NEW h
    PROVE  Cardinality({i \in {1} : a = h}) = One(a, h)
PROOF
<1>1. CASE a = h
  <2>1. {i \in {1} : a = h} = {1}
    BY <1>1
  <2>2. Cardinality({1}) = 1
    BY FS_Singleton
  <2> QED
    BY <1>1, <2>1, <2>2 DEF One
<1>2. CASE a # h
  <2>1. {i \in {1} : a = h} = {}
    BY <1>2
  <2>2. Cardinality({}) = 0
    BY FS_EmptySet
  <2> QED
    BY <1>2, <2>1, <2>2 DEF One
<1> QED
  BY <1>1, <1>2

LEMMA CountedMeans ==
    Counted(ks, held, internal, fs) <=> ReferencesCounted
PROOF
<1>1. \A h \in Handles :
         /\ Cardinality({i \in {1} : internal = h}) = One(internal, h)
         /\ Cardinality({i \in {1} : fs = h}) = One(fs, h)
  BY CountsOne
<1> QED
  BY <1>1 DEF Counted, ReferencesCounted, Uses

LEMMA UsesType ==
    ASSUME NEW assigned, NEW h
    PROVE  /\ IsFiniteSet({t \in Threads : assigned[t] = h})
           /\ Uses(assigned, h) \in Nat
PROOF
<1>1. IsFiniteSet({t \in Threads : assigned[t] = h})
  BY ServerAssumption, FS_Subset
<1> QED
  BY <1>1, FS_CardinalityType DEF Uses

(* A thread changes what it holds from one handle to another.              *)
Moves(assigned, new, t, b) ==
    /\ t \in Threads /\ b # assigned[t] /\ new[t] = b
    /\ \A u \in Threads : u # t => new[u] = assigned[u]

LEMMA UsesChange ==
    ASSUME NEW assigned, NEW new, NEW t, NEW b, NEW h,
           Moves(assigned, new, t, b)
    PROVE  Uses(new, h) = Uses(assigned, h) - One(assigned[t], h) + One(b, h)
PROOF
<1> DEFINE S == {u \in Threads : assigned[u] = h}
           T == {u \in Threads : new[u] = h}
<1>1. /\ t \in Threads /\ b # assigned[t] /\ new[t] = b
      /\ \A u \in Threads : u # t => new[u] = assigned[u]
  BY DEF Moves
<1>2. IsFiniteSet(S) /\ IsFiniteSet(T) /\ Cardinality(S) \in Nat
  BY ONLY UsesType, FS_CardinalityType
<1>a. Uses(new, h) = Cardinality(T) /\ Uses(assigned, h) = Cardinality(S)
  BY DEF Uses
<1>3. CASE h = assigned[t]
  <2>1. T = S \ {t} /\ t \in S
    BY <1>1, <1>3
  <2>2. Cardinality(T) = Cardinality(S) - 1
    <3> HIDE DEF S, T
    <3> QED
      BY <1>2, <2>1, FS_RemoveElement
  <2>3. One(assigned[t], h) = 1 /\ One(b, h) = 0
    BY <1>1, <1>3 DEF One
  <2> HIDE DEF S, T
  <2> QED
    BY ONLY <1>a, <1>2, <2>2, <2>3
<1>4. CASE h = b
  <2>1. T = S \cup {t} /\ t \notin S
    BY <1>1, <1>4
  <2>2. Cardinality(T) = Cardinality(S) + 1
    <3> HIDE DEF S, T
    <3> QED
      BY <1>2, <2>1, FS_AddElement
  <2>3. One(assigned[t], h) = 0 /\ One(b, h) = 1
    BY <1>1, <1>4 DEF One
  <2> HIDE DEF S, T
  <2> QED
    BY ONLY <1>a, <1>2, <2>2, <2>3
<1>5. CASE h # b /\ h # assigned[t]
  <2>1. T = S
    BY <1>1, <1>5
  <2>2. One(assigned[t], h) = 0 /\ One(b, h) = 0
    BY <1>5 DEF One
  <2> HIDE DEF S, T
  <2> QED
    BY ONLY <1>a, <1>2, <2>1, <2>2
<1> QED
  BY <1>3, <1>4, <1>5

(* There are more handles than users of key states.                        *)
LEMMA HandleIsFree ==
    ASSUME HandlesOK, Wellformed(ks, now, db, faults),
           Counted(ks, held, internal, fs)
    PROVE  FreeHandle \in Handles /\ ks[FreeHandle] = Freed
PROOF
<1> DEFINE f == [t \in Threads |-> held[t]]
           H == {held[t] : t \in Threads}
           n == Cardinality(Threads)
<1>1. n \in Nat /\ IsFiniteSet(Threads)
  BY ServerAssumption, FS_CardinalityType
<1>2. IsFiniteSet(H) /\ Cardinality(H) \in Nat /\ Cardinality(H) <= n
  <2>1. f \in Surjection(Threads, H)
    BY DEF Surjection
  <2> HIDE DEF f, H
  <2> QED
    BY <1>1, <2>1, FS_Surjection, FS_CardinalityType
<1> DEFINE U == (H \cup {internal}) \cup {fs}
<1>3. IsFiniteSet(U) /\ Cardinality(U) <= n + 2 /\ Cardinality(U) \in Nat
  <2> HIDE DEF H, n
  <2>1. /\ IsFiniteSet(H \cup {internal})
        /\ Cardinality(H \cup {internal}) <= Cardinality(H) + 1
        /\ Cardinality(H \cup {internal}) \in Nat
    BY <1>2, FS_AddElement, FS_CardinalityType
  <2> DEFINE V == H \cup {internal}
  <2>a. IsFiniteSet(V)
    BY <2>1
  <2> HIDE DEF V
  <2>2. /\ IsFiniteSet(V \cup {fs})
        /\ Cardinality(V \cup {fs}) <= Cardinality(V) + 1
        /\ Cardinality(V \cup {fs}) \in Nat
    <3>1. /\ IsFiniteSet(V \cup {fs})
          /\ Cardinality(V \cup {fs})
               = IF fs \in V THEN Cardinality(V) ELSE Cardinality(V) + 1
      BY ONLY <2>a, FS_AddElement
    <3>2. Cardinality(V) \in Nat /\ Cardinality(V \cup {fs}) \in Nat
      BY ONLY <2>a, <3>1, FS_CardinalityType
    <3> QED
      BY ONLY <3>1, <3>2
  <2> QED
    BY <1>1, <1>2, <2>1, <2>2 DEF V, n
<1>4. Cardinality(Handles) = n + 3
  <2>1. 1 \in Int /\ n + 3 \in Int /\ 1 <= n + 3
    BY <1>1
  <2> HIDE DEF n
  <2>2. Cardinality(1..(n + 3)) = (n + 3) - 1 + 1
    BY <2>1, <1>1, FS_Interval
  <2> QED
    BY <1>1, <2>2 DEF Handles, n
<1>5. \E h \in Handles : h \notin U
  <2>1. SUFFICES ASSUME Handles \subseteq U PROVE FALSE
    OBVIOUS
  <2> HIDE DEF U, n
  <2>2. Cardinality(Handles) <= Cardinality(U)
    BY <1>3, <2>1, FS_Subset
  <2> QED
    BY <1>1, <1>3, <1>4, <2>2
<1>6. PICK h \in Handles : h \notin U
  BY <1>5
<1>7. Uses(held, h) = 0 /\ One(internal, h) = 0 /\ One(fs, h) = 0
  <2>1. {t \in Threads : held[t] = h} = {}
    BY <1>6
  <2>2. Cardinality({}) = 0
    BY FS_EmptySet
  <2> QED
    BY <1>6, <2>1, <2>2 DEF Uses, One
<1>8. ks[h].refcnt = 0
  BY <1>7 DEF Counted
<1>9. ks[h] = Freed
  BY <1>8 DEF Wellformed
<1> QED
  BY <1>9 DEF FreeHandle

---------------------------------------------------------------------------
(* What the sections under the mutex do to the key states.                 *)

(* A state stays good while time passes, as keys are stored and as the     *)
(* database fails.                                                         *)
LEMMA GoodStays ==
    ASSUME NEW s, NEW time \in Int, NEW rows, NEW failed \in Nat,
           NEW time2 \in Int, NEW rows2, NEW failed2 \in Nat,
           \A d \in rows : d.start \in Int,
           time <= time2, rows \subseteq rows2, failed <= failed2,
           Good(s, time, rows, failed)
    PROVE  Good(s, time2, rows2, failed2)
PROOF
<1>1. /\ DOMAIN s = Fields
      /\ s.sign \in Int /\ s.sign < time2
      /\ s.next_reload \in Int /\ s.next_reload <= SignExpire(s.sign)
      /\ s.denoms \subseteq rows2 /\ s.seen \subseteq rows2
  BY DEF Good
<1>2. ASSUME failed2 = 0, NEW d \in s.seen, time2 <= ExpireDeposit(d)
      PROVE  d \in s.denoms \cup s.revoked
  <2>1. failed = 0
    BY <1>2
  <2>2. d.start \in Int
    BY <1>2 DEF Good
  <2>3. time <= ExpireDeposit(d)
    BY <1>2, <2>2, DurationsAssumption DEF ExpireDeposit
  <2> QED
    BY <1>2, <2>1, <2>3 DEF Good
<1> QED
  BY <1>1, <1>2 DEF Good

LEMMA WellformedStays ==
    ASSUME NEW states, NEW time \in Int, NEW rows, NEW failed \in Nat,
           NEW time2 \in Int, NEW rows2, NEW failed2 \in Nat,
           \A d \in rows : d.start \in Int,
           time <= time2, rows \subseteq rows2, failed <= failed2,
           Wellformed(states, time, rows, failed)
    PROVE  Wellformed(states, time2, rows2, failed2)
PROOF
<1>1. ASSUME NEW h \in Handles
      PROVE  /\ states[h].refcnt \in Nat
             /\ states[h].refcnt = 0 => states[h] = Freed
             /\ states[h].refcnt # 0 => Good(states[h], time, rows, failed)
  BY DEF Wellformed
<1>2. ASSUME NEW h \in Handles, states[h].refcnt # 0
      PROVE  Good(states[h], time2, rows2, failed2)
  <2> DEFINE s == states[h]
  <2>1. Good(s, time, rows, failed)
    BY <1>1, <1>2
  <2> HIDE DEF s
  <2>2. Good(s, time2, rows2, failed2)
    BY <2>1, GoodStays
  <2> QED
    BY <2>2 DEF s
<1>3. DOMAIN states = Handles
  BY DEF Wellformed
<1> QED
  BY <1>1, <1>2, <1>3 DEF Wellformed

(* Another reference count.                                                *)
LEMMA Recounted ==
    ASSUME NEW s, NEW n \in Nat, NEW time, NEW rows, NEW failed,
           Good(s, time, rows, failed)
    PROVE  LET s2 == [s EXCEPT !.refcnt = n]
           IN  /\ Good(s2, time, rows, failed)
               /\ s2.refcnt = n /\ s2.denoms = s.denoms /\ s2.sign = s.sign
PROOF
<1> DEFINE s2 == [s EXCEPT !.refcnt = n]
<1>1. DOMAIN s = Fields
  BY DEF Good
<1>2. /\ s2.refcnt = n /\ s2.denoms = s.denoms /\ s2.sign = s.sign
      /\ s2.next_reload = s.next_reload /\ s2.seen = s.seen
      /\ s2.revoked = s.revoked /\ DOMAIN s2 = Fields
  BY <1>1 DEF Fields
<1> HIDE DEF s2
<1>3. Good(s2, time, rows, failed)
  BY <1>2 DEF Good
<1> QED
  BY <1>2, <1>3 DEF s2

LEMMA DropEffect ==
    ASSUME NEW states, NEW i \in Handles \cup {None},
           NEW time, NEW rows, NEW failed,
           Wellformed(states, time, rows, failed),
           i # None => states[i].refcnt # 0
    PROVE  /\ Wellformed(Drop(states, i), time, rows, failed)
           /\ \A h \in Handles :
                 /\ Drop(states, i)[h].refcnt = states[h].refcnt - One(i, h)
                 /\ Drop(states, i)[h].refcnt # 0 =>
                      /\ Drop(states, i)[h].denoms = states[h].denoms
                      /\ Drop(states, i)[h].sign = states[h].sign
PROOF
<1> DEFINE after == Drop(states, i)
<1>0. None \notin Handles /\ DOMAIN states = Handles
  BY DEF None, Handles, Wellformed
<1>1. CASE i = None
  <2>1. after = states /\ \A h \in Handles : One(i, h) = 0
    BY <1>0, <1>1 DEF Drop, One
  <2>2. \A h \in Handles : states[h].refcnt \in Nat
    BY DEF Wellformed
  <2> QED
    BY <2>1, <2>2
<1>2. CASE i # None
  <2> DEFINE n == states[i].refcnt
  <2>1. i \in Handles /\ n \in Nat /\ n # 0 /\ Good(states[i], time, rows, failed)
    BY <1>2 DEF Wellformed
  <2>2. DOMAIN after = Handles /\ \A h \in Handles : h # i => after[h] = states[h]
    BY <1>0, <1>2 DEF Drop
  <2>3. /\ after[i].refcnt = n - 1
        /\ after[i].refcnt = 0 => after[i] = Freed
        /\ after[i].refcnt # 0 =>
             /\ Good(after[i], time, rows, failed)
             /\ after[i].denoms = states[i].denoms /\ after[i].sign = states[i].sign
    <3>1. CASE n = 1
      <4>1. after[i] = Freed
        BY <1>0, <1>2, <2>1, <3>1 DEF Drop
      <4> QED
        BY <3>1, <4>1 DEF Freed
    <3>2. CASE n # 1
      <4> DEFINE s == states[i]
      <4>1. after[i] = [s EXCEPT !.refcnt = n - 1]
        <5>1. DOMAIN s = Fields
          BY <2>1 DEF Good
        <5>2. after = [states EXCEPT ![i].refcnt = @ - 1]
          BY <1>2, <3>2 DEF Drop
        <5> QED
          BY <1>0, <2>1, <5>1, <5>2 DEF Fields
      <4>2. n - 1 \in Nat /\ n - 1 # 0
        BY <2>1, <3>2
      <4>3. Good(s, time, rows, failed)
        BY <2>1
      <4> HIDE DEF s, n
      <4>4. /\ Good([s EXCEPT !.refcnt = n - 1], time, rows, failed)
            /\ [s EXCEPT !.refcnt = n - 1].refcnt = n - 1
            /\ [s EXCEPT !.refcnt = n - 1].denoms = s.denoms
            /\ [s EXCEPT !.refcnt = n - 1].sign = s.sign
        BY ONLY <4>2, <4>3, Recounted
      <4> HIDE DEF after
      <4> QED
        BY ONLY <4>1, <4>2, <4>4 DEF s
    <3> QED
      BY <3>1, <3>2
  <2>4. \A h \in Handles : One(i, h) = IF h = i THEN 1 ELSE 0
    BY DEF One
  <2> HIDE DEF after
  <2>5. \A h \in Handles :
           /\ states[h].refcnt \in Nat
           /\ states[h].refcnt = 0 => states[h] = Freed
           /\ states[h].refcnt # 0 => Good(states[h], time, rows, failed)
    BY DEF Wellformed
  <2>6. \A h \in Handles :
           /\ after[h].refcnt \in Nat
           /\ after[h].refcnt = 0 => after[h] = Freed
           /\ after[h].refcnt # 0 => Good(after[h], time, rows, failed)
    BY <2>1, <2>2, <2>3, <2>5
  <2>7. Wellformed(after, time, rows, failed)
    BY <2>2, <2>6 DEF Wellformed
  <2>8. \A h \in Handles :
           /\ after[h].refcnt = states[h].refcnt - One(i, h)
           /\ after[h].refcnt # 0 =>
                after[h].denoms = states[h].denoms /\ after[h].sign = states[h].sign
    BY <2>2, <2>3, <2>4, <2>5
  <2> QED
    BY <2>7, <2>8 DEF after
<1> QED
  BY <1>1, <1>2

LEMMA GrabEffect ==
    ASSUME NEW states, NEW i \in Handles,
           NEW time, NEW rows, NEW failed,
           Wellformed(states, time, rows, failed), states[i].refcnt # 0
    PROVE  LET after == [states EXCEPT ![i].refcnt = @ + 1]
           IN  /\ Wellformed(after, time, rows, failed)
               /\ \A h \in Handles :
                     /\ after[h].refcnt = states[h].refcnt + One(i, h)
                     /\ states[h].refcnt # 0 =>
                          /\ after[h].denoms = states[h].denoms
                          /\ after[h].sign = states[h].sign
PROOF
<1> DEFINE after == [states EXCEPT ![i].refcnt = @ + 1]
           n == states[i].refcnt
           s == states[i]
<1>1. DOMAIN states = Handles /\ n \in Nat /\ n # 0 /\ Good(s, time, rows, failed)
  BY DEF Wellformed
<1>2. DOMAIN after = Handles /\ \A h \in Handles : h # i => after[h] = states[h]
  BY <1>1
<1>3. after[i] = [s EXCEPT !.refcnt = n + 1]
  <2>1. DOMAIN s = Fields
    BY <1>1 DEF Good
  <2> QED
    BY <1>1, <2>1 DEF Fields
<1>4. n + 1 \in Nat /\ n + 1 # 0
  BY <1>1
<1>5. /\ Good(after[i], time, rows, failed) /\ after[i].refcnt = n + 1
      /\ after[i].denoms = states[i].denoms /\ after[i].sign = states[i].sign
  <2>1. Good(s, time, rows, failed)
    BY <1>1
  <2> HIDE DEF s, n
  <2>2. /\ Good([s EXCEPT !.refcnt = n + 1], time, rows, failed)
        /\ [s EXCEPT !.refcnt = n + 1].refcnt = n + 1
        /\ [s EXCEPT !.refcnt = n + 1].denoms = s.denoms
        /\ [s EXCEPT !.refcnt = n + 1].sign = s.sign
    BY ONLY <1>4, <2>1, Recounted
  <2> HIDE DEF after
  <2> QED
    BY ONLY <1>3, <2>2 DEF s
<1>6. \A h \in Handles : One(i, h) = IF h = i THEN 1 ELSE 0
  BY DEF One
<1>7. \A h \in Handles :
         /\ states[h].refcnt \in Nat
         /\ states[h].refcnt = 0 => states[h] = Freed
         /\ states[h].refcnt # 0 => Good(states[h], time, rows, failed)
  BY DEF Wellformed
<1> HIDE DEF after
<1>8. Wellformed(after, time, rows, failed)
  <2>1. \A h \in Handles :
           /\ after[h].refcnt \in Nat
           /\ after[h].refcnt = 0 => after[h] = Freed
           /\ after[h].refcnt # 0 => Good(after[h], time, rows, failed)
    BY <1>2, <1>4, <1>5, <1>7
  <2> QED
    BY <1>2, <2>1 DEF Wellformed
<1>9. \A h \in Handles :
         /\ after[h].refcnt = states[h].refcnt + One(i, h)
         /\ states[h].refcnt # 0 =>
              after[h].denoms = states[h].denoms /\ after[h].sign = states[h].sign
  BY <1>2, <1>5, <1>6, <1>7
<1> QED
  BY <1>8, <1>9 DEF after

---------------------------------------------------------------------------
(* A new key state.                                                        *)

(* The tables and the number of failures after MakeFresh.                  *)
RowsThen == db \cup FromFiles
FaultsThen(readable) == IF readable THEN faults ELSE faults + 1

LEMMA NewSign ==
    ASSUME FilesOK, CurrentSignKeys # {}
    PROVE  /\ Max(CurrentSignKeys) \in Int /\ Max(CurrentSignKeys) < now
           /\ now < SignExpire(Max(CurrentSignKeys))
PROOF
<1>1. CurrentSignKeys \subseteq sign_files
  BY DEF CurrentSignKeys, Unexpired
<1>2. IsFiniteSet(CurrentSignKeys) /\ CurrentSignKeys \subseteq Int
  BY <1>1, FS_Subset DEF FilesOK
<1>3. Max(CurrentSignKeys) \in CurrentSignKeys
  BY <1>2, GreatestExists
<1>4. ASSUME NEW s \in CurrentSignKeys PROVE s \in Int /\ s < now /\ now < SignExpire(s)
  <2>1. s \in Int /\ now \in Int /\ s < now /\ SignExpire(s) > now
    BY <1>2 DEF CurrentSignKeys, Unexpired, FilesOK
  <2>2. SignExpire(s) \in Int
    BY <2>1, DurationsAssumption DEF SignExpire
  <2> QED
    BY <2>1, <2>2
<1> QED
  BY <1>3, <1>4

LEMMA NewReload ==
    ASSUME FilesOK, CurrentSignKeys # {}
    PROVE  /\ NextReload \in Int
           /\ NextReload <= SignExpire(Max(CurrentSignKeys))
PROOF
<1> DEFINE m == SignExpire(Max(CurrentSignKeys))
           T == {ExpireDeposit(d) : d \in FromFiles}
           f == [d \in FromFiles |-> ExpireDeposit(d)]
<1>1. m \in Int
  BY NewSign, DurationsAssumption DEF SignExpire
<1>2. IsFiniteSet(FromFiles) /\ \A d \in FromFiles : d.start \in Int
  <2>1. FromFiles \subseteq denom_files
    BY DEF FromFiles
  <2> QED
    BY <2>1, FS_Subset DEF FilesOK
<1>3. T \subseteq Int
  BY <1>2, DurationsAssumption DEF ExpireDeposit
<1>4. f \in Surjection(FromFiles, T)
  BY DEF Surjection
<1>5. IsFiniteSet({m} \cup T)
  <2> HIDE DEF f, T, m
  <2>1. IsFiniteSet(T)
    BY <1>2, <1>4, FS_Surjection
  <2>2. IsFiniteSet({m})
    BY FS_Singleton
  <2> QED
    BY <2>1, <2>2, FS_Union
<1> DEFINE U == {m} \cup T
<1>6. NextReload = Min(U)
  BY DEF NextReload
<1> HIDE DEF T, m
<1>7. U \subseteq Int /\ U # {} /\ m \in U
  BY <1>1, <1>3
<1>8. IsFiniteSet(U)
  BY <1>5
<1> HIDE DEF U
<1>9. Min(U) \in U /\ \A y \in U : Min(U) <= y
  BY ONLY <1>7, <1>8, LeastExists
<1> QED
  BY <1>6, <1>7, <1>9 DEF m

LEMMA NewStateGood ==
    ASSUME FilesOK, TablesOK, NEW readable \in BOOLEAN, Usable(Known(readable))
    PROVE  LET s == NewState(Known(readable))
           IN  /\ Good(s, now, RowsThen, FaultsThen(readable))
               /\ s.refcnt = 1 /\ s.denoms \cap revocations = {}
               /\ now < SignExpire(s.sign)
PROOF
<1> DEFINE k == Known(readable)
           s == NewState(k)
<1>1. CurrentSignKeys # {}
  BY DEF Usable
<1>2. /\ DOMAIN s = Fields /\ s.refcnt = 1
      /\ s.denoms = k \ Revoked(k) /\ s.revoked = Revoked(k)
      /\ s.sign = Max(CurrentSignKeys) /\ s.next_reload = NextReload
      /\ s.seen = published
  BY DEF NewState, Fields
<1>3. k \subseteq RowsThen
  BY DEF Known, RowsThen, FromDatabase
<1>4. published \subseteq RowsThen
  BY DEF TablesOK, RowsThen
<1>5. ASSUME FaultsThen(readable) = 0, NEW d \in published, now <= ExpireDeposit(d)
      PROVE  d \in k
  <2>1. readable
    BY <1>5 DEF FaultsThen, TablesOK
  <2>2. d \in db /\ d.start \in Int /\ now \in Int
    BY <1>5 DEF TablesOK, FilesOK
  <2>3. now <= ExpireLegal(d)
    BY <1>5, <2>2, DurationsAssumption DEF ExpireLegal, ExpireDeposit
  <2> QED
    BY <2>1, <2>2, <2>3 DEF Known, FromDatabase
<1> HIDE DEF s, k
<1>6. s.denoms \cap revocations = {} /\ s.denoms \subseteq RowsThen
  BY <1>2, <1>3 DEF Revoked
<1>7. s.denoms \cup s.revoked = k
  BY <1>2 DEF Revoked
<1>8. Good(s, now, RowsThen, FaultsThen(readable))
  <2>1. s.sign \in Int /\ s.sign < now
    BY <1>1, <1>2, NewSign
  <2>2. s.next_reload \in Int /\ s.next_reload <= SignExpire(s.sign)
    BY <1>1, <1>2, NewReload
  <2>3. s.seen \subseteq RowsThen
    BY <1>2, <1>4
  <2>4. FaultsThen(readable) = 0 =>
          \A d \in s.seen : now <= ExpireDeposit(d) => d \in s.denoms \cup s.revoked
    BY <1>2, <1>5, <1>7
  <2> QED
    BY <1>2, <1>6, <2>1, <2>2, <2>3, <2>4 DEF Good
<1>9. now < SignExpire(s.sign)
  BY <1>1, <1>2, NewSign
<1> QED
  BY <1>2, <1>6, <1>8, <1>9 DEF s, k

LEMMA FreshEffect ==
    ASSUME FilesOK, TablesOK, HandlesOK, Wellformed(ks, now, db, faults),
           Counted(ks, held, internal, fs), NEW readable \in BOOLEAN
    PROVE  LET f == Fresh(readable)
               after == WithFresh(readable)
           IN  /\ f \in Handles \cup {None}
               /\ Wellformed(after, now, RowsThen, FaultsThen(readable))
               /\ \A h \in Handles :
                     /\ after[h].refcnt = ks[h].refcnt + One(f, h)
                     /\ ks[h].refcnt # 0 => after[h] = ks[h]
               /\ f # None =>
                     /\ after[f].refcnt = 1
                     /\ after[f].denoms \cap revocations = {}
                     /\ after[f].sign < now /\ now < SignExpire(after[f].sign)
PROOF
<1> DEFINE f == Fresh(readable)
           after == WithFresh(readable)
           k == Known(readable)
           s == NewState(k)
           rows == RowsThen
           failed == FaultsThen(readable)
<1>0. None \notin Handles
  BY DEF None, Handles
<1>1. Wellformed(ks, now, rows, failed)
  <2>1. /\ now \in Int /\ faults \in Nat /\ db \subseteq rows
        /\ \A d \in db : d.start \in Int
    BY DEF FilesOK, TablesOK, RowsThen
  <2>2. failed \in Nat /\ faults <= failed /\ now <= now
    BY <2>1 DEF FaultsThen
  <2> HIDE DEF rows, failed
  <2> QED
    BY <2>1, <2>2, WellformedStays
<1>2. \A h \in Handles : ks[h].refcnt \in Nat
  BY DEF Wellformed
<1>3. CASE ~Usable(k)
  <2>1. f = None /\ after = ks
    BY <1>3 DEF Fresh, WithFresh
  <2>2. \A h \in Handles : One(f, h) = 0
    BY <1>0, <2>1 DEF One
  <2> HIDE DEF f, after, rows, failed
  <2>3. \A h \in Handles :
           after[h].refcnt = ks[h].refcnt + One(f, h) /\ after[h] = ks[h]
    BY <1>2, <2>1, <2>2
  <2> QED
    BY <1>1, <2>1, <2>3 DEF f, after, rows, failed
<1>4. CASE Usable(k)
  <2>1. FreeHandle \in Handles /\ ks[FreeHandle] = Freed
    BY HandleIsFree
  <2>2. /\ Good(s, now, rows, failed) /\ s.refcnt = 1
        /\ s.denoms \cap revocations = {} /\ now < SignExpire(s.sign)
    BY <1>4, NewStateGood
  <2>3. f = FreeHandle /\ after = [ks EXCEPT ![f] = s]
    BY <1>4 DEF Fresh, WithFresh
  <2>4. f \in Handles /\ ks[f].refcnt = 0
    BY <2>1, <2>3 DEF Freed
  <2> HIDE DEF f, s, rows, failed
  <2>5. /\ DOMAIN after = Handles /\ after[f] = s
        /\ \A h \in Handles : h # f => after[h] = ks[h]
    BY <2>3, <2>4, <1>1 DEF Wellformed
  <2> HIDE DEF after
  <2>6. \A h \in Handles : One(f, h) = IF h = f THEN 1 ELSE 0
    BY DEF One
  <2>7. Wellformed(after, now, rows, failed)
    <3>1. \A h \in Handles :
             /\ ks[h].refcnt \in Nat
             /\ ks[h].refcnt = 0 => ks[h] = Freed
             /\ ks[h].refcnt # 0 => Good(ks[h], now, rows, failed)
      BY <1>1 DEF Wellformed
    <3>2. \A h \in Handles :
             /\ after[h].refcnt \in Nat
             /\ after[h].refcnt = 0 => after[h] = Freed
             /\ after[h].refcnt # 0 => Good(after[h], now, rows, failed)
      BY <2>2, <2>5, <3>1
    <3> QED
      BY <2>5, <3>2 DEF Wellformed
  <2>8. \A h \in Handles :
           /\ after[h].refcnt = ks[h].refcnt + One(f, h)
           /\ ks[h].refcnt # 0 => after[h] = ks[h]
    BY <1>2, <2>2, <2>4, <2>5, <2>6
  <2>9. /\ after[f].refcnt = 1 /\ after[f].denoms \cap revocations = {}
        /\ after[f].sign < now /\ now < SignExpire(after[f].sign)
    BY <2>2, <2>5 DEF Good
  <2> QED
    BY <2>4, <2>7, <2>8, <2>9 DEF f, after, rows, failed
<1> QED
  BY <1>3, <1>4

---------------------------------------------------------------------------
(* Every step preserves the invariant.                                     *)

LEMMA InitIndInv ==
    ASSUME KeysInit
    PROVE  IndInv
PROOF
<1>0. None \notin Handles /\ 1 \in Handles
  <2>1. Cardinality(Threads) \in Nat
    BY ServerAssumption, FS_CardinalityType
  <2> QED
    BY <2>1 DEF None, Handles
<1>1. CurrentSignKeys = {1}
  <2>1. SignExpire(1) > 2
    BY DurationsAssumption DEF SignExpire
  <2> QED
    BY <2>1 DEF KeysInit, CurrentSignKeys, Unexpired
<1>2. FilesOK
  <2>1. IsFiniteSet({1}) /\ IsFiniteSet({[start |-> 1, gen |-> 0]})
    BY FS_Singleton
  <2> QED
    BY <2>1 DEF KeysInit, FilesOK
<1>3. FromFiles \subseteq denom_files
  BY DEF FromFiles
<1>4. TablesOK
  BY <1>2, <1>3 DEF TablesOK, KeysInit, FilesOK
<1>5. SignalsOK
  BY DEF SignalsOK, KeysInit
<1>6. HandlesOK
  BY <1>0 DEF HandlesOK, KeysInit
<1> DEFINE s == NewState(FromFiles)
<1>7. /\ DOMAIN s = Fields /\ s.refcnt = 1 /\ s.denoms \subseteq FromFiles
      /\ s.denoms \cup s.revoked = FromFiles
      /\ s.sign = Max(CurrentSignKeys) /\ s.next_reload = NextReload
      /\ s.seen = published
  BY DEF NewState, Fields, Revoked
<1> HIDE DEF s
<1>8. Good(s, now, db, faults)
  <2>1. CurrentSignKeys # {}
    BY <1>1
  <2>2. s.sign \in Int /\ s.sign < now
    BY <1>2, <1>7, <2>1, NewSign
  <2>3. s.next_reload \in Int /\ s.next_reload <= SignExpire(s.sign)
    BY <1>2, <1>7, <2>1, NewReload
  <2>4. db = FromFiles /\ published = FromFiles
    BY DEF KeysInit
  <2> QED
    BY <1>7, <2>2, <2>3, <2>4 DEF Good
<1>9. ks = [h \in Handles |-> IF h = 1 THEN s ELSE Freed]
  BY DEF KeysInit, s
<1>10. Wellformed(ks, now, db, faults)
  <2>1. DOMAIN ks = Handles /\ \A h \in Handles : ks[h] = IF h = 1 THEN s ELSE Freed
    BY <1>9
  <2>2. Freed.refcnt = 0
    BY DEF Freed
  <2> HIDE DEF Freed
  <2> QED
    BY <1>7, <1>8, <2>1, <2>2 DEF Wellformed
<1>11. Counted(ks, held, internal, fs)
  <2>1. ASSUME NEW h \in Handles
        PROVE  ks[h].refcnt = Uses(held, h) + One(internal, h) + One(fs, h)
    <3>1. {t \in Threads : held[t] = h} = {}
      BY <1>0 DEF KeysInit
    <3>2. Uses(held, h) = 0
      BY <3>1, FS_EmptySet DEF Uses
    <3>3. One(fs, h) = 0 /\ One(internal, h) = IF h = 1 THEN 1 ELSE 0
      BY <1>0 DEF KeysInit, One
    <3>4. ks[h].refcnt = IF h = 1 THEN 1 ELSE 0
      BY <1>7, <1>9 DEF Freed
    <3> QED
      BY <3>2, <3>3, <3>4
  <2> QED
    BY <2>1 DEF Counted
<1>12. RevocationOK
  BY DEF KeysInit, RevocationOK, RevocationHolds
<1> QED
  BY <1>2, <1>4, <1>5, <1>6, <1>10, <1>11, <1>12 DEF IndInv

(* A handle that somebody refers to is not free.                           *)
LEMMA InUse ==
    ASSUME IndInv, NEW h \in Handles,
           h = internal \/ h = fs \/ \E t \in Threads : held[t] = h
    PROVE  ks[h].refcnt # 0
PROOF
<1>1. ks[h].refcnt = Uses(held, h) + One(internal, h) + One(fs, h)
  BY DEF IndInv, Counted
<1>2. Uses(held, h) \in Nat
  BY UsesType
<1>3. One(internal, h) \in {0, 1} /\ One(fs, h) \in {0, 1}
  BY DEF One
<1>4. h = internal => One(internal, h) = 1
  BY DEF One
<1>5. h = fs => One(fs, h) = 1
  BY DEF One
<1>6. (\E t \in Threads : held[t] = h) => Uses(held, h) # 0
  <2>1. (\E t \in Threads : held[t] = h) => {t \in Threads : held[t] = h} # {}
    OBVIOUS
  <2>2. IsFiniteSet({t \in Threads : held[t] = h})
    BY UsesType
  <2> QED
    BY <2>1, <2>2, FS_EmptySet DEF Uses
<1> QED
  BY <1>1, <1>2, <1>3, <1>4, <1>5, <1>6

LEMMA SignalsStep ==
    ASSUME SignalsOK, revocations \subseteq revocations',
           effective' \subseteq effective \cup pending,
           \/ pending' = pending
           \/ pipe # <<>> /\ pending' = Head(pipe).rev,
           \/ pipe' = pipe
           \/ pipe' = <<>>
           \/ pipe # <<>> /\ pipe' = Tail(pipe)
           \/ \E sig \in {"USR1", "TERM"} : pipe' = Append(pipe, Signal(sig))
    PROVE  SignalsOK'
PROOF
<1> DEFINE S == [sig : {"USR1", "TERM"}, rev : SUBSET revocations]
<1>1. pipe \in Seq(S)
  BY DEF SignalsOK
<1>2. \A sig \in {"USR1", "TERM"} : Signal(sig) \in S
  BY DEF Signal
<1>3. pipe # <<>> => Head(pipe) \in S /\ Tail(pipe) \in Seq(S)
  <2> HIDE DEF S
  <2> QED
    BY <1>1
<1>4. pipe' \in Seq(S)
  <2> HIDE DEF S
  <2>1. CASE pipe' = <<>>
    BY <2>1
  <2>2. ASSUME NEW sig \in {"USR1", "TERM"}, pipe' = Append(pipe, Signal(sig))
        PROVE  pipe' \in Seq(S)
    <3>1. Signal(sig) \in S
      BY <1>2
    <3> HIDE DEF Signal
    <3> QED
      BY <1>1, <2>2, <3>1
  <2> QED
    BY <1>1, <1>3, <2>1, <2>2
<1>5. pipe # <<>> => Head(pipe).rev \subseteq revocations
  BY <1>3
<1>6. pending' \subseteq revocations' /\ effective' \subseteq revocations'
  BY <1>5 DEF SignalsOK
<1> DEFINE T == [sig : {"USR1", "TERM"}, rev : SUBSET (revocations')]
<1>7. S \subseteq T
  OBVIOUS
<1>8. pipe' \in Seq(T) /\ Len(pipe') \in Nat
  <2> HIDE DEF S, T
  <2> QED
    BY <1>4, <1>7
<1> QED
  BY <1>6, <1>8 DEF SignalsOK

(* The directories are read and the keys stored.                           *)
LEMMA MakeFreshTables ==
    ASSUME FilesOK, TablesOK, NEW readable \in BOOLEAN, MakeFresh(readable)
    PROVE  /\ FilesOK' /\ now' = now /\ revocations' = revocations
           /\ db' = RowsThen /\ faults' = FaultsThen(readable) /\ faults' \in Nat
           /\ \A d \in RowsThen : d.start \in Int
PROOF
<1>1. ReadDirectories /\ now' = now /\ revocations' = revocations
  BY DEF MakeFresh, ReadDirectories
<1>2. db' = RowsThen /\ faults' = FaultsThen(readable)
  BY DEF MakeFresh, StoreKeys, InsertDenominationInfo, RowsThen, FaultsThen
<1>3. \A d \in RowsThen : d.start \in Int
  BY DEF RowsThen, TablesOK, FilesOK, FromFiles
<1>4. FaultsThen(readable) \in Nat
  BY DEF FaultsThen, TablesOK
<1> QED
  BY <1>1, <1>2, <1>3, <1>4, FilesRead

LEMMA AcquireStep ==
    ASSUME IndInv, NEW t \in Threads, Acquire(t)
    PROVE  /\ IndInv'
           /\ ks'[held'[t]].sign < now /\ now < SignExpire(ks'[held'[t]].sign)
PROOF
<1> USE DEF IndInv
<1> DEFINE i == internal
<1>0. None \notin Handles
  BY DEF None, Handles
<1>1. /\ i \in Handles /\ ks[i].next_reload > now
      /\ held[t] = None
      /\ held' = [held EXCEPT ![t] = i]
      /\ ks' = [ks EXCEPT ![i].refcnt = @ + 1]
      /\ UNCHANGED <<fileVars, db, db_revoked, internal, pipe, loop, fs, pending,
                     effective, published, faults>>
  <2>1. i # None
    BY DEF Acquire, TooOld
  <2>2. i \in Handles
    BY <2>1 DEF HandlesOK
  <2>3. ~(ks[i].next_reload <= now)
    BY DEF Acquire, TooOld
  <2>4. ks[i].refcnt # 0
    BY <2>2, InUse
  <2>5. Good(ks[i], now, db, faults)
    BY <2>2, <2>4 DEF Wellformed
  <2>6. ks[i].next_reload > now
    BY <2>3, <2>5 DEF Good, FilesOK
  <2> QED
    BY <2>1, <2>2, <2>6 DEF Acquire, Grab
<1>2. ks[i].refcnt # 0
  BY <1>1, InUse
<1>3. Good(ks[i], now, db, faults)
  BY <1>1, <1>2 DEF Wellformed
<1> DEFINE after == [ks EXCEPT ![i].refcnt = @ + 1]
<1>4. /\ Wellformed(after, now, db, faults)
      /\ \A h \in Handles :
            /\ after[h].refcnt = ks[h].refcnt + One(i, h)
            /\ ks[h].refcnt # 0 =>
                 after[h].denoms = ks[h].denoms /\ after[h].sign = ks[h].sign
  <2>1. Wellformed(ks, now, db, faults)
    OBVIOUS
  <2>2. i \in Handles
    BY <1>1
  <2> HIDE DEF i, IndInv
  <2> QED
    BY ONLY <1>2, <2>1, <2>2, GrabEffect
<1>a. ks' = after
  BY <1>1
<1> HIDE DEF after
<1>5. \A h \in Handles : ks[h].refcnt = Uses(held, h) + One(i, h) + One(fs, h)
  BY DEF Counted
<1>6. \A h \in Handles : Uses(held', h) = Uses(held, h) + One(i, h)
  <2>1. ASSUME NEW h \in Handles
        PROVE  Uses(held', h) = Uses(held, h) + One(i, h)
    <3>a. Moves(held, held', t, i)
      BY <1>0, <1>1 DEF HandlesOK, Moves
    <3>1. Uses(held', h) = Uses(held, h) - One(held[t], h) + One(i, h)
      <4> HIDE DEF i
      <4> QED
        BY ONLY <3>a, UsesChange
    <3>2. One(held[t], h) = 0 /\ One(i, h) \in Nat
      BY <1>0, <1>1 DEF One
    <3>3. Uses(held, h) \in Nat
      BY UsesType
    <3> QED
      BY <1>1, <3>1, <3>2, <3>3
  <2> QED
    BY <2>1
<1>7. Counted(ks', held', internal', fs')
  <2>1. \A h \in Handles : Uses(held, h) \in Nat /\ One(i, h) \in Nat /\ One(fs, h) \in Nat
    BY UsesType DEF One
  <2>2. \A h \in Handles : ks'[h].refcnt = Uses(held', h) + One(i, h) + One(fs, h)
    BY <1>4, <1>5, <1>6, <1>a, <2>1
  <2> QED
    BY <1>1, <2>2 DEF Counted
<1>8. RevocationOK'
  <2>1. i # None => ks'[i].denoms = ks[i].denoms
    BY <1>1, <1>2, <1>4, <1>a
  <2>2. fs # None => ks'[fs].denoms = ks[fs].denoms
    <3>1. ASSUME fs # None PROVE fs \in Handles /\ ks[fs].refcnt # 0
      <4>1. fs \in Handles
        BY <3>1 DEF HandlesOK
      <4> QED
        BY <4>1, InUse
    <3> QED
      BY <1>4, <1>a, <3>1
  <2> QED
    BY <1>1, <2>1, <2>2 DEF RevocationOK, RevocationHolds
<1>9. HandlesOK'
  BY <1>1 DEF HandlesOK
<1>10. FilesOK' /\ TablesOK' /\ SignalsOK'
  BY <1>1 DEF FilesOK, TablesOK, SignalsOK, fileVars
<1>11. Wellformed(ks', now', db', faults')
  BY <1>1, <1>4, <1>a DEF fileVars
<1>12. ks'[held'[t]].sign < now /\ now < SignExpire(ks'[held'[t]].sign)
  <2>1. held'[t] = i /\ ks'[i].sign = ks[i].sign
    BY <1>1, <1>2, <1>4, <1>a DEF HandlesOK
  <2>2. /\ now \in Int /\ ks[i].sign \in Int /\ ks[i].sign < now
        /\ ks[i].next_reload \in Int /\ ks[i].next_reload <= SignExpire(ks[i].sign)
    BY <1>3 DEF Good, FilesOK
  <2>3. SignExpire(ks[i].sign) \in Int
    BY <2>2, DurationsAssumption DEF SignExpire
  <2> QED
    BY <1>1, <2>1, <2>2, <2>3
<1> QED
  BY <1>7, <1>8, <1>9, <1>10, <1>11, <1>12

(* Steps that only drop internal_key_state.                                *)
LEMMA InternalDropped ==
    ASSUME IndInv
    PROVE  LET after == Drop(ks, internal)
           IN  /\ Wellformed(after, now, db, faults)
               /\ \A h \in Handles : after[h].refcnt = Uses(held, h) + One(fs, h)
               /\ fs # None => after[fs].denoms = ks[fs].denoms
PROOF
<1> USE DEF IndInv
<1> DEFINE after == Drop(ks, internal)
<1>1. internal \in Handles \cup {None} /\ fs \in Handles \cup {None}
  BY DEF HandlesOK
<1>2. internal # None => ks[internal].refcnt # 0
  BY <1>1, InUse
<1>3. /\ Wellformed(after, now, db, faults)
      /\ \A h \in Handles :
            /\ after[h].refcnt = ks[h].refcnt - One(internal, h)
            /\ after[h].refcnt # 0 =>
                 after[h].denoms = ks[h].denoms /\ after[h].sign = ks[h].sign
  <2>1. Wellformed(ks, now, db, faults)
    OBVIOUS
  <2> HIDE DEF IndInv
  <2> QED
    BY ONLY <1>1, <1>2, <2>1, DropEffect
<1> HIDE DEF after
<1>4. \A h \in Handles : ks[h].refcnt = Uses(held, h) + One(internal, h) + One(fs, h)
  BY DEF Counted
<1>5. \A h \in Handles :
         Uses(held, h) \in Nat /\ One(internal, h) \in Nat /\ One(fs, h) \in Nat
  BY UsesType DEF One
<1>6. \A h \in Handles : after[h].refcnt = Uses(held, h) + One(fs, h)
  BY <1>3, <1>4, <1>5
<1>7. fs # None => after[fs].denoms = ks[fs].denoms
  <2>1. One(fs, fs) = 1
    BY DEF One
  <2> QED
    BY <1>1, <1>3, <1>5, <1>6, <2>1
<1> QED
  BY <1>3, <1>6, <1>7 DEF after

LEMMA ReloadsStep ==
    ASSUME IndInv, NEW t \in Threads, AcquireReloads(t)
    PROVE  /\ IndInv'
           /\ held'[t] # None =>
                ks'[held'[t]].sign < now /\ now < SignExpire(ks'[held'[t]].sign)
PROOF
<1> USE DEF IndInv
<1>0. None \notin Handles
  BY DEF None, Handles
<1>1. PICK readable \in Readings :
         /\ MakeFresh(readable)
         /\ internal' = Fresh(readable)
         /\ Publish(WithFresh(readable), Fresh(readable))
         /\ Grab(t, Fresh(readable), Drop(WithFresh(readable), internal))
  BY DEF AcquireReloads
<1>2. readable \in BOOLEAN
  BY DEF Readings
<1>3. /\ FilesOK' /\ now' = now /\ revocations' = revocations
      /\ db' = RowsThen /\ faults' = FaultsThen(readable) /\ faults' \in Nat
      /\ \A d \in RowsThen : d.start \in Int
  BY <1>1, <1>2, MakeFreshTables
<1>4. held[t] = None /\ loop # "exited" /\ UNCHANGED <<pipe, loop, fs, pending, effective>>
  BY DEF AcquireReloads, Serving
<1> DEFINE i == internal
           f == Fresh(readable)
           s1 == WithFresh(readable)
           s2 == Drop(s1, i)
           rows == RowsThen
           failed == FaultsThen(readable)
<1>5. /\ f \in Handles \cup {None}
      /\ Wellformed(s1, now, rows, failed)
      /\ \A h \in Handles :
            /\ s1[h].refcnt = ks[h].refcnt + One(f, h)
            /\ ks[h].refcnt # 0 => s1[h] = ks[h]
      /\ f # None =>
            /\ s1[f].refcnt = 1
            /\ s1[f].denoms \cap revocations = {}
            /\ s1[f].sign < now /\ now < SignExpire(s1[f].sign)
  BY <1>2, FreshEffect
<1>a. internal' = f /\ Publish(s1, f) /\ Grab(t, f, s2)
  BY <1>1
<1> HIDE DEF f, s1, rows, failed
<1>6. i \in Handles \cup {None} /\ fs \in Handles \cup {None}
  BY DEF HandlesOK
<1>7. i # None => ks[i].refcnt # 0 /\ s1[i].refcnt # 0
  <2>1. i # None => i \in Handles /\ ks[i].refcnt # 0
    BY <1>6, InUse
  <2> QED
    BY <1>5, <2>1
<1>8. /\ Wellformed(s2, now, rows, failed)
      /\ \A h \in Handles :
            /\ s2[h].refcnt = s1[h].refcnt - One(i, h)
            /\ s2[h].refcnt # 0 =>
                 s2[h].denoms = s1[h].denoms /\ s2[h].sign = s1[h].sign
  <2> HIDE DEF i, IndInv
  <2> QED
    BY ONLY <1>5, <1>6, <1>7, DropEffect
<1> HIDE DEF s2
<1>9. \A h \in Handles : ks[h].refcnt = Uses(held, h) + One(i, h) + One(fs, h)
  BY DEF Counted
<1>10. \A h \in Handles : /\ Uses(held, h) \in Nat
                          /\ One(i, h) \in Nat /\ One(fs, h) \in Nat /\ One(f, h) \in Nat
  BY UsesType DEF One
<1>11. \A h \in Handles : s2[h].refcnt = Uses(held, h) + One(fs, h) + One(f, h)
  BY <1>5, <1>8, <1>9, <1>10
<1>12. fs # None => s2[fs].refcnt # 0 /\ s2[fs].denoms = ks[fs].denoms
  <2>1. One(fs, fs) = 1
    BY DEF One
  <2>2. fs # None => fs \in Handles /\ ks[fs].refcnt # 0
    BY <1>6, InUse
  <2>3. fs # None => s2[fs].refcnt # 0 /\ s1[fs] = ks[fs]
    BY <1>5, <1>10, <1>11, <2>1, <2>2
  <2> QED
    BY <1>8, <2>2, <2>3
<1>13. f # None => /\ s2[f].refcnt # 0 /\ s2[f].denoms = s1[f].denoms
                   /\ s2[f].sign = s1[f].sign
  <2>1. One(f, f) = 1
    BY DEF One
  <2> QED
    BY <1>5, <1>8, <1>10, <1>11, <2>1
<1>14. TablesOK'
  <2>1. f # None => s1[f].denoms \subseteq rows
    BY <1>5 DEF Wellformed, Good
  <2>2. published' \subseteq rows
    BY <1>a, <2>1 DEF Publish, TablesOK, rows, RowsThen
  <2> QED
    BY <1>3, <2>2 DEF TablesOK, rows
<1>15. SignalsOK'
  BY <1>3, <1>4, SignalsStep
<1>16. CASE f = None
  <2>1. held' = held /\ ks' = s2 /\ internal' = None
    BY <1>a, <1>16 DEF Grab
  <2>2. Wellformed(ks', now', db', faults')
    BY <1>3, <1>8, <2>1 DEF rows, failed
  <2>3. \A h \in Handles : One(internal', h) = 0 /\ One(f, h) = 0
    BY <1>0, <1>16, <2>1 DEF One
  <2>4. Counted(ks', held', internal', fs')
    <3>1. \A h \in Handles :
             ks'[h].refcnt = Uses(held', h) + One(internal', h) + One(fs', h)
      BY <1>4, <1>10, <1>11, <2>1, <2>3
    <3> QED
      BY <3>1 DEF Counted
  <2>5. RevocationOK'
    BY <1>4, <1>12, <2>1 DEF RevocationOK, RevocationHolds
  <2>6. HandlesOK'
    BY <1>4, <2>1 DEF HandlesOK
  <2>7. held'[t] = None
    BY <1>4, <2>1
  <2> QED
    BY <1>3, <1>14, <1>15, <2>2, <2>4, <2>5, <2>6, <2>7
<1>17. CASE f # None
  <2>1. /\ held' = [held EXCEPT ![t] = f] /\ internal' = f
        /\ ks' = [s2 EXCEPT ![f].refcnt = @ + 1]
    BY <1>a, <1>17 DEF Grab
  <2>2. f \in Handles /\ s2[f].refcnt # 0
    BY <1>5, <1>13, <1>17
  <2> DEFINE s3 == [s2 EXCEPT ![f].refcnt = @ + 1]
  <2>3. /\ Wellformed(s3, now, rows, failed)
        /\ \A h \in Handles :
              /\ s3[h].refcnt = s2[h].refcnt + One(f, h)
              /\ s2[h].refcnt # 0 =>
                   s3[h].denoms = s2[h].denoms /\ s3[h].sign = s2[h].sign
    <3> HIDE DEF IndInv
    <3> QED
      BY ONLY <1>8, <2>2, GrabEffect
  <2>4. ks' = s3
    BY <2>1
  <2> HIDE DEF s3
  <2>5. Wellformed(ks', now', db', faults')
    BY <1>3, <2>3, <2>4 DEF rows, failed
  <2>6. \A h \in Handles : Uses(held', h) = Uses(held, h) + One(f, h)
    <3>1. ASSUME NEW h \in Handles
          PROVE  Uses(held', h) = Uses(held, h) + One(f, h)
      <4>1. Moves(held, held', t, f)
        BY <1>0, <1>4, <2>1, <2>2 DEF HandlesOK, Moves
      <4>2. Uses(held', h) = Uses(held, h) - One(held[t], h) + One(f, h)
        BY ONLY <4>1, UsesChange
      <4>3. One(held[t], h) = 0
        BY <1>0, <1>4 DEF One
      <4> QED
        BY <1>10, <4>2, <4>3
    <3> QED
      BY <3>1
  <2>7. Counted(ks', held', internal', fs')
    <3>1. \A h \in Handles :
             ks'[h].refcnt = Uses(held', h) + One(f, h) + One(fs, h)
      BY <1>10, <1>11, <2>3, <2>4, <2>6
    <3> QED
      BY <1>4, <2>1, <3>1 DEF Counted
  <2>8. RevocationOK'
    <3>1. ks'[f].denoms \cap revocations = {}
      BY <1>5, <1>13, <1>17, <2>2, <2>3, <2>4
    <3>2. fs # None => ks'[fs].denoms = ks[fs].denoms
      BY <1>6, <1>12, <2>3, <2>4
    <3>3. effective \subseteq revocations
      BY DEF SignalsOK
    <3> QED
      BY <1>4, <2>1, <3>1, <3>2, <3>3 DEF RevocationOK, RevocationHolds
  <2>9. HandlesOK'
    BY <1>4, <2>1, <2>2 DEF HandlesOK
  <2>10. ks'[held'[t]].sign < now /\ now < SignExpire(ks'[held'[t]].sign)
    <3>1. held'[t] = f
      BY <2>1 DEF HandlesOK
    <3> QED
      BY <1>5, <1>13, <1>17, <2>2, <2>3, <2>4, <3>1
  <2> QED
    BY <1>3, <1>14, <1>15, <2>5, <2>7, <2>8, <2>9, <2>10
<1> QED
  BY <1>16, <1>17

(* What a step that leaves key states alone keeps.                         *)
LEMMA StatesKept ==
    ASSUME IndInv, FilesOK', db' = db, faults' \in Nat, faults <= faults', now <= now',
           UNCHANGED <<ks, internal, held, fs, published>>
    PROVE  /\ TablesOK' /\ Wellformed(ks', now', db', faults')
           /\ Counted(ks', held', internal', fs')
PROOF
<1> USE DEF IndInv
<1>1. /\ now \in Int /\ now' \in Int /\ faults \in Nat
      /\ \A d \in db : d.start \in Int
  BY DEF FilesOK, TablesOK
<1>2. TablesOK'
  BY DEF TablesOK
<1>3. Wellformed(ks, now', db, faults')
  <2>1. Wellformed(ks, now, db, faults) /\ db \subseteq db
    OBVIOUS
  <2> HIDE DEF IndInv
  <2> QED
    BY <1>1, <2>1, WellformedStays
<1> QED
  BY <1>2, <1>3

LEMMA FailsTables ==
    ASSUME FilesOK, TablesOK, MakeFreshFails
    PROVE  /\ FilesOK' /\ now' = now /\ now <= now' /\ revocations' = revocations
           /\ db' = db /\ faults' = faults + 1 /\ faults' \in Nat /\ faults <= faults'
PROOF
<1>1. FilesOK'
  BY FilesRead DEF MakeFreshFails
<1> QED
  BY <1>1 DEF MakeFreshFails, ReadDirectories, FilesOK, TablesOK

LEMMA AcquireFailsStep ==
    ASSUME IndInv, NEW t \in Threads, AcquireFails(t)
    PROVE  IndInv'
PROOF
<1> USE DEF IndInv
<1>0. None \notin Handles
  BY DEF None, Handles
<1>1. /\ internal' = None /\ ks' = Drop(ks, internal) /\ loop # "exited"
      /\ pipe' = Append(pipe, Signal("TERM"))
      /\ UNCHANGED <<held, loop, fs, pending, effective, published>>
  BY DEF AcquireFails, Serving
<1>2. /\ FilesOK' /\ now' = now /\ now <= now' /\ revocations' = revocations
      /\ db' = db /\ faults' = faults + 1 /\ faults' \in Nat /\ faults <= faults'
  BY FailsTables DEF AcquireFails
<1>3. SignalsOK'
  BY <1>1, <1>2, SignalsStep
<1>4. /\ Wellformed(ks', now, db, faults)
      /\ \A h \in Handles : ks'[h].refcnt = Uses(held, h) + One(fs, h)
      /\ fs # None => ks'[fs].denoms = ks[fs].denoms
  BY <1>1, InternalDropped
<1>5. Wellformed(ks', now', db', faults')
  <2>1. /\ now \in Int /\ faults \in Nat /\ \A d \in db : d.start \in Int
        /\ db \subseteq db /\ now <= now
    BY DEF FilesOK, TablesOK
  <2> DEFINE g == faults'
             s == ks'
  <2>2. g \in Nat /\ faults <= g /\ Wellformed(s, now, db, faults)
    BY <1>2, <1>4
  <2> HIDE DEF g, s, IndInv
  <2>3. Wellformed(s, now, db, g)
    BY <2>1, <2>2, WellformedStays
  <2> QED
    BY <1>2, <2>3 DEF g, s
<1>6. Counted(ks', held', internal', fs')
  <2>1. \A h \in Handles : One(internal', h) = 0 /\ Uses(held, h) \in Nat /\ One(fs, h) \in Nat
    BY <1>0, <1>1, UsesType DEF One
  <2>2. \A h \in Handles : ks'[h].refcnt = Uses(held', h) + One(internal', h) + One(fs', h)
    BY <1>1, <1>4, <2>1
  <2> QED
    BY <2>2 DEF Counted
<1>7. RevocationOK' /\ HandlesOK' /\ TablesOK'
  BY <1>1, <1>2, <1>4 DEF RevocationOK, RevocationHolds, HandlesOK, TablesOK
<1> QED
  BY <1>2, <1>3, <1>5, <1>6, <1>7

LEMMA ReleaseStep ==
    ASSUME IndInv, NEW t \in Threads, Release(t)
    PROVE  IndInv' /\ held'[t] = None
PROOF
<1> USE DEF IndInv
<1>0. None \notin Handles
  BY DEF None, Handles
<1> DEFINE i == held[t]
           after == Drop(ks, i)
<1>1. /\ i # None /\ ks' = after /\ held' = [held EXCEPT ![t] = None]
      /\ UNCHANGED <<fileVars, db, db_revoked, internal, pipe, loop, fs, pending,
                     effective, published, faults>>
  BY DEF Release
<1>2. i \in Handles /\ i \in Handles \cup {None}
  BY <1>1 DEF HandlesOK
<1>3. ks[i].refcnt # 0
  BY <1>2, InUse
<1>4. /\ Wellformed(after, now, db, faults)
      /\ \A h \in Handles :
            /\ after[h].refcnt = ks[h].refcnt - One(i, h)
            /\ after[h].refcnt # 0 =>
                 after[h].denoms = ks[h].denoms /\ after[h].sign = ks[h].sign
  <2>1. Wellformed(ks, now, db, faults)
    OBVIOUS
  <2> HIDE DEF IndInv, i
  <2> QED
    BY ONLY <1>2, <1>3, <2>1, DropEffect
<1>5. \A h \in Handles : ks[h].refcnt = Uses(held, h) + One(internal, h) + One(fs, h)
  BY DEF Counted
<1>6. \A h \in Handles : /\ Uses(held, h) \in Nat /\ Uses(held', h) \in Nat
                         /\ One(i, h) \in Nat
                         /\ One(fs, h) \in Nat /\ One(internal, h) \in Nat
  BY UsesType DEF One
<1> HIDE DEF after
<1>7. \A h \in Handles : Uses(held', h) = Uses(held, h) - One(i, h)
  <2>1. ASSUME NEW h \in Handles
        PROVE  Uses(held', h) = Uses(held, h) - One(i, h)
    <3>1. Moves(held, held', t, None)
      BY <1>0, <1>1 DEF HandlesOK, Moves
    <3>2. Uses(held', h) = Uses(held, h) - One(held[t], h) + One(None, h)
      BY ONLY <3>1, UsesChange
    <3>3. One(None, h) = 0
      BY <1>0 DEF One
    <3> QED
      BY <1>6, <3>2, <3>3
  <2> QED
    BY <2>1
<1>8. \A h \in Handles : after[h].refcnt = Uses(held', h) + One(internal, h) + One(fs, h)
  <2> HIDE DEF i
  <2> QED
    BY ONLY <1>4, <1>5, <1>6, <1>7
<1>9. Counted(ks', held', internal', fs')
  BY <1>1, <1>8 DEF Counted
<1>10. ASSUME NEW h \in Handles, h = internal \/ h = fs
       PROVE  ks'[h].denoms = ks[h].denoms
  <2>1. h = internal => One(internal, h) = 1
    BY DEF One
  <2>2. h = fs => One(fs, h) = 1
    BY DEF One
  <2>3. after[h].refcnt # 0
    BY ONLY h \in Handles, <1>6, <1>8, <1>10, <2>1, <2>2
  <2> QED
    BY <1>1, <1>4, <2>3
<1>11. RevocationOK'
  <2>1. internal # None => ks'[internal].denoms = ks[internal].denoms
    BY <1>10 DEF HandlesOK
  <2>2. fs # None => ks'[fs].denoms = ks[fs].denoms
    BY <1>10 DEF HandlesOK
  <2> QED
    BY <1>1, <2>1, <2>2 DEF RevocationOK, RevocationHolds
<1>12. HandlesOK' /\ held'[t] = None
  BY <1>1 DEF HandlesOK
<1>13. FilesOK' /\ TablesOK' /\ SignalsOK'
  BY <1>1 DEF FilesOK, TablesOK, SignalsOK, fileVars
<1>14. Wellformed(ks', now', db', faults')
  BY <1>1, <1>4 DEF fileVars
<1> QED
  BY <1>9, <1>11, <1>12, <1>13, <1>14

LEMMA InstallStep ==
    ASSUME IndInv, Install
    PROVE  IndInv'
PROOF
<1> USE DEF IndInv
<1>0. None \notin Handles
  BY DEF None, Handles
<1>1. /\ internal' = fs /\ ks' = Drop(ks, internal) /\ fs' = None /\ loop' = "read"
      /\ effective' = effective \cup pending /\ Publish(ks, fs)
      /\ UNCHANGED <<fileVars, db, db_revoked, held, pipe, pending, faults>>
  BY DEF Install
<1>2. /\ Wellformed(ks', now, db, faults)
      /\ \A h \in Handles : ks'[h].refcnt = Uses(held, h) + One(fs, h)
      /\ fs # None => ks'[fs].denoms = ks[fs].denoms
  BY <1>1, InternalDropped
<1>3. Counted(ks', held', internal', fs')
  <2>1. \A h \in Handles : One(fs', h) = 0 /\ Uses(held, h) \in Nat /\ One(fs, h) \in Nat
    BY <1>0, <1>1, UsesType DEF One
  <2>2. \A h \in Handles : ks'[h].refcnt = Uses(held', h) + One(internal', h) + One(fs', h)
    BY <1>1, <1>2, <2>1
  <2> QED
    BY <2>2 DEF Counted
<1>4. TablesOK'
  <2>1. fs # None => ks[fs].denoms \subseteq db
    <3>1. fs # None => fs \in Handles /\ ks[fs].refcnt # 0
      BY InUse DEF HandlesOK
    <3> QED
      BY <3>1 DEF Wellformed, Good
  <2> QED
    BY <1>1, <2>1 DEF TablesOK, Publish
<1>5. SignalsOK'
  <2>1. revocations' = revocations
    BY <1>1 DEF fileVars
  <2> QED
    BY <1>1, <2>1, SignalsStep
<1>6. RevocationOK'
  BY <1>1, <1>2 DEF RevocationOK, RevocationHolds
<1>7. HandlesOK' /\ FilesOK'
  BY <1>1 DEF HandlesOK, FilesOK, fileVars
<1>8. Wellformed(ks', now', db', faults')
  BY <1>1, <1>2 DEF fileVars
<1> QED
  BY <1>3, <1>4, <1>5, <1>6, <1>7, <1>8

LEMMA ExitStep ==
    ASSUME IndInv, Exit
    PROVE  IndInv'
PROOF
<1> USE DEF IndInv
<1>0. None \notin Handles
  BY DEF None, Handles
<1>1. /\ internal' = None /\ ks' = Drop(ks, internal) /\ loop' = "exited"
      /\ loop = "stop" /\ pipe' = <<>>
      /\ UNCHANGED <<fileVars, db, db_revoked, held, fs, pending, effective,
                     published, faults>>
  BY DEF Exit
<1>2. /\ Wellformed(ks', now, db, faults)
      /\ \A h \in Handles : ks'[h].refcnt = Uses(held, h) + One(fs, h)
      /\ fs # None => ks'[fs].denoms = ks[fs].denoms
  BY <1>1, InternalDropped
<1>3. Counted(ks', held', internal', fs')
  <2>1. \A h \in Handles : One(internal', h) = 0 /\ Uses(held, h) \in Nat /\ One(fs, h) \in Nat
    BY <1>0, <1>1, UsesType DEF One
  <2>2. \A h \in Handles : ks'[h].refcnt = Uses(held', h) + One(internal', h) + One(fs', h)
    BY <1>1, <1>2, <2>1
  <2> QED
    BY <2>2 DEF Counted
<1>4. SignalsOK'
  <2>1. revocations' = revocations
    BY <1>1 DEF fileVars
  <2> QED
    BY <1>1, <2>1, SignalsStep
<1>5. RevocationOK' /\ HandlesOK' /\ FilesOK' /\ TablesOK'
  BY <1>1, <1>2 DEF RevocationOK, RevocationHolds, HandlesOK, FilesOK, TablesOK, fileVars
<1>6. Wellformed(ks', now', db', faults')
  BY <1>1, <1>2 DEF fileVars
<1> QED
  BY <1>3, <1>4, <1>5, <1>6

LEMMA ReloadStep ==
    ASSUME IndInv, Reload
    PROVE  IndInv'
PROOF
<1> USE DEF IndInv
<1>0. None \notin Handles
  BY DEF None, Handles
<1>1. PICK readable \in Readings :
         /\ MakeFresh(readable)
         /\ ks' = WithFresh(readable)
         /\ fs' = Fresh(readable)
         /\ loop' = IF Fresh(readable) = None THEN "stop" ELSE "install"
  BY DEF Reload
<1>2. readable \in BOOLEAN
  BY DEF Readings
<1>3. /\ FilesOK' /\ now' = now /\ revocations' = revocations
      /\ db' = RowsThen /\ faults' = FaultsThen(readable) /\ faults' \in Nat
      /\ \A d \in RowsThen : d.start \in Int
  BY <1>1, <1>2, MakeFreshTables
<1>4. /\ loop = "read" /\ pipe # <<>> /\ pending' = Head(pipe).rev /\ pipe' = Tail(pipe)
      /\ UNCHANGED <<internal, held, effective, published>>
  BY DEF Reload, Reads
<1> DEFINE f == Fresh(readable)
           s1 == WithFresh(readable)
<1>5. /\ f \in Handles \cup {None}
      /\ Wellformed(s1, now, RowsThen, FaultsThen(readable))
      /\ \A h \in Handles :
            /\ s1[h].refcnt = ks[h].refcnt + One(f, h)
            /\ ks[h].refcnt # 0 => s1[h] = ks[h]
      /\ f # None => s1[f].denoms \cap revocations = {}
  BY <1>2, FreshEffect
<1>6. ks' = s1 /\ fs' = f /\ loop' = IF f = None THEN "stop" ELSE "install"
  BY <1>1
<1> HIDE DEF f, s1
<1>7. fs = None
  BY <1>4 DEF HandlesOK
<1>8. Counted(ks', held', internal', fs')
  <2>1. \A h \in Handles : ks[h].refcnt = Uses(held, h) + One(internal, h) + One(fs, h)
    BY DEF Counted
  <2>2. \A h \in Handles :
           /\ One(fs, h) = 0 /\ Uses(held, h) \in Nat /\ One(internal, h) \in Nat
           /\ One(f, h) \in Nat
    BY <1>0, <1>7, UsesType DEF One
  <2>3. \A h \in Handles : s1[h].refcnt = Uses(held, h) + One(internal, h) + One(f, h)
    BY ONLY <1>5, <2>1, <2>2
  <2> QED
    BY <1>4, <1>6, <2>3 DEF Counted
<1>9. SignalsOK'
  BY <1>3, <1>4, SignalsStep
<1>10. RevocationOK'
  <2>1. internal # None => internal \in Handles /\ ks[internal].refcnt # 0
    BY InUse DEF HandlesOK
  <2>2. internal # None => ks'[internal].denoms = ks[internal].denoms
    BY <1>5, <1>6, <2>1
  <2>3. fs' # None => ks'[fs'].denoms \cap (effective' \cup pending') = {}
    <3>1. effective' \subseteq revocations /\ pending' \subseteq revocations
      BY <1>3, <1>9 DEF SignalsOK
    <3> QED
      BY <1>5, <1>6, <3>1
  <2> QED
    BY <1>4, <2>2, <2>3 DEF RevocationOK, RevocationHolds
<1>11. TablesOK'
  BY <1>3, <1>4 DEF TablesOK, RowsThen
<1>12. HandlesOK'
  BY <1>4, <1>5, <1>6 DEF HandlesOK
<1>13. Wellformed(ks', now', db', faults')
  BY <1>3, <1>5, <1>6
<1> QED
  BY <1>3, <1>8, <1>9, <1>10, <1>11, <1>12, <1>13

LEMMA RestartStep ==
    ASSUME IndInv, Restart
    PROVE  IndInv'
PROOF
<1> USE DEF IndInv
<1>0. None \notin Handles
  BY DEF None, Handles
<1>1. PICK readable \in Readings :
         /\ MakeFresh(readable)
         /\ ks' = WithFresh(readable)
         /\ internal' = Fresh(readable)
         /\ Publish(WithFresh(readable), Fresh(readable))
         /\ loop' = IF Fresh(readable) = None THEN "exited" ELSE "read"
  BY DEF Restart
<1>2. readable \in BOOLEAN
  BY DEF Readings
<1>3. /\ FilesOK' /\ now' = now /\ revocations' = revocations
      /\ db' = RowsThen /\ faults' = FaultsThen(readable) /\ faults' \in Nat
      /\ \A d \in RowsThen : d.start \in Int
  BY <1>1, <1>2, MakeFreshTables
<1>4. loop = "exited" /\ UNCHANGED <<held, pipe, fs, pending, effective>>
  BY DEF Restart
<1> DEFINE f == Fresh(readable)
           s1 == WithFresh(readable)
<1>5. /\ f \in Handles \cup {None}
      /\ Wellformed(s1, now, RowsThen, FaultsThen(readable))
      /\ \A h \in Handles :
            /\ s1[h].refcnt = ks[h].refcnt + One(f, h)
            /\ ks[h].refcnt # 0 => s1[h] = ks[h]
      /\ f # None => s1[f].refcnt = 1 /\ s1[f].denoms \cap revocations = {}
  BY <1>2, FreshEffect
<1>6. /\ ks' = s1 /\ internal' = f /\ Publish(s1, f)
      /\ loop' = IF f = None THEN "exited" ELSE "read"
  BY <1>1
<1> HIDE DEF f, s1
<1>7. internal = None /\ fs = None
  BY <1>4 DEF HandlesOK
<1>8. Counted(ks', held', internal', fs')
  <2>1. \A h \in Handles : ks[h].refcnt = Uses(held, h) + One(internal, h) + One(fs, h)
    BY DEF Counted
  <2>2. \A h \in Handles :
           /\ One(internal, h) = 0 /\ Uses(held, h) \in Nat /\ One(fs, h) \in Nat
           /\ One(f, h) \in Nat
    BY <1>0, <1>7, UsesType DEF One
  <2>3. \A h \in Handles : s1[h].refcnt = Uses(held, h) + One(f, h) + One(fs, h)
    BY ONLY <1>5, <2>1, <2>2
  <2> QED
    BY <1>4, <1>6, <2>3 DEF Counted
<1>9. SignalsOK'
  BY <1>3, <1>4, SignalsStep
<1>10. RevocationOK'
  <2>1. effective \subseteq revocations
    BY DEF SignalsOK
  <2> QED
    BY <1>4, <1>5, <1>6, <1>7, <2>1 DEF RevocationOK, RevocationHolds
<1>11. TablesOK'
  <2>1. f # None => s1[f].denoms \subseteq RowsThen
    BY <1>5 DEF Wellformed, Good
  <2>2. published' \subseteq RowsThen
    BY <1>6, <2>1 DEF Publish, TablesOK, RowsThen
  <2> QED
    BY <1>3, <2>2 DEF TablesOK
<1>12. HandlesOK'
  BY <1>4, <1>5, <1>6, <1>7 DEF HandlesOK
<1>13. Wellformed(ks', now', db', faults')
  BY <1>3, <1>5, <1>6
<1> QED
  BY <1>3, <1>8, <1>9, <1>10, <1>11, <1>12, <1>13

(* Steps that leave the key states and their users alone.                  *)
LEMMA QuietStep ==
    ASSUME IndInv, UNCHANGED <<ks, internal, held, fs, published, pending, effective>>,
           FilesOK', db' = db, faults' \in Nat, faults <= faults', now <= now',
           SignalsOK', loop' = loop \/ (loop = "read" /\ loop' = "stop")
    PROVE  IndInv'
PROOF
<1> USE DEF IndInv
<1>1. /\ TablesOK' /\ Wellformed(ks', now', db', faults')
      /\ Counted(ks', held', internal', fs')
  BY StatesKept
<1>2. HandlesOK' /\ RevocationOK'
  BY DEF HandlesOK, RevocationOK, RevocationHolds
<1> QED
  BY <1>1, <1>2

LEMMA KillStep ==
    ASSUME IndInv, NEW sig \in {"USR1", "TERM"}, Kill(sig)
    PROVE  IndInv'
PROOF
<1>1. /\ pipe' = Append(pipe, Signal(sig))
      /\ UNCHANGED <<fileVars, db, ks, internal, held, loop, fs, pending, effective,
                     published, faults>>
  BY DEF Kill
<1>2. SignalsOK'
  BY <1>1, SignalsStep DEF IndInv, fileVars
<1>3. FilesOK' /\ faults' \in Nat /\ faults <= faults' /\ now <= now'
  BY <1>1 DEF IndInv, FilesOK, TablesOK, fileVars
<1>4. /\ UNCHANGED <<ks, internal, held, fs, published, pending, effective>>
      /\ db' = db /\ (loop' = loop \/ (loop = "read" /\ loop' = "stop"))
  BY <1>1
<1> QED
  BY ONLY IndInv, <1>2, <1>3, <1>4, QuietStep

LEMMA TerminateStep ==
    ASSUME IndInv, Terminate
    PROVE  IndInv'
PROOF
<1>1. /\ loop = "read" /\ pipe # <<>> /\ pipe' = Tail(pipe) /\ loop' = "stop"
      /\ UNCHANGED <<fileVars, db, ks, internal, held, fs, pending, effective,
                     published, faults>>
  BY DEF Terminate, Reads
<1>2. SignalsOK'
  BY <1>1, SignalsStep DEF IndInv, fileVars
<1>3. FilesOK' /\ faults' \in Nat /\ faults <= faults' /\ now <= now'
  BY <1>1 DEF IndInv, FilesOK, TablesOK, fileVars
<1> QED
  BY <1>1, <1>2, <1>3, QuietStep

LEMMA ReloadFailsStep ==
    ASSUME IndInv, ReloadFails
    PROVE  IndInv'
PROOF
<1>1. /\ loop = "read" /\ pipe # <<>> /\ pipe' = Tail(pipe) /\ loop' = "stop"
      /\ UNCHANGED <<ks, internal, held, fs, pending, effective, published>>
  BY DEF ReloadFails, Reads
<1>2. /\ FilesOK' /\ now' = now /\ now <= now' /\ revocations' = revocations
      /\ db' = db /\ faults' = faults + 1 /\ faults' \in Nat /\ faults <= faults'
  BY FailsTables DEF ReloadFails, IndInv
<1>3. SignalsOK'
  BY <1>1, <1>2, SignalsStep DEF IndInv
<1> QED
  BY <1>1, <1>2, <1>3, QuietStep

LEMMA FilesChange ==
    ASSUME IndInv, FileStep, UNCHANGED serverVars
    PROVE  IndInv'
PROOF
<1>1. FilesOK'
  BY FilesStep DEF IndInv
<1>2. revocations \subseteq revocations' /\ (now' = now \/ now' = now + 1)
  BY DEF FileStep, Keyup, KeyupStops, Tick, Revoke, RevokeStops
<1>3. now <= now' /\ faults' \in Nat /\ faults <= faults'
  BY <1>2 DEF IndInv, FilesOK, TablesOK, serverVars
<1>4. SignalsOK'
  BY <1>2, SignalsStep DEF IndInv, serverVars
<1>5. /\ UNCHANGED <<ks, internal, held, fs, published, pending, effective>>
      /\ db' = db /\ (loop' = loop \/ (loop = "read" /\ loop' = "stop"))
  BY DEF serverVars
<1> QED
  BY ONLY IndInv, <1>1, <1>3, <1>4, <1>5, QuietStep

LEMMA NextIndInv ==
    ASSUME IndInv, [KeysNext]_keyVars
    PROVE  IndInv'
PROOF
<1>1. CASE UNCHANGED keyVars
  BY <1>1 DEF keyVars, serverVars, fileVars, IndInv, FilesOK, TablesOK, SignalsOK,
              HandlesOK, RevocationOK, RevocationHolds
<1>2. ASSUME NEW t \in Threads, ThreadStep(t) PROVE IndInv'
  BY <1>2, AcquireStep, ReloadsStep, AcquireFailsStep, ReleaseStep DEF ThreadStep
<1>3. CASE LoopStep
  BY <1>3, ReloadStep, ReloadFailsStep, InstallStep, TerminateStep, ExitStep,
     RestartStep DEF LoopStep
<1> QED
  BY <1>1, <1>2, <1>3, FilesChange, KillStep DEF KeysNext

(* The inductive invariant holds in every reachable state of the key       *)
(* directories, signals, threads and key states.                           *)
THEOREM Invariance ==
    KeysSpec => []IndInv
PROOF
<1>1. KeysInit => IndInv
  BY InitIndInv
<1>2. IndInv /\ [KeysNext]_keyVars => IndInv'
  BY NextIndInv
<1> QED
  BY <1>1, <1>2, PTL DEF KeysSpec

---------------------------------------------------------------------------
(* The reference counts are right whatever the order of acquisitions,      *)
(* releases, reloads of threads and reloads of the main thread             *)
(* (TEH_KS_acquire_, TEH_KS_release_, TEH_KS_loop, TEH_KS_free).           *)
THEOREM CountsAreRight ==
    KeysSpec => []ReferencesCounted
PROOF
<1>1. IndInv => ReferencesCounted
  BY CountedMeans DEF IndInv
<1> QED
  BY <1>1, Invariance, PTL

(* Once the SIGUSR1 for a revocation was handled, no state in use has the  *)
(* key, although threads and the main thread make states independently     *)
(* (make_fresh_key_state).                                                 *)
THEOREM RevocationsHold ==
    KeysSpec => []RevocationHolds
PROOF
<1>1. IndInv => RevocationHolds
  BY DEF IndInv, RevocationOK
<1> QED
  BY <1>1, Invariance, PTL

(* A state knows the keys that were in use before it until deposits end,   *)
(* because keys without file are read from the database                    *)
(* (reload_public_denoms_cb).                                              *)
THEOREM CoinsAreSpendable ==
    KeysSpec => []CoinsStaySpendable
PROOF
<1>1. IndInv => CoinsStaySpendable
  <2>1. SUFFICES ASSUME IndInv, internal # None, faults = 0
                 PROVE  \A d \in ks[internal].seen : now <= ExpireDeposit(d) =>
                           d \in ks[internal].denoms \cup ks[internal].revoked
    BY DEF CoinsStaySpendable
  <2>2. internal \in Handles
    BY <2>1 DEF IndInv, HandlesOK
  <2>3. ks[internal].refcnt # 0
    BY <2>1, <2>2, InUse
  <2>4. Good(ks[internal], now, db, faults)
    BY <2>1, <2>2, <2>3 DEF IndInv, Wellformed
  <2> QED
    BY <2>1, <2>4 DEF Good
<1> QED
  BY <1>1, Invariance, PTL

(* A thread gets only signing keys that have started and not expired:      *)
(* TEH_KS_acquire_ makes a new state once next_reload has passed.          *)
THEOREM SignsWithValidKey ==
    KeysSpec => SignKeyValid
PROOF
<1> DEFINE Valid ==
      \A t \in Threads :
          held[t] = None /\ held'[t] # None =>
              /\ ks'[held'[t]].sign < now
              /\ now < SignExpire(ks'[held'[t]].sign)
<1>1. IndInv /\ [KeysNext]_keyVars => [Valid]_keyVars
  <2>1. SUFFICES ASSUME IndInv, KeysNext PROVE Valid
    OBVIOUS
  <2>2. ASSUME held' = held PROVE Valid
    BY <2>2
  <2>3. ASSUME NEW t \in Threads, ThreadStep(t) PROVE Valid
    <3>1. \A u \in Threads : u # t => held'[u] = held[u]
      <4>1. held \in [Threads -> Handles \cup {None}]
        BY <2>1 DEF IndInv, HandlesOK
      <4>2. held' = held \/ \E b : held' = [held EXCEPT ![t] = b]
        BY <2>3 DEF ThreadStep, Acquire, AcquireReloads, AcquireFails, Release, Grab
      <4> QED
        BY <4>1, <4>2
    <3>2. held'[t] # None /\ held[t] = None =>
            ks'[held'[t]].sign < now /\ now < SignExpire(ks'[held'[t]].sign)
      <4>1. CASE Acquire(t)
        BY <2>1, <4>1, AcquireStep
      <4>2. CASE AcquireReloads(t)
        BY <2>1, <4>2, ReloadsStep
      <4>3. CASE AcquireFails(t)
        BY <4>3 DEF AcquireFails
      <4>4. CASE Release(t)
        BY <2>1, <4>4, ReleaseStep
      <4> QED
        BY <2>3, <4>1, <4>2, <4>3, <4>4 DEF ThreadStep
    <3> QED
      BY <3>1, <3>2
  <2>4. CASE LoopStep
    BY <2>2, <2>4 DEF LoopStep, Reload, ReloadFails, Install, Terminate, Exit, Restart
  <2>5. CASE FileStep /\ UNCHANGED serverVars
    BY <2>2, <2>5 DEF serverVars
  <2>6. ASSUME NEW sig \in {"USR1", "TERM"}, Kill(sig) PROVE Valid
    BY <2>2, <2>6 DEF Kill
  <2> HIDE DEF Valid
  <2> QED
    BY <2>1, <2>3, <2>4, <2>5, <2>6 DEF KeysNext
<1> QED
  BY <1>1, Invariance, PTL DEF KeysSpec, SignKeyValid
=============================================================================
