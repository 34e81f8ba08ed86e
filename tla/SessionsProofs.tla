--------------------------- MODULE SessionsProofs ---------------------------
(***************************************************************************)
(* Theorems of module Sessions, for every set of requests, every database  *)
(* and every bound.                                                        *)
(***************************************************************************)
EXTENDS Sessions, TLAPS

(* What a request has found belongs to a registration of the past or of    *)
(* now, and a registration yet to come has an empty ring.                  *)
GenInv ==
    /\ live => gen > 0
    /\ \A r \in Requests : acct[r] <= gen
    /\ \A g \in 0 .. MaxGen : g > gen => ring[g] = EmptyRing

(* A session is in the table while its request works on the row, and a     *)
(* check deletes only a session that is out of the ring for good.          *)
TableInv ==
    /\ \A r \in Requests : pc[r] \in {"update", "inc", "incwrite"} => r \in table
    /\ \A r \in Requests : check[r] => pc[r] = "ok" /\ ~ InRing(r)

(* A request that has found the account as it is finds its ring as it is,  *)
(* unless another session has gone into it; and once it is past the ring,  *)
(* there is a session in it.                                               *)
Somebody == \E s \in Requests : InRing(s)

LoginInv ==
    live /\ faults = MaxFaults =>
        \A r \in Requests : acct[r] = gen =>
            /\ pc[r] \in {"session", "update"} => old[r] = ring[gen] \/ Somebody
            /\ pc[r] \in {"inc", "incwrite", "ok"} => Somebody

(* Nothing has happened yet to a request that is idle, or to the index of  *)
(* a registration yet to come.                                             *)
YetToCome ==
    /\ \A r \in Requests : pc[r] = "idle" => alone[r]
    /\ \A g \in 0 .. MaxGen : g > gen => index[g] = 0

(* A request that nothing overlaps works on the account of now: up to the  *)
(* ring it holds the row as it is, and past the ring its session is there. *)
LoneInv ==
    \A r \in Requests : alone[r] /\ pc[r] \in Running =>
        /\ Overlaps(r) = {}
        /\ live =>
            /\ acct[r] = gen
            /\ pc[r] \in {"session", "update"} => old[r] = ring[gen] /\ at[r] = index[gen]
            /\ pc[r] = "incwrite" => at[r] = index[gen]
            /\ pc[r] \in {"inc", "incwrite"} /\ faults = MaxFaults => InRing(r)

(* While no two requests have overlapped the ring is full, or its slots    *)
(* are filled up to the index, and at it between a write of the ring and   *)
(* that of the index.                                                      *)
Lone == \A r \in Requests : alone[r]
Full == \A j \in Slots : ring[gen][j] # NoSession
PastRing == \E r \in Requests : pc[r] \in {"inc", "incwrite"}
FilledUp ==
    \A j \in Slots :
        ring[gen][j] # NoSession <=> j < index[gen] \/ (j = index[gen] /\ PastRing)

FillInv == live /\ faults = MaxFaults /\ Lone => Full \/ FilledUp

Inv ==
    /\ TypeOK /\ GenInv /\ TableInv /\ RingIsStored /\ LoginInv
    /\ YetToCome /\ LoneInv /\ FillInv

-----------------------------------------------------------------------------
(* Types.                                                                  *)

(* An index wraps within its values.                                       *)
LEMMA NextIndexType == \A i \in 0 .. IndexSize - 1 : NextIndex(i) \in 0 .. IndexSize - 1
  BY IndexSizeAssumption DEF NextIndex

(* An empty ring and a ring with a session in it are rings.                *)
LEMMA RingTypes ==
    /\ EmptyRing \in [Slots -> Sessions]
    /\ \A i \in Int : i % 3 \in Slots
    /\ \A s \in [Slots -> Sessions], i \in Int, r \in Requests :
        /\ With(s, i, r) \in [Slots -> Sessions]
        /\ With(s, i, r)[i % 3] = r
        /\ \A j \in Slots : With(s, i, r)[j] \in {s[j], r}
<1>1. \A i \in Int : i % 3 \in Slots
  BY DEF Slots
<1> QED
  BY <1>1 DEF EmptyRing, With, Sessions

(* What Begin does to the types.                                           *)
LEMMA BeginTypes ==
    ASSUME TypeOK, NEW r \in Requests, NEW g \in 0 .. MaxGen,
           NEW s \in [Slots -> Sessions], NEW i \in 0 .. IndexSize - 1, Begin(r, g, s, i)
    PROVE  /\ acct' \in [Requests -> 0 .. MaxGen]
           /\ old' \in [Requests -> [Slots -> Sessions]]
           /\ at' \in [Requests -> 0 .. IndexSize - 1]
           /\ pc' \in [Requests -> {"idle"} \cup Running \cup Ended]
           /\ alone' \in [Requests -> BOOLEAN]
<1>1. /\ acct' \in [Requests -> 0 .. MaxGen]
      /\ old' \in [Requests -> [Slots -> Sessions]]
      /\ at' \in [Requests -> 0 .. IndexSize - 1]
  BY DEF Begin, Hold, TypeOK
<1>2. pc' \in [Requests -> {"idle"} \cup Running \cup Ended]
  BY DEF Begin, Goto, TypeOK, Running
<1>3. alone' \in [Requests -> BOOLEAN]
  BY DEF Begin, TypeOK
<1> QED
  BY <1>1, <1>2, <1>3

(* Every step keeps every variable in its type.                            *)
LEMMA TypeStep == TypeOK /\ [Next]_vars => TypeOK'
<1> SUFFICES ASSUME TypeOK, [Next]_vars PROVE TypeOK'
  OBVIOUS
<1> USE DEF row, locals
<1>0. /\ MaxGen \in Nat /\ IndexSize \in Nat /\ IndexSize > 0 /\ 0 \in 0 .. IndexSize - 1
      /\ 0 \in 0 .. MaxGen
  BY MaxGenAssumption, IndexSizeAssumption
<1>1. \A r \in Requests, x \in {"idle"} \cup Running \cup Ended :
        Goto(r, x) => pc' \in [Requests -> {"idle"} \cup Running \cup Ended]
  BY DEF Goto, TypeOK
<1>2. ASSUME NEW r \in Requests, Register(r) PROVE TypeOK'
  <2>1. CASE live \/ husk
    BY <1>1, <1>2, <2>1 DEF Register, TypeOK, Ended
  <2>2. CASE ~ live /\ ~ husk
    <3>1. gen + 1 \in 0 .. MaxGen
      BY <1>0, <1>2, <2>2 DEF Register, TypeOK
    <3> QED
      BY <1>0, <1>2, <2>2, <3>1, BeginTypes, RingTypes DEF Register, TypeOK
  <2> QED
    BY <2>1, <2>2
<1>3. ASSUME NEW r \in Requests, Login(r) PROVE TypeOK'
  <2>1. ring[gen] \in [Slots -> Sessions] /\ index[gen] \in 0 .. IndexSize - 1
    BY DEF TypeOK
  <2> QED
    BY <1>3, <2>1, BeginTypes DEF Login, TypeOK
<1>4. ASSUME NEW r \in Requests, LoginFails(r) PROVE TypeOK'
  BY <1>1, <1>4 DEF LoginFails, TypeOK, Ended
<1>5. ASSUME NEW r \in Requests, NewSession(r) PROVE TypeOK'
  BY <1>1, <1>5 DEF NewSession, TypeOK, Running
<1>6. \A r \in Requests, g \in 0 .. MaxGen, i \in Int :
        [ring EXCEPT ![g] = With(@, i, r)] \in [0 .. MaxGen -> [Slots -> Sessions]]
  BY RingTypes DEF TypeOK
<1>7. ASSUME NEW r \in Requests, SetSlot(r) PROVE TypeOK'
  <2>1. acct[r] \in 0 .. MaxGen /\ index[acct[r]] \in Int
    BY <1>0 DEF TypeOK
  <2>2. ring' \in [0 .. MaxGen -> [Slots -> Sessions]]
    BY <1>6, <1>7, <2>1 DEF SetSlot
  <2> QED
    BY <1>1, <1>7, <2>2 DEF SetSlot, TypeOK, Running
<1>8. ASSUME NEW r \in Requests, UpdataSession(r) PROVE TypeOK'
  <2>1. at[r] \in Int
    BY <1>0 DEF TypeOK
  <2>2. ring' \in [0 .. MaxGen -> [Slots -> Sessions]]
    BY <1>6, <1>8, <2>1 DEF UpdataSession, WriteRing, TypeOK
  <2> QED
    BY <1>1, <1>8, <2>2 DEF UpdataSession, TypeOK, Running
<1>9. ASSUME NEW r \in Requests, UpdataConflict(r) PROVE TypeOK'
  BY <1>1, <1>9, FaultsAssumption DEF UpdataConflict, TypeOK, Running
<1>10. ASSUME NEW r \in Requests, ReadIndex(r) PROVE TypeOK'
  BY <1>1, <1>10 DEF ReadIndex, TypeOK, Running
<1>11. ASSUME NEW r \in Requests, WriteIndex(r) PROVE TypeOK'
  <2>1. index' \in [0 .. MaxGen -> 0 .. IndexSize - 1]
    BY <1>11, NextIndexType DEF WriteIndex, TypeOK
  <2> QED
    BY <1>1, <1>11, <2>1 DEF WriteIndex, TypeOK, Ended
<1>12. ASSUME NEW r \in Requests, IncField(r) PROVE TypeOK'
  <2>1. index' \in [0 .. MaxGen -> 0 .. IndexSize - 1]
    <3>1. index' = index \/ index' = [index EXCEPT ![gen] = NextIndex(@)]
      BY <1>12 DEF IncField
    <3>2. index \in [0 .. MaxGen -> 0 .. IndexSize - 1] /\ gen \in 0 .. MaxGen
      BY DEF TypeOK
    <3>3. NextIndex(index[gen]) \in 0 .. IndexSize - 1
      BY <3>2, NextIndexType
    <3> QED
      BY <3>1, <3>2, <3>3
  <2>2. husk' \in BOOLEAN
    BY <1>12 DEF IncField, TypeOK
  <2>3. pc' \in [Requests -> {"idle"} \cup Running \cup Ended]
    BY <1>1, <1>12 DEF IncField, Ended
  <2> QED
    BY <1>12, <2>1, <2>2, <2>3 DEF IncField, TypeOK
<1>13. ASSUME Delete PROVE TypeOK'
  BY <1>13 DEF Delete, TypeOK
<1>14. ASSUME NEW r \in Requests, Check(r) \/ CheckDeletes(r) PROVE TypeOK'
  BY <1>14 DEF Check, CheckDeletes, TypeOK
<1>15. CASE UNCHANGED vars
  BY <1>15 DEF vars, TypeOK
<1> QED
  BY <1>2, <1>3, <1>4, <1>5, <1>7, <1>8, <1>9, <1>10, <1>11, <1>12, <1>13, <1>14, <1>15
     DEF Next, AddSession

-----------------------------------------------------------------------------
(* What a step does to the row.                                            *)

(* r's session is written to slot i of registration g.                     *)
Wrote(r, g, i) == /\ pc[r] = "update" /\ pc'[r] = "inc"
                  /\ ring' = [ring EXCEPT ![g] = With(@, i, r)]
                  /\ UNCHANGED <<live, gen, table, faults, check, acct, old>>

(* The ring is changed by a request that stands before it, and nobody else.*)
LEMMA RingChanges ==
    ASSUME TypeOK, GenInv, [Next]_vars
    PROVE  \/ ring' = ring
           \/ \E r \in Requests, g \in 0 .. gen, i \in Int :
                /\ Wrote(r, g, i)
                /\ \A q \in Requests \ {r} : pc'[q] = pc[q]
<1> USE DEF row, locals
<1>1. ASSUME NEW r \in Requests, SetSlot(r)
      PROVE  \E g \in 0 .. gen, i \in Int :
                Wrote(r, g, i) /\ \A q \in Requests \ {r} : pc'[q] = pc[q]
  <2>1. acct[r] \in 0 .. gen /\ index[acct[r]] \in Int
    BY IndexSizeAssumption, MaxGenAssumption DEF TypeOK, GenInv
  <2>2. Wrote(r, acct[r], index[acct[r]]) /\ \A q \in Requests \ {r} : pc'[q] = pc[q]
    BY <1>1 DEF SetSlot, Wrote, Goto, TypeOK
  <2> QED
    BY <2>1, <2>2
<1>2. ASSUME NEW r \in Requests, UpdataSession(r), ring' # ring
      PROVE  \E g \in 0 .. gen, i \in Int :
                Wrote(r, g, i) /\ \A q \in Requests \ {r} : pc'[q] = pc[q]
  <2>1. gen \in 0 .. gen /\ at[r] \in Int
    BY IndexSizeAssumption, MaxGenAssumption DEF TypeOK
  <2>2. Wrote(r, gen, at[r]) /\ \A q \in Requests \ {r} : pc'[q] = pc[q]
    BY <1>2 DEF UpdataSession, WriteRing, Wrote, Goto, TypeOK
  <2> QED
    BY <2>1, <2>2
<1> QED
  BY <1>1, <1>2 DEF Next, AddSession, vars, Register, Login, LoginFails, NewSession,
     UpdataConflict, ReadIndex, WriteIndex, IncField, Delete, Check, CheckDeletes

(* A step of a request on its account, and on the registrations.           *)
LEMMA AccountChanges ==
    ASSUME TypeOK, [Next]_vars
    PROVE  \/ live' = live /\ gen' = gen
           \/ live' = FALSE /\ gen' = gen /\ pc' = pc /\ acct' = acct
           \/ \E r \in Requests : /\ Register(r) /\ ~ live /\ ~ husk /\ gen' = gen + 1
                                  /\ gen < MaxGen /\ Begin(r, gen + 1, EmptyRing, 0)
  BY DEF Next, AddSession, vars, row, locals, Register, Login, LoginFails, NewSession,
     SetSlot, UpdataSession, UpdataConflict, ReadIndex, WriteIndex, IncField, Delete, Check,
     CheckDeletes

(* A request that finds an account finds that of now.                      *)
LEMMA GenStep == TypeOK /\ GenInv /\ [Next]_vars => GenInv'
<1> SUFFICES ASSUME TypeOK, GenInv, [Next]_vars PROVE GenInv'
  OBVIOUS
<1>0. gen \in Nat /\ \A r \in Requests : acct[r] \in Nat
  BY MaxGenAssumption DEF TypeOK
<1>1. (live => gen > 0) /\ (live' => gen' > 0) /\ gen' \in {gen, gen + 1}
  <2>1. /\ live => gen > 0
        /\ \/ live' = live /\ gen' = gen
           \/ live' = FALSE /\ gen' = gen
           \/ gen' = gen + 1
    BY AccountChanges DEF GenInv
  <2> QED
    BY <1>0, <2>1
<1>2. \A r \in Requests : acct'[r] \in {acct[r], gen'}
  BY DEF Next, AddSession, vars, row, locals, Register, Begin, Hold, Login, LoginFails,
     NewSession, SetSlot, UpdataSession, UpdataConflict, ReadIndex, WriteIndex, IncField,
     Delete, Check, CheckDeletes, TypeOK
<1>3. ASSUME NEW g \in 0 .. MaxGen, g > gen' PROVE ring'[g] = EmptyRing
  <2>1. g > gen /\ ring[g] = EmptyRing
    BY <1>0, <1>1, <1>3 DEF GenInv
  <2>2. ASSUME NEW r \in Requests, NEW h \in 0 .. gen, NEW i \in Int, Wrote(r, h, i)
        PROVE  ring'[g] = ring[g]
    BY <1>0, <2>1, <2>2 DEF Wrote, TypeOK
  <2> QED
    BY <2>1, <2>2, RingChanges
<1> QED
  BY <1>0, <1>1, <1>2, <1>3 DEF GenInv

(* A session comes into the ring of the account by its own request's write,*)
(* and a ring that had a session keeps having one.                         *)
LEMMA RingGrows ==
    ASSUME TypeOK, GenInv, [Next]_vars
    PROVE  /\ \A r \in Requests : InRing(r)' => InRing(r) \/ pc[r] = "update"
           /\ live /\ live' /\ gen' = gen /\ Somebody => Somebody'
           /\ live' /\ gen' = gen /\ ring'[gen] # ring[gen] => Somebody'
<1>0. gen \in 0 .. MaxGen /\ gen \in Nat /\ NoSession \notin Requests
  BY MaxGenAssumption, RequestsAssumption DEF TypeOK
<1>1. ASSUME NEW q \in Requests, NEW g \in 0 .. gen, NEW i \in Int, Wrote(q, g, i)
      PROVE  /\ \A r \in Requests : InRing(r)' => InRing(r) \/ pc[r] = "update"
             /\ live /\ live' /\ gen' = gen /\ Somebody => Somebody'
             /\ live' /\ gen' = gen /\ ring'[gen] # ring[gen] => Somebody'
  <2>1. /\ g \in 0 .. MaxGen /\ live' = live /\ gen' = gen /\ pc[q] = "update"
        /\ ring' = [ring EXCEPT ![g] = With(ring[g], i, q)]
    <3>1. g \in 0 .. MaxGen
      BY <1>0, MaxGenAssumption
    <3> QED
      BY <1>1, <3>1 DEF Wrote
  <2>2. ring[g] \in [Slots -> Sessions]
    BY <2>1 DEF TypeOK
  <2>3. /\ i % 3 \in Slots /\ With(ring[g], i, q)[i % 3] = q
        /\ \A j \in Slots : With(ring[g], i, q)[j] \in {ring[g][j], q}
    BY <2>2, RingTypes
  <2>4. CASE g # gen
    <3>1. ring'[gen] = ring[gen]
      BY <1>0, <2>1, <2>4 DEF TypeOK
    <3> QED
      BY <2>1, <3>1 DEF InRing, Somebody
  <2>5. CASE g = gen
    <3>1. ring'[gen] = With(ring[gen], i, q)
      BY <1>0, <2>1, <2>5 DEF TypeOK
    <3>2. live' => InRing(q)'
      BY <2>1, <2>3, <2>5, <3>1 DEF InRing
    <3>3. \A r \in Requests : InRing(r)' => InRing(r) \/ r = q
      BY <2>1, <2>3, <2>5, <3>1 DEF InRing
    <3> QED
      BY <2>1, <3>2, <3>3 DEF Somebody
  <2> QED
    BY <2>4, <2>5
<1>2. CASE ring' = ring
  <2>1. ASSUME NEW r \in Requests, InRing(r)' PROVE InRing(r)
    <3>1. CASE live' = live /\ gen' = gen
      BY <1>2, <2>1, <3>1 DEF InRing
    <3>2. CASE live' = FALSE
      BY <2>1, <3>2 DEF InRing
    <3>3. CASE gen' = gen + 1 /\ gen < MaxGen
      <4>1. ring'[gen'] = EmptyRing
        BY <1>0, <1>2, <3>3, MaxGenAssumption DEF GenInv
      <4> QED
        BY <1>0, <2>1, <4>1 DEF InRing, EmptyRing
    <3> QED
      BY <3>1, <3>2, <3>3, AccountChanges
  <2> QED
    BY <1>2, <2>1 DEF InRing, Somebody
<1> QED
  BY <1>1, <1>2, RingChanges

-----------------------------------------------------------------------------
(* The table and the ring.                                                 *)

(* What a step does to the table, to a check and to a request's next step. *)
LEMMA TableChanges ==
    ASSUME TypeOK, [Next]_vars, NEW r \in Requests
    PROVE  /\ pc'[r] \in {"update", "inc", "incwrite"} =>
                pc[r] \in {"update", "inc", "incwrite"} \/ r \in table'
           /\ r \in table => r \in table' \/ check[r]
           /\ check'[r] => check[r] \/ (pc[r] = "ok" /\ ~ InRing(r) /\ UNCHANGED row)
           /\ pc[r] = "ok" => pc'[r] = "ok"
<1>0. pc \in [Requests -> {"idle"} \cup Running \cup Ended] /\ check \in [Requests -> BOOLEAN]
  BY DEF TypeOK
<1>1. /\ pc'[r] \in {"update", "inc", "incwrite"} =>
            pc[r] \in {"update", "inc", "incwrite"} \/ r \in table'
      /\ pc[r] = "ok" => pc'[r] = "ok"
  BY <1>0 DEF Next, AddSession, vars, row, locals, Register, Begin, Login,
     LoginFails, NewSession, SetSlot, UpdataSession, UpdataConflict, ReadIndex, WriteIndex,
     IncField, Delete, Check, CheckDeletes, Goto
<1>2. r \in table => r \in table' \/ check[r]
  BY DEF Next, AddSession, vars, row, locals, Register, Begin, Login,
     LoginFails, NewSession, SetSlot, UpdataSession, UpdataConflict, ReadIndex, WriteIndex,
     IncField, Delete, Check, CheckDeletes, Goto
<1>3. check'[r] => check[r] \/ (pc[r] = "ok" /\ ~ InRing(r) /\ UNCHANGED row)
  BY <1>0 DEF Next, AddSession, vars, row, locals, Register, Begin, Login,
     LoginFails, NewSession, SetSlot, UpdataSession, UpdataConflict, ReadIndex, WriteIndex,
     IncField, Delete, Check, CheckDeletes, Goto
<1> QED
  BY <1>1, <1>2, <1>3

(* No check deletes the session of a request that is under way, or one     *)
(* that is in the ring.                                                    *)
LEMMA TableStep == TypeOK /\ GenInv /\ TableInv /\ [Next]_vars => TableInv'
<1> SUFFICES ASSUME TypeOK, GenInv, TableInv, [Next]_vars, NEW r \in Requests
             PROVE  /\ pc'[r] \in {"update", "inc", "incwrite"} => r \in table'
                    /\ check'[r] => pc'[r] = "ok" /\ ~ InRing(r)'
  BY DEF TableInv
<1>1. pc'[r] \in {"update", "inc", "incwrite"} => r \in table'
  BY TableChanges DEF TableInv
<1>2. ASSUME check'[r] PROVE pc'[r] = "ok" /\ ~ InRing(r)'
  <2>1. pc[r] = "ok" /\ ~ InRing(r)
    BY <1>2, TableChanges DEF TableInv
  <2> QED
    BY <2>1, TableChanges, RingGrows
<1> QED
  BY <1>1, <1>2

(* What the ring holds is what it held, or what a request under way wrote. *)
LEMMA RingStep == TypeOK /\ GenInv /\ TableInv /\ RingIsStored /\ [Next]_vars => RingIsStored'
<1> SUFFICES ASSUME TypeOK, GenInv, TableInv, RingIsStored, [Next]_vars, live',
                    NEW i \in Slots
             PROVE  ring'[gen'][i] \in table' \cup {NoSession, Earlier}
  BY DEF RingIsStored
<1>0. gen \in 0 .. MaxGen /\ gen \in Nat
  BY MaxGenAssumption DEF TypeOK
<1>1. CASE gen' = gen + 1 /\ gen < MaxGen
  <2>1. ring[gen'] = EmptyRing
    BY <1>0, <1>1, MaxGenAssumption DEF GenInv
  <2>2. ring' = ring
    <3>1. gen' # gen
      BY <1>0, <1>1
    <3> QED
      BY <3>1, RingChanges DEF Wrote
  <2> QED
    BY <2>1, <2>2 DEF EmptyRing
<1>2. CASE live' = live /\ gen' = gen
  <2>1. ring[gen][i] \in table \cup {NoSession, Earlier}
    BY <1>2 DEF RingIsStored
  <2>2. CASE ring' = ring
    <3>1. ASSUME ring[gen][i] \in table PROVE ring[gen][i] \in table'
      <4>1. ring[gen][i] \in Requests /\ InRing(ring[gen][i])
        BY <1>2, <3>1 DEF InRing, TypeOK
      <4> QED
        BY <3>1, <4>1, TableChanges DEF TableInv
    <3> QED
      BY <1>2, <2>1, <2>2, <3>1
  <2>3. ASSUME NEW q \in Requests, NEW g \in 0 .. gen, NEW k \in Int, Wrote(q, g, k)
        PROVE  ring'[gen'][i] \in table' \cup {NoSession, Earlier}
    <3>1. table' = table /\ q \in table
      BY <2>3 DEF Wrote, TableInv
    <3>2. g \in 0 .. MaxGen /\ ring[g] \in [Slots -> Sessions]
      <4>1. g \in 0 .. MaxGen
        BY <1>0, MaxGenAssumption
      <4> QED
        BY <4>1 DEF TypeOK
    <3>3. With(ring[g], k, q)[i] \in {ring[g][i], q}
      BY <3>2, RingTypes
    <3>4. ring'[gen][i] \in {ring[gen][i], q}
      BY <1>0, <2>3, <3>2, <3>3 DEF Wrote, TypeOK
    <3> QED
      BY <1>2, <2>1, <3>1, <3>4
  <2> QED
    BY <2>2, <2>3, RingChanges
<1> QED
  BY <1>1, <1>2, AccountChanges

-----------------------------------------------------------------------------
(* Logins that overlap.                                                    *)

(* What a step does to a request's account and to what it has found.       *)
LEMMA LoginChanges ==
    ASSUME TypeOK, [Next]_vars, NEW r \in Requests, live', gen' = gen, faults' = MaxFaults
    PROVE  /\ faults = MaxFaults
           /\ \/ acct'[r] = acct[r] /\ old'[r] = old[r]
              \/ pc'[r] = "session" /\ old'[r] = ring[gen] /\ ring' = ring
           /\ pc'[r] \in {"session", "update"} =>
                pc[r] \in {"session", "update"} \/ (old'[r] = ring[gen] /\ ring' = ring)
           /\ pc'[r] \in {"inc", "incwrite", "ok"} =>
                pc[r] \in {"inc", "incwrite", "ok"} \/ SetSlot(r) \/ UpdataSession(r)
<1> USE DEF row, locals
<1>0. faults = MaxFaults
  <2>1. faults' = faults \/ (faults \in 0 .. MaxFaults /\ faults' = faults - 1)
    BY DEF TypeOK, Next, AddSession, vars, Register, Login,
     LoginFails, NewSession, SetSlot, UpdataSession, UpdataConflict, ReadIndex, WriteIndex,
     IncField, Delete, Check, CheckDeletes
  <2> QED
    BY <2>1, FaultsAssumption
<1> DEFINE Moved ==
           /\ \/ acct'[r] = acct[r] /\ old'[r] = old[r]
              \/ pc'[r] = "session" /\ old'[r] = ring[gen] /\ ring' = ring
           /\ pc'[r] \in {"session", "update"} =>
                pc[r] \in {"session", "update"} \/ (old'[r] = ring[gen] /\ ring' = ring)
           /\ pc'[r] \in {"inc", "incwrite", "ok"} =>
                pc[r] \in {"inc", "incwrite", "ok"} \/ SetSlot(r) \/ UpdataSession(r)
<1>1. ASSUME NEW q \in Requests, Register(q) PROVE Moved
  <2>1. gen # gen + 1
    BY MaxGenAssumption DEF TypeOK
  <2> QED
    BY <1>1, <2>1 DEF Register, Goto, TypeOK
<1>2. ASSUME NEW q \in Requests, Login(q) PROVE Moved
  BY <1>2 DEF Login, Begin, Hold, Goto, TypeOK
<1>3. ASSUME NEW q \in Requests, SetSlot(q) \/ UpdataSession(q) PROVE Moved
  <2>1. /\ acct' = acct /\ old' = old /\ pc[q] = "update" /\ pc'[q] = "inc"
        /\ q # r => pc'[r] = pc[r]
    BY <1>3 DEF SetSlot, UpdataSession, Goto, TypeOK
  <2> QED
    BY <1>3, <2>1
<1>4. ASSUME NEW q \in Requests, UpdataConflict(q) PROVE FALSE
  BY <1>0, <1>4, FaultsAssumption DEF UpdataConflict, TypeOK
<1>5. ASSUME NEW q \in Requests,
             LoginFails(q) \/ NewSession(q) \/ ReadIndex(q) \/ WriteIndex(q) \/ IncField(q)
      PROVE  Moved
  BY <1>5 DEF LoginFails, NewSession, ReadIndex, WriteIndex, IncField, Goto, TypeOK
<1>6. ASSUME \/ Delete \/ UNCHANGED vars
             \/ \E q \in Requests : Check(q) \/ CheckDeletes(q)
      PROVE  Moved
  BY <1>6 DEF Delete, Check, CheckDeletes, vars
<1>7. Moved
  BY <1>1, <1>2, <1>3, <1>4, <1>5, <1>6 DEF Next, AddSession
<1> QED
  BY <1>0, <1>7

(* Whoever passes the ring has put a session into it, or somebody else has.*)
LEMMA PassingTheRing ==
    ASSUME TypeOK, GenInv, LoginInv, [Next]_vars, NEW r \in Requests,
           SetSlot(r) \/ UpdataSession(r), live, faults = MaxFaults, acct[r] = gen
    PROVE  Somebody'
<1>0. /\ gen \in 0 .. MaxGen /\ ring[gen] \in [Slots -> Sessions] /\ at[r] \in Int
      /\ index[gen] \in Int /\ pc[r] = "update" /\ live' = live /\ gen' = gen
  <2>1. gen \in 0 .. MaxGen /\ ring[gen] \in [Slots -> Sessions]
    BY DEF TypeOK
  <2>2. at[r] \in 0 .. IndexSize - 1 /\ index[gen] \in 0 .. IndexSize - 1
    BY DEF TypeOK
  <2>3. pc[r] = "update" /\ live' = live /\ gen' = gen
    BY DEF SetSlot, UpdataSession
  <2> QED
    BY <2>1, <2>2, <2>3, IndexSizeAssumption
<1>1. ASSUME NEW i \in Int, ring' = [ring EXCEPT ![gen] = With(@, i, r)] PROVE Somebody'
  <2>1. i % 3 \in Slots /\ With(ring[gen], i, r)[i % 3] = r
    <3>1. ring[gen] \in [Slots -> Sessions] /\ i \in Int /\ r \in Requests
      BY <1>0, <1>1
    <3> QED
      BY ONLY <3>1, RingTypes
  <2>2. ring'[gen] = With(ring[gen], i, r)
    BY <1>0, <1>1 DEF TypeOK
  <2> QED
    BY <1>0, <2>1, <2>2 DEF InRing, Somebody
<1>2. CASE SetSlot(r)
  BY <1>0, <1>1, <1>2 DEF SetSlot
<1>3. CASE UpdataSession(r) /\ WriteRing(r)
  BY <1>0, <1>1, <1>3 DEF WriteRing
<1>4. CASE UpdataSession(r) /\ ~ WriteRing(r)
  <2>1. ring[gen] # old[r]
    BY <1>4 DEF UpdataSession, UpdataHits
  <2>2. Somebody
    BY <1>0, <2>1 DEF LoginInv
  <2> QED
    BY <1>0, <2>2, RingGrows
<1> QED
  BY <1>2, <1>3, <1>4

(* Every step keeps the invariant of logins.                               *)
LEMMA LoginStep == TypeOK /\ GenInv /\ LoginInv /\ [Next]_vars => LoginInv'
<1> SUFFICES ASSUME TypeOK, GenInv, LoginInv, [Next]_vars, live', faults' = MaxFaults,
                    NEW r \in Requests, acct'[r] = gen'
             PROVE  /\ pc'[r] \in {"session", "update"} => old'[r] = ring'[gen'] \/ Somebody'
                    /\ pc'[r] \in {"inc", "incwrite", "ok"} => Somebody'
  BY DEF LoginInv
<1>0. gen \in 0 .. MaxGen /\ gen \in Nat /\ acct[r] <= gen /\ acct[r] \in Nat
  BY MaxGenAssumption DEF TypeOK, GenInv
<1>1. ASSUME NEW q \in Requests, Register(q), ~ live, ~ husk, gen' = gen + 1, gen < MaxGen
      PROVE  pc'[r] = "session" /\ old'[r] = ring'[gen']
  <2>1. Begin(q, gen + 1, EmptyRing, 0) /\ ring' = ring
    BY <1>1 DEF Register, row
  <2>2. r = q
    BY <1>0, <1>1, <2>1 DEF Begin, Hold, TypeOK
  <2>3. ring[gen'] = EmptyRing
    BY <1>0, <1>1, MaxGenAssumption DEF GenInv
  <2> QED
    BY <1>1, <2>1, <2>2, <2>3 DEF Begin, Hold, Goto, TypeOK
<1>2. ASSUME live' = live, gen' = gen
      PROVE  /\ pc'[r] \in {"session", "update"} => old'[r] = ring'[gen'] \/ Somebody'
             /\ pc'[r] \in {"inc", "incwrite", "ok"} => Somebody'
  <2>1. faults = MaxFaults /\ live
    BY <1>2, LoginChanges
  <2>2. ring'[gen] = ring[gen] \/ Somebody'
    BY <1>2, RingGrows
  <2>3. Somebody => Somebody'
    BY <1>2, <2>1, RingGrows
  <2>4. CASE acct'[r] = acct[r] /\ old'[r] = old[r]
    <3>1. pc'[r] \in {"session", "update"} => old'[r] = ring'[gen'] \/ Somebody'
      BY <1>2, <2>1, <2>2, <2>3, <2>4, LoginChanges DEF LoginInv
    <3>2. pc'[r] \in {"inc", "incwrite", "ok"} => Somebody'
      <4>1. CASE pc[r] \in {"inc", "incwrite", "ok"}
        BY <1>2, <2>1, <2>3, <2>4, <4>1 DEF LoginInv
      <4>2. CASE SetSlot(r) \/ UpdataSession(r)
        BY <1>2, <2>1, <2>4, <4>2, PassingTheRing
      <4> QED
        BY <1>2, <4>1, <4>2, LoginChanges
    <3> QED
      BY <3>1, <3>2
  <2>5. CASE pc'[r] = "session" /\ old'[r] = ring[gen] /\ ring' = ring
    BY <1>2, <2>5
  <2> QED
    BY <1>2, <2>4, <2>5, LoginChanges
<1> QED
  BY <1>1, <1>2, AccountChanges

-----------------------------------------------------------------------------
(* Logins that nothing overlaps.                                           *)

(* What has yet to come stays as it is.                                    *)
LEMMA YetToComeStep == TypeOK /\ GenInv /\ YetToCome /\ [Next]_vars => YetToCome'
<1> SUFFICES ASSUME TypeOK, GenInv, YetToCome, [Next]_vars PROVE YetToCome'
  OBVIOUS
<1> USE DEF row, locals
<1>0. /\ gen \in Nat /\ MaxGen \in Nat /\ gen \in 0 .. MaxGen
      /\ \A r \in Requests : acct[r] \in 0 .. MaxGen /\ acct[r] <= gen
  BY MaxGenAssumption DEF TypeOK, GenInv
<1>1. ASSUME NEW q \in Requests, NEW g, NEW s, NEW i, Begin(q, g, s, i)
      PROVE  \A r \in Requests : pc'[r] = "idle" => alone'[r]
  <2>1. \A r \in Requests : pc'[r] = "idle" => r # q /\ pc[r] = "idle"
    BY <1>1 DEF Begin, Goto, TypeOK
  <2>2. \A r \in Requests : pc[r] = "idle" => r \notin Overlaps(q)
    BY DEF Overlaps, Running
  <2> QED
    BY <1>1, <2>1, <2>2 DEF Begin, YetToCome
<1>2. \A r \in Requests : pc'[r] = "idle" => alone'[r]
  <2>1. CASE \E q \in Requests : Register(q) \/ Login(q)
    <3>1. PICK q \in Requests : Register(q) \/ Login(q)
      BY <2>1
    <3>2. CASE alone' = alone
      BY <3>1, <3>2 DEF Register, Login, Begin, Goto, TypeOK, YetToCome
    <3> QED
      BY <1>1, <3>1, <3>2 DEF Register, Login
  <2>2. CASE ~ \E q \in Requests : Register(q) \/ Login(q)
    <3>1. alone' = alone /\ \A r \in Requests : pc'[r] = "idle" => pc[r] = "idle"
      BY <2>2 DEF Next, AddSession, vars, LoginFails, NewSession, SetSlot, UpdataSession,
         UpdataConflict, ReadIndex, WriteIndex, IncField, Delete, Check, CheckDeletes,
         Goto, TypeOK
    <3> QED
      BY <3>1 DEF YetToCome
  <2> QED
    BY <2>1, <2>2
<1>3. ASSUME NEW g \in 0 .. MaxGen, g > gen' PROVE index'[g] = 0
  <2>1. gen' \in {gen, gen + 1}
    BY AccountChanges
  <2>2. g > gen /\ index[g] = 0
    BY <1>0, <1>3, <2>1 DEF YetToCome
  <2>3. \/ index' = index
        \/ \E h \in 0 .. gen, i \in 0 .. IndexSize - 1 : index' = [index EXCEPT ![h] = i]
    <3>1. ASSUME NEW q \in Requests, WriteIndex(q)
          PROVE  \E h \in 0 .. gen, i \in 0 .. IndexSize - 1 :
                    index' = [index EXCEPT ![h] = i]
      <4>1. acct[q] \in 0 .. gen /\ NextIndex(at[q]) \in 0 .. IndexSize - 1
        BY <1>0, NextIndexType DEF TypeOK
      <4> QED
        BY <3>1, <4>1 DEF WriteIndex
    <3>2. ASSUME NEW q \in Requests, IncField(q)
          PROVE  \/ index' = index
                 \/ \E h \in 0 .. gen, i \in 0 .. IndexSize - 1 :
                        index' = [index EXCEPT ![h] = i]
      <4>1. gen \in 0 .. gen /\ NextIndex(index[gen]) \in 0 .. IndexSize - 1
        BY <1>0, NextIndexType DEF TypeOK
      <4>2. index' = index \/ index' = [index EXCEPT ![gen] = NextIndex(index[gen])]
        BY <3>2 DEF IncField
      <4> QED
        BY <4>1, <4>2
    <3> QED
      BY <3>1, <3>2 DEF Next, AddSession, vars, Register, Login, LoginFails, NewSession,
         SetSlot, UpdataSession, UpdataConflict, ReadIndex, Delete, Check, CheckDeletes
  <2> QED
    BY <1>0, <2>2, <2>3 DEF TypeOK
<1> QED
  BY <1>2, <1>3 DEF YetToCome

(* A request that begins holds the row as it is.                           *)
LEMMA BeginHolds ==
    ASSUME TypeOK, GenInv, YetToCome, [Next]_vars, NEW q \in Requests,
           Register(q) \/ Login(q), pc'[q] = "session"
    PROVE  /\ acct'[q] = gen' /\ old'[q] = ring'[gen'] /\ at'[q] = index'[gen']
           /\ ring' = ring /\ index' = index /\ faults' = faults /\ live'
           /\ \A r \in Requests \ {q} :
                pc'[r] = pc[r] /\ (alone'[r] => alone[r] /\ r \notin Overlaps(q))
           /\ alone'[q] => Overlaps(q) = {}
<1> USE DEF row, locals
<1>0. gen \in Nat /\ MaxGen \in Nat /\ pc[q] = "idle"
  BY MaxGenAssumption DEF TypeOK, Register, Login
<1>1. ASSUME NEW g, NEW s, NEW i, Begin(q, g, s, i)
      PROVE  /\ acct'[q] = g /\ old'[q] = s /\ at'[q] = i
             /\ \A r \in Requests \ {q} :
                    pc'[r] = pc[r] /\ (alone'[r] => alone[r] /\ r \notin Overlaps(q))
             /\ alone'[q] => Overlaps(q) = {}
  BY <1>1 DEF Begin, Hold, Goto, TypeOK
<1>2. CASE Login(q)
  BY <1>1, <1>2 DEF Login
<1>3. CASE Register(q)
  <2>1. /\ gen < MaxGen /\ live' /\ gen' = gen + 1 /\ Begin(q, gen + 1, EmptyRing, 0)
        /\ ring' = ring /\ index' = index /\ faults' = faults
    <3>1. ~ Goto(q, "refused")
      BY DEF Goto, TypeOK
    <3> QED
      BY <1>3, <3>1 DEF Register
  <2>2. gen' \in 0 .. MaxGen /\ gen' > gen
    BY <1>0, <2>1
  <2>3. ring[gen'] = EmptyRing /\ index[gen'] = 0
    BY <2>2 DEF GenInv, YetToCome
  <2> QED
    BY <1>1, <2>1, <2>3
<1> QED
  BY <1>2, <1>3

(* A step of request q that is under way.                                  *)
Works(q) ==
    \/ NewSession(q) \/ SetSlot(q) \/ UpdataSession(q) \/ UpdataConflict(q)
    \/ ReadIndex(q) \/ WriteIndex(q) \/ IncField(q)

(* A step that is neither the beginning of a request nor one of its work.  *)
Stands == /\ alone' = alone /\ faults' = faults /\ ring' = ring /\ index' = index
          /\ UNCHANGED locals
          /\ gen' = gen /\ live' \in {live, FALSE}
          /\ \A r \in Requests : pc'[r] = pc[r] \/ pc'[r] \in {"refused", "panic"}
          /\ \A r \in Requests : pc'[r] \in Running \/ pc[r] \in Running => pc'[r] = pc[r]

(* A step is one of these.                                                 *)
LEMMA LoneSteps ==
    ASSUME TypeOK, [Next]_vars
    PROVE  \/ Stands
           \/ \E q \in Requests :
                \/ Works(q) /\ pc[q] \in Running /\ alone' = alone /\ live' = live /\ gen' = gen
                    /\ \A r \in Requests \ {q} : pc'[r] = pc[r]
                \/ (Register(q) \/ Login(q)) /\ pc'[q] = "session"
<1> USE DEF row, locals
<1>1. ASSUME NEW q \in Requests, Register(q) PROVE pc'[q] = "session" \/ Stands
  BY <1>1 DEF Register, Begin, Goto, TypeOK, Stands, Running
<1>2. ASSUME NEW q \in Requests, Login(q) PROVE pc'[q] = "session"
  BY <1>2 DEF Login, Begin, Goto, TypeOK
<1>3. ASSUME NEW q \in Requests, LoginFails(q) PROVE Stands
  BY <1>3 DEF LoginFails, Goto, TypeOK, Stands, Running
<1>4. ASSUME NEW q \in Requests, Works(q)
      PROVE  /\ pc[q] \in Running /\ alone' = alone /\ live' = live /\ gen' = gen
             /\ \A r \in Requests \ {q} : pc'[r] = pc[r]
  BY <1>4 DEF Works, NewSession, SetSlot, UpdataSession, UpdataConflict, ReadIndex,
     WriteIndex, IncField, Goto, TypeOK, Running
<1>5. ASSUME \/ Delete \/ UNCHANGED vars
             \/ \E q \in Requests : Check(q) \/ CheckDeletes(q)
      PROVE  Stands
  BY <1>5 DEF Delete, Check, CheckDeletes, vars, Stands
<1> QED
  BY <1>1, <1>2, <1>3, <1>4, <1>5 DEF Next, AddSession, Works

(* A request that nothing overlaps has its session written, into the slot  *)
(* of the index of the account.                                            *)
LEMMA LoneWrite ==
    ASSUME TypeOK, LoneInv, NEW q \in Requests, SetSlot(q) \/ UpdataSession(q),
           alone[q], live
    PROVE  /\ ring' = [ring EXCEPT ![gen] = With(@, index[gen], q)]
           /\ index' = index /\ faults' = faults /\ pc[q] = "update" /\ pc'[q] = "inc"
<1>1. /\ pc[q] = "update" /\ pc'[q] = "inc" /\ index' = index /\ faults' = faults
  BY DEF SetSlot, UpdataSession, Goto, TypeOK
<1>2. acct[q] = gen /\ old[q] = ring[gen] /\ at[q] = index[gen]
  BY <1>1 DEF LoneInv, Running
<1>3. CASE SetSlot(q)
  BY <1>1, <1>2, <1>3 DEF SetSlot
<1>4. CASE UpdataSession(q)
  <2>1. UpdataHits(q)
    BY <1>2 DEF UpdataHits
  <2>2. WriteRing(q)
    BY <1>4, <2>1 DEF UpdataSession
  <2> QED
    BY <1>1, <1>2, <2>2 DEF WriteRing
<1> QED
  BY <1>3, <1>4

(* What the ring of the account is after that.                             *)
LEMMA LoneRing ==
    ASSUME TypeOK, NEW q \in Requests, ring' = [ring EXCEPT ![gen] = With(@, index[gen], q)]
    PROVE  /\ index[gen] \in 0 .. IndexSize - 1 /\ index[gen] % 3 \in Slots
           /\ ring'[gen] = [ring[gen] EXCEPT ![index[gen] % 3] = q]
           /\ ring[gen] \in [Slots -> Sessions] /\ q # NoSession
<1>1. index[gen] \in 0 .. IndexSize - 1 /\ ring[gen] \in [Slots -> Sessions]
  BY DEF TypeOK
<1>2. index[gen] % 3 \in Slots
  BY <1>1, IndexSizeAssumption, RingTypes
<1>3. ring'[gen] = With(ring[gen], index[gen], q)
  BY DEF TypeOK
<1> QED
  BY <1>1, <1>2, <1>3, RequestsAssumption DEF With

(* A request that nothing overlaps finds at each step what it left.        *)
LEMMA LoneStep == TypeOK /\ GenInv /\ YetToCome /\ LoneInv /\ [Next]_vars => LoneInv'
<1> SUFFICES ASSUME TypeOK, GenInv, YetToCome, LoneInv, [Next]_vars,
                    NEW r \in Requests, alone'[r], pc'[r] \in Running
             PROVE  /\ Overlaps(r)' = {}
                    /\ live' =>
                        /\ acct'[r] = gen'
                        /\ pc'[r] \in {"session", "update"} =>
                                old'[r] = ring'[gen'] /\ at'[r] = index'[gen']
                        /\ pc'[r] = "incwrite" => at'[r] = index'[gen']
                        /\ pc'[r] \in {"inc", "incwrite"} /\ faults' = MaxFaults => InRing(r)'
  BY DEF LoneInv
<1> DEFINE Goal == /\ Overlaps(r)' = {}
                   /\ live' =>
                        /\ acct'[r] = gen'
                        /\ pc'[r] \in {"session", "update"} =>
                                old'[r] = ring'[gen'] /\ at'[r] = index'[gen']
                        /\ pc'[r] = "incwrite" => at'[r] = index'[gen']
                        /\ pc'[r] \in {"inc", "incwrite"} /\ faults' = MaxFaults => InRing(r)'
<1> USE DEF row, locals
<1>1. CASE Stands
  <2>1. alone[r] /\ pc[r] \in Running /\ pc'[r] = pc[r]
    BY <1>1 DEF Stands
  <2>2. Overlaps(r)' = Overlaps(r)
    BY <1>1 DEF Stands, Overlaps
  <2>3. live' => live
    BY <1>1 DEF Stands
  <2> QED
    BY <1>1, <2>1, <2>2, <2>3 DEF Stands, LoneInv, InRing
<1>2. ASSUME NEW q \in Requests, Register(q) \/ Login(q), pc'[q] = "session" PROVE Goal
  <2>1. /\ acct'[q] = gen' /\ old'[q] = ring'[gen'] /\ at'[q] = index'[gen']
        /\ \A s \in Requests \ {q} :
                pc'[s] = pc[s] /\ (alone'[s] => alone[s] /\ s \notin Overlaps(q))
        /\ alone'[q] => Overlaps(q) = {}
    BY <1>2, BeginHolds
  <2>2. r = q
    BY <2>1 DEF Overlaps
  <2>3. Overlaps(q)' = Overlaps(q)
    BY <2>1 DEF Overlaps
  <2> QED
    BY <1>2, <2>1, <2>2, <2>3
<1>3. ASSUME NEW q \in Requests, Works(q), pc[q] \in Running, alone' = alone, live' = live,
             gen' = gen, \A s \in Requests \ {q} : pc'[s] = pc[s]
      PROVE  Goal
  <2>1. r = q
    <3>1. CASE r # q
      <4>1. alone[r] /\ pc[r] \in Running /\ q \in Overlaps(r)
        BY <1>3, <3>1 DEF Overlaps
      <4> QED
        BY <4>1 DEF LoneInv
    <3> QED
      BY <3>1
  <2>2. Overlaps(r) = {} /\ alone[r] /\ pc[r] \in Running
    BY <1>3, <2>1 DEF LoneInv
  <2>3. Overlaps(r)' = {}
    BY <1>3, <2>1, <2>2 DEF Overlaps
  <2>4. CASE ~ live
    BY <1>3, <2>3, <2>4
  <2>5. CASE live
    <3>1. acct[r] = gen
      BY <2>2, <2>5 DEF LoneInv
    <3>2. CASE NewSession(r)
      <4>1. pc[r] = "session" /\ pc'[r] = "update"
        BY <3>2 DEF NewSession, Goto, TypeOK
      <4> QED
        BY <1>3, <2>2, <2>3, <2>5, <3>1, <3>2, <4>1 DEF NewSession, LoneInv
    <3>3. CASE SetSlot(r) \/ UpdataSession(r)
      <4>1. /\ ring' = [ring EXCEPT ![gen] = With(@, index[gen], r)] /\ pc'[r] = "inc"
        BY <2>2, <2>5, <3>3, LoneWrite
      <4>2. InRing(r)'
        <5>1. index[gen] % 3 \in Slots /\ ring'[gen][index[gen] % 3] = r
          <6>1. /\ index[gen] % 3 \in Slots /\ ring[gen] \in [Slots -> Sessions]
                /\ ring'[gen] = [ring[gen] EXCEPT ![index[gen] % 3] = r]
            BY <4>1, LoneRing
          <6> QED
            BY ONLY <6>1
        <5> QED
          BY <1>3, <2>5, <5>1 DEF InRing
      <4>3. acct' = acct
        BY <3>3 DEF SetSlot, UpdataSession
      <4> QED
        BY <1>3, <2>3, <3>1, <4>1, <4>2, <4>3
    <3>4. CASE UpdataConflict(r)
      <4>1. pc'[r] = "inc" /\ acct' = acct /\ faults' # MaxFaults
        BY <3>4, FaultsAssumption DEF UpdataConflict, Goto, TypeOK
      <4> QED
        BY <1>3, <2>3, <3>1, <4>1
    <3>5. CASE ReadIndex(r)
      <4>1. /\ pc[r] = "inc" /\ pc'[r] = "incwrite" /\ acct' = acct /\ index' = index
            /\ ring' = ring /\ faults' = faults /\ at'[r] = index[gen]
        BY <3>1, <3>5 DEF ReadIndex, Goto, TypeOK
      <4>2. InRing(r)' <=> InRing(r)
        BY <1>3, <4>1 DEF InRing
      <4> QED
        BY <1>3, <2>2, <2>3, <2>5, <3>1, <4>1, <4>2 DEF LoneInv
    <3>6. CASE WriteIndex(r) \/ IncField(r)
      <4>1. pc'[r] \notin Running
        BY <3>6 DEF WriteIndex, IncField, Goto, TypeOK, Running
      <4> QED
        BY <4>1
    <3> QED
      BY <1>3, <2>1, <3>2, <3>3, <3>4, <3>5, <3>6 DEF Works
  <2> QED
    BY <2>4, <2>5
<1> QED
  BY <1>1, <1>2, <1>3, LoneSteps

(* A write past a full ring, or into the free slot at the index.           *)
LEMMA FillWrite ==
    ASSUME TypeOK, NEW q \in Requests, gen' = gen, index' = index, ~ PastRing, PastRing',
           ring' = [ring EXCEPT ![gen] = With(@, index[gen], q)], Full \/ FilledUp
    PROVE  /\ Full' \/ FilledUp'
           /\ \A i \in Slots : ring[gen][i] \notin {NoSession, ring'[gen][i]} => Full
<1> DEFINE k == index[gen]
<1>1. /\ k \in Nat /\ k % 3 \in Slots /\ q # NoSession
      /\ ring[gen] \in [Slots -> Sessions]
      /\ ring'[gen] = [ring[gen] EXCEPT ![k % 3] = q]
  <2>1. /\ k \in 0 .. IndexSize - 1 /\ k % 3 \in Slots /\ q # NoSession
        /\ ring[gen] \in [Slots -> Sessions]
        /\ ring'[gen] = [ring[gen] EXCEPT ![k % 3] = q]
    BY LoneRing
  <2>2. k \in Nat
    BY <2>1, IndexSizeAssumption
  <2> QED
    BY <2>1, <2>2
<1>2. \A j \in Slots : ring'[gen][j] = IF j = k % 3 THEN q ELSE ring[gen][j]
  BY <1>1
<1>3. CASE Full
  <2>1. Full'
    BY <1>1, <1>2, <1>3 DEF Full
  <2> QED
    BY <1>3, <2>1
<1>4. CASE FilledUp /\ ~ Full
  <2>1. \A j \in Slots : ring[gen][j] # NoSession <=> j < k
    BY <1>1, <1>4 DEF FilledUp, Slots
  <2>2. k \in Slots /\ k % 3 = k
    BY <1>1, <1>4, <2>1 DEF Full, Slots
  <2>3. \A j \in Slots : ring'[gen][j] # NoSession <=> j < k \/ j = k
    BY <1>1, <1>2, <2>1, <2>2
  <2>4. FilledUp'
    BY <2>3 DEF FilledUp
  <2>5. ring[gen][k] = NoSession
    BY <1>1, <2>1, <2>2
  <2> QED
    BY <1>2, <2>2, <2>4, <2>5
<1> QED
  BY <1>3, <1>4

(* The increment that follows it.                                          *)
LEMMA FillIndex ==
    ASSUME TypeOK, gen' = gen, ring' = ring, PastRing, ~ PastRing', Full \/ FilledUp,
           \/ index'[gen] = NextIndex(index[gen])
           \/ index' = index /\ index[gen] = IndexSize - 1
    PROVE  Full' \/ FilledUp'
<1>1. index[gen] \in Nat /\ index[gen] < IndexSize /\ IndexSize \in Nat /\ IndexSize >= 3
  <2>1. index[gen] \in 0 .. IndexSize - 1
    BY DEF TypeOK
  <2> QED
    BY <2>1, IndexSizeAssumption
<1>2. CASE Full
  BY <1>2 DEF Full
<1>3. CASE FilledUp /\ ~ Full
  <2>1. \A j \in Slots : ring[gen][j] # NoSession <=> j < index[gen] + 1
    BY <1>1, <1>3 DEF FilledUp, Slots
  <2>2. index[gen] + 1 < 3
    <3>1. PICK j \in Slots : ring[gen][j] = NoSession
      BY <1>3 DEF Full
    <3> QED
      BY <1>1, <2>1, <3>1 DEF Slots
  <2>3. index'[gen] = index[gen] + 1
    BY <1>1, <2>2 DEF NextIndex
  <2>4. FilledUp'
    BY <2>1, <2>3 DEF FilledUp
  <2> QED
    BY <2>4
<1> QED
  BY <1>2, <1>3

(* Every step of logins that do not overlap keeps the ring filled up, and  *)
(* none takes a session from a ring that is not full.                      *)
LEMMA FillStep ==
    ASSUME TypeOK, GenInv, YetToCome, LoneInv, FillInv, [Next]_vars
    PROVE  /\ FillInv'
           /\ live /\ faults = MaxFaults /\ Lone =>
                \A i \in Slots : ring[gen][i] \notin {NoSession, ring'[gen][i]} => Full
<1> DEFINE Kept == live /\ faults = MaxFaults /\ Lone =>
                \A i \in Slots : ring[gen][i] \notin {NoSession, ring'[gen][i]} => Full
<1> USE DEF row, locals
<1>1. CASE Stands
  <2>1. PastRing' <=> PastRing
    BY <1>1 DEF Stands, PastRing, Running
  <2>2. FillInv'
    BY <1>1, <2>1 DEF Stands, FillInv, Lone, Full, FilledUp
  <2> QED
    BY <1>1, <2>2 DEF Stands
<1>2. ASSUME NEW q \in Requests, Register(q) \/ Login(q), pc'[q] = "session"
      PROVE  FillInv' /\ Kept
  <2>1. /\ ring' = ring /\ index' = index /\ faults' = faults /\ live'
        /\ \A r \in Requests \ {q} :
                pc'[r] = pc[r] /\ (alone'[r] => alone[r] /\ r \notin Overlaps(q))
    BY <1>2, BeginHolds
  <2>2. pc[q] = "idle"
    BY <1>2 DEF Register, Login
  <2>3. Lone' => Lone /\ ~ PastRing /\ ~ PastRing'
    <3>1. Lone' => Lone
      BY <2>1, <2>2 DEF Lone, YetToCome
    <3>2. Lone' => \A r \in Requests : pc[r] \notin {"inc", "incwrite"} /\
                                       pc'[r] \notin {"inc", "incwrite"}
      BY <1>2, <2>1, <2>2 DEF Lone, Overlaps, Running
    <3> QED
      BY <3>1, <3>2 DEF PastRing
  <2>4. CASE Login(q)
    <3>1. live /\ gen' = gen
      BY <2>4 DEF Login
    <3> QED
      BY <2>1, <2>3, <3>1 DEF FillInv, Full, FilledUp
  <2>5. CASE Register(q)
    <3>1. gen' = gen + 1 /\ gen < MaxGen
      <4>1. ~ Goto(q, "refused")
        BY <1>2 DEF Goto, TypeOK
      <4> QED
        BY <2>5, <4>1 DEF Register
    <3>2. gen' \in 0 .. MaxGen /\ gen' > gen
      BY <3>1, MaxGenAssumption DEF TypeOK
    <3>3. ring'[gen'] = EmptyRing /\ index'[gen'] = 0
      BY <2>1, <3>2 DEF GenInv, YetToCome
    <3>4. ~ PastRing' => FilledUp'
      BY <3>3 DEF FilledUp, EmptyRing, Slots
    <3> QED
      BY <2>1, <2>3, <3>4 DEF FillInv
  <2> QED
    BY <1>2, <2>4, <2>5
<1>3. ASSUME NEW q \in Requests, Works(q), pc[q] \in Running, alone' = alone, live' = live,
             gen' = gen, \A s \in Requests \ {q} : pc'[s] = pc[s]
      PROVE  FillInv' /\ Kept
  <2>1. faults' # MaxFaults \/ faults' = faults
    BY <1>3, FaultsAssumption DEF Works, NewSession, SetSlot, UpdataSession, UpdataConflict,
       ReadIndex, WriteIndex, IncField, TypeOK
  <2>2. (Lone' <=> Lone) /\ (faults' = MaxFaults => faults = MaxFaults)
    BY <1>3, <2>1 DEF Lone
  <2>3. CASE ~ (live /\ faults = MaxFaults /\ Lone)
    BY <1>3, <2>2, <2>3 DEF FillInv
  <2>4. CASE live /\ faults = MaxFaults /\ Lone
    <3>1. alone[q] /\ acct[q] = gen /\ Overlaps(q) = {} /\ (Full \/ FilledUp)
      BY <1>3, <2>4 DEF Lone, LoneInv, FillInv
    <3>2. /\ PastRing <=> pc[q] \in {"inc", "incwrite"}
          /\ PastRing' <=> pc'[q] \in {"inc", "incwrite"}
      BY <1>3, <3>1 DEF PastRing, Overlaps, Running
    <3>3. ASSUME ring' = ring, index' = index, PastRing' <=> PastRing PROVE FillInv' /\ Kept
      BY <1>3, <3>1, <3>3 DEF FillInv, Full, FilledUp
    <3>4. CASE NewSession(q)
      <4>1. pc[q] = "session" /\ pc'[q] = "update" /\ ring' = ring /\ index' = index
        BY <3>4 DEF NewSession, Goto, TypeOK
      <4> QED
        BY <3>2, <3>3, <4>1
    <3>5. CASE SetSlot(q) \/ UpdataSession(q)
      <4>1. /\ ring' = [ring EXCEPT ![gen] = With(@, index[gen], q)]
            /\ index' = index /\ pc[q] = "update" /\ pc'[q] = "inc"
        BY <2>4, <3>1, <3>5, LoneWrite
      <4>2. ~ PastRing /\ PastRing'
        BY <3>2, <4>1
      <4> QED
        BY <1>3, <3>1, <4>1, <4>2, FillWrite DEF FillInv
    <3>6. CASE UpdataConflict(q)
      <4>1. faults' # MaxFaults /\ ring' = ring
        BY <3>6, FaultsAssumption DEF UpdataConflict, TypeOK
      <4> QED
        BY <4>1 DEF FillInv
    <3>7. CASE ReadIndex(q)
      <4>1. pc[q] = "inc" /\ pc'[q] = "incwrite" /\ ring' = ring /\ index' = index
        BY <3>7 DEF ReadIndex, Goto, TypeOK
      <4> QED
        BY <3>2, <3>3, <4>1
    <3>8. CASE WriteIndex(q) \/ IncField(q)
      <4>1. /\ pc[q] \in {"inc", "incwrite"} /\ pc'[q] \notin {"inc", "incwrite"}
            /\ ring' = ring
        BY <3>8 DEF WriteIndex, IncField, Goto, TypeOK
      <4>2. WriteIndex(q) => at[q] = index[gen]
        BY <2>4, <3>1 DEF WriteIndex, LoneInv, Running
      <4>3. \/ index'[gen] = NextIndex(index[gen])
            \/ index' = index /\ index[gen] = IndexSize - 1
        BY <2>4, <3>1, <3>8, <4>2 DEF WriteIndex, IncField, TypeOK
      <4> QED
        BY <1>3, <3>1, <3>2, <4>1, <4>3, FillIndex DEF FillInv
    <3> QED
      BY <1>3, <3>4, <3>5, <3>6, <3>7, <3>8 DEF Works
  <2> QED
    BY <2>3, <2>4
<1> QED
  BY <1>1, <1>2, <1>3, LoneSteps

-----------------------------------------------------------------------------
(* The invariant.                                                          *)

(* It holds before any of the requests, of a free name and of a name that  *)
(* has been logged in to.                                                  *)
LEMMA InvInit == Init => Inv
<1> SUFFICES ASSUME Init PROVE Inv
  OBVIOUS
<1> USE DEF Init
<1>0. /\ MaxGen \in Nat /\ MaxGen > 0 /\ IndexSize \in Nat /\ IndexSize > 0
      /\ 0 \in 0 .. MaxGen /\ 1 \in 0 .. MaxGen /\ gen \in {0, 1} /\ (live => gen = 1)
      /\ (~ live => gen = 0)
  BY MaxGenAssumption, IndexSizeAssumption
<1>1. ring \in [0 .. MaxGen -> [Slots -> Sessions]]
  BY DEF EmptyRing, Sessions
<1>2. index \in [0 .. MaxGen -> 0 .. IndexSize - 1]
  BY <1>0
<1>3. TypeOK
  <2>1. /\ pc \in [Requests -> {"idle"} \cup Running \cup Ended]
        /\ acct \in [Requests -> 0 .. MaxGen]
        /\ old \in [Requests -> [Slots -> Sessions]]
        /\ at \in [Requests -> 0 .. IndexSize - 1]
        /\ check \in [Requests -> BOOLEAN] /\ alone \in [Requests -> BOOLEAN]
    BY <1>0, RingTypes
  <2>2. live \in BOOLEAN /\ husk \in BOOLEAN /\ gen \in 0 .. MaxGen
    BY <1>0
  <2>3. mode \in Modes /\ table \in SUBSET Requests /\ faults \in 0 .. MaxFaults
    BY FaultsAssumption
  <2> QED
    BY <1>1, <1>2, <2>1, <2>2, <2>3 DEF TypeOK
<1>4. GenInv
  <2>1. ASSUME NEW g \in 0 .. MaxGen, g > gen PROVE ring[g] = EmptyRing
    <3>1. CASE g = 1
      <4>1. ~ live
        BY <1>0, <2>1, <3>1
      <4> QED
        BY <3>1, <4>1
    <3>2. CASE g # 1
      BY <3>2
    <3> QED
      BY <3>1, <3>2
  <2> QED
    BY <1>0, <2>1 DEF GenInv
<1>5. TableInv /\ LoginInv
  BY DEF TableInv, LoginInv
<1>6. RingIsStored
  BY <1>0 DEF RingIsStored, EmptyRing
<1>7. YetToCome /\ LoneInv
  BY <1>0 DEF YetToCome, LoneInv, Running
<1>8. FillInv
  <2> SUFFICES ASSUME live PROVE Full
    BY DEF FillInv
  <2>1. gen = 1 /\ ring[1] # EmptyRing
    BY <1>0
  <2>2. ring = [g \in 0 .. MaxGen |->
                    IF g = 1 THEN [i \in Slots |-> Earlier] ELSE EmptyRing]
    BY <1>0, <2>1
  <2>3. ring[1] = [i \in Slots |-> Earlier]
    BY <1>0, <2>2
  <2>4. Earlier # NoSession
    BY <2>1, <2>3 DEF EmptyRing
  <2> QED
    BY <2>1, <2>3, <2>4 DEF Full
<1> QED
  BY <1>3, <1>4, <1>5, <1>6, <1>7, <1>8 DEF Inv

(* And after every step.                                                   *)
LEMMA InvStep == Inv /\ [Next]_vars => Inv'
  BY TypeStep, GenStep, TableStep, RingStep, LoginStep, YetToComeStep, LoneStep, FillStep
  DEF Inv

(* Every variable keeps its type: SessionIndex wraps within its width      *)
(* (user.go:19, utils.go:69), and no slot beyond the third is written.     *)
THEOREM TypeCorrect == Spec => []TypeOK
<1>1. Inv => TypeOK
  BY DEF Inv
<1> QED
  BY <1>1, InvInit, InvStep, PTL DEF Spec

(* No check deletes a session an account still has, and no login writes a  *)
(* deleted one back (session.go:41-53, utils.go:64-74).                    *)
THEOREM RingIsStoredHolds == Spec => []RingIsStored
<1>1. Inv => RingIsStored
  BY DEF Inv
<1> QED
  BY <1>1, InvInit, InvStep, PTL DEF Spec

(* However many logins overlap, once one has answered one of their         *)
(* sessions is accepted, unless redis spoils a transaction (utils.go:70).  *)
THEOREM SomebodyLoggedInHolds == Spec => []SomebodyLoggedIn
<1>1. Inv => SomebodyLoggedIn
  BY DEF Inv, LoginInv, SomebodyLoggedIn, Somebody
<1> QED
  BY <1>1, InvInit, InvStep, PTL DEF Spec

(* A login that nothing overlaps answers with a session that is accepted,  *)
(* unless redis spoils a transaction (utils.go:64-74).                     *)
THEOREM LoneLoginAcceptedHolds == Spec => LoneLoginAccepted
<1> DEFINE Accepted == \A r \in Requests :
        pc[r] # "ok" /\ pc'[r] = "ok" /\ alone[r] /\ faults = MaxFaults
            /\ live /\ acct[r] = gen => InRing(r)'
<1>1. ASSUME Inv, [Next]_vars, NEW r \in Requests, pc[r] # "ok", pc'[r] = "ok", alone[r],
             faults = MaxFaults, live
      PROVE  InRing(r)'
  <2>1. WriteIndex(r) \/ IncField(r)
    <3>1. TypeOK
      BY <1>1 DEF Inv
    <3>2. ASSUME NEW q \in Requests, Register(q) \/ Login(q) \/ LoginFails(q) PROVE FALSE
      BY <1>1, <3>1, <3>2 DEF Register, Login, Begin, LoginFails, Goto, TypeOK
    <3>3. ASSUME NEW q \in Requests,
                 \/ NewSession(q) \/ SetSlot(q) \/ UpdataSession(q) \/ UpdataConflict(q)
                 \/ ReadIndex(q)
          PROVE  FALSE
      BY <1>1, <3>1, <3>3 DEF NewSession, SetSlot, UpdataSession, UpdataConflict, ReadIndex,
         Goto, TypeOK
    <3>4. ASSUME NEW q \in Requests, WriteIndex(q) \/ IncField(q) PROVE q = r
      BY <1>1, <3>1, <3>4 DEF WriteIndex, IncField, Goto, TypeOK
    <3>5. pc' # pc
      BY <1>1
    <3> QED
      BY <1>1, <3>2, <3>3, <3>4, <3>5 DEF Next, AddSession, vars, Delete, Check, CheckDeletes
  <2>2. pc[r] \in {"inc", "incwrite"} /\ ring' = ring /\ live' = live /\ gen' = gen
    BY <2>1 DEF WriteIndex, IncField
  <2>3. InRing(r)
    BY <1>1, <2>2 DEF Inv, LoneInv, Running
  <2> QED
    BY <2>2, <2>3 DEF InRing
<1>2. Inv /\ [Next]_vars => [Accepted]_vars
  BY <1>1
<1>3. Spec => [][Accepted]_vars
  BY <1>2, InvInit, InvStep, PTL DEF Spec
<1> QED
  BY <1>3 DEF LoneLoginAccepted

(* While logins do not overlap no session is dropped from a ring that has  *)
(* a free slot: an account can be logged in from three places (user.go:24, *)
(* utils.go:69).                                                           *)
THEOREM RingFillsFirstHolds == Spec => RingFillsFirst
<1> DEFINE Fills == (\A r \in Requests : alone[r]) /\ faults = MaxFaults =>
        \A i \in Slots :
            live /\ ring[gen][i] \notin {NoSession, ring'[gen][i]} =>
                \A j \in Slots : ring[gen][j] # NoSession
<1>1. Inv /\ [Next]_vars => [Fills]_vars
  BY FillStep DEF Inv, Lone, Full
<1>2. Spec => [][Fills]_vars
  BY <1>1, InvInit, InvStep, PTL DEF Spec
<1> QED
  BY <1>2 DEF RingFillsFirst
=============================================================================
