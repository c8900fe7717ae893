----------------------------- MODULE FuseProofs -----------------------------
(* Theorems about FuseWrites, for any paths, goroutines and objects. *)
EXTENDS FuseWrites, HeadScanProofs

\* What an operation knows of the objects it works on: `used` are the objects
\* the container has or had, pa and og their paths and contents.
OpOK(x, used, pa, og) ==
    /\ x \in OpState /\ x.rest \subseteq used
    /\ x.kind # "none" => x.src \in Path
    /\ x.kind = "rename" => x.dst \in Path
    /\ x.kind = "upload" /\ x.pc \in {"put", "delete"} => \A o \in x.rest : pa[o] = x.src
    /\ x.kind = "upload" /\ x.pc = "delete" =>
          /\ x.new \in used /\ pa[x.new] = x.src
          /\ \A o \in x.rest : o < x.new
    /\ x.kind = "rename" /\ x.pc = "drop" =>
          x.new \in used /\ \A o \in x.rest : o < x.new /\ og[x.new] = og[o]

ObjectsOK ==
    /\ path \in [Object -> Path \cup {NoPath}] /\ origin \in [Object -> Object \cup {0}]
    /\ puts \in Nat
    /\ \A o \in Used : o <= puts /\ path[o] \in Path

ListingsOK == scanCache.entries \subseteq Used /\ \A p \in Proc : call[p].ids \subseteq Used

LockOK ==
    /\ nsLock \in Proc \cup {NoProc}
    /\ \A p \in Proc : op[p].kind \in {"unlink", "rename", "mkdir"} <=> nsLock = p

OpsOK == op \in [Proc -> OpState] /\ \A p \in Proc : OpOK(op[p], Used, path, origin)

(* The inductive invariant. *)
FInv ==
    /\ TypeOK /\ ObjectsOK /\ ListingsOK /\ OpsOK /\ LockOK
    /\ tracker \subseteq Path /\ TrackerDrains
    /\ unlinked \subseteq Used
    /\ ContentKept

-----------------------------------------------------------------------------
(* Every change of the container is one put, one delete, or none. *)
ServerStep ==
    \/ UNCHANGED <<serverVars, objVars>>
    \/ \E o \in Object, f \in Path, c \in Object \cup {0} : PutObject(o, f, c)
    \/ \E o \in Object : Delete(o) /\ UNCHANGED objVars

(* No step forgets an object, or changes its path or content, and objects   *)
(* that are put are numbered upwards.                                       *)
LEMMA ServerKeeps ==
    ASSUME TypeOK, ObjectsOK, ServerStep
    PROVE  /\ store' \subseteq Object /\ removed' \subseteq Object
           /\ store' \cap removed' = {}
           /\ ObjectsOK'
           /\ Used \subseteq Used'
           /\ \A o \in Used : path'[o] = path[o] /\ origin'[o] = origin[o]
           /\ \A o \in Used' \ Used : o \in store'
           /\ \A o \in store : o \in store' \cup removed'
<1> USE DEF Used, ObjectsOK, serverVars, objVars
<1>1. CASE UNCHANGED <<serverVars, objVars>>
  BY <1>1 DEF TypeOK
<1>2. ASSUME NEW o \in Object, NEW f \in Path, NEW c \in Object \cup {0}, PutObject(o, f, c)
      PROVE  /\ store' \subseteq Object /\ removed' \subseteq Object
             /\ store' \cap removed' = {}
             /\ ObjectsOK'
             /\ Used \subseteq Used'
             /\ \A x \in Used : path'[x] = path[x] /\ origin'[x] = origin[x]
             /\ \A x \in Used' \ Used : x \in store'
             /\ \A x \in store : x \in store' \cup removed'
  <2>1. /\ o = puts + 1 /\ puts' = o /\ o \notin Used
        /\ store' = store \cup {o} /\ removed' = removed
        /\ path' = [path EXCEPT ![o] = f] /\ origin' = [origin EXCEPT ![o] = c]
    BY <1>2 DEF PutObject, Put
  <2>2. puts' \in Nat /\ puts <= puts'
    BY <2>1, WritesAssumption
  <2>3. path' \in [Object -> Path \cup {NoPath}] /\ origin' \in [Object -> Object \cup {0}]
    BY <2>1
  <2>4. \A x \in Used : x \in Object /\ x # o
    BY <2>1 DEF TypeOK
  <2>5. \A x \in Used : path'[x] = path[x] /\ origin'[x] = origin[x]
    BY <2>1, <2>4
  <2>6. path'[o] = f /\ o <= puts'
    BY <2>1, <2>2
  <2>7. \A x \in Used' : x <= puts' /\ path'[x] \in Path
    <3>1. ASSUME NEW x \in Used' PROVE x <= puts' /\ path'[x] \in Path
      <4>1. CASE x = o
        BY <2>6, <4>1
      <4>2. CASE x # o
        <5>1. x \in Used /\ x \in Nat
          BY <2>1, <2>4, <4>2, WritesAssumption
        <5>2. x <= puts /\ path[x] \in Path
          BY <5>1
        <5> QED BY <2>2, <2>5, <5>1, <5>2
      <4> QED BY <4>1, <4>2
    <3> QED BY <3>1
  <2>8. store' \subseteq Object /\ removed' \subseteq Object /\ store' \cap removed' = {}
    BY <2>1 DEF TypeOK
  <2> QED BY <2>1, <2>2, <2>3, <2>5, <2>7, <2>8
<1>3. ASSUME NEW o \in Object, Delete(o), UNCHANGED objVars
      PROVE  /\ store' \subseteq Object /\ removed' \subseteq Object
             /\ store' \cap removed' = {}
             /\ ObjectsOK'
             /\ Used \subseteq Used'
             /\ \A x \in Used : path'[x] = path[x] /\ origin'[x] = origin[x]
             /\ \A x \in Used' \ Used : x \in store'
             /\ \A x \in store : x \in store' \cup removed'
  <2>1. Used' = Used /\ store' = store \ {o} /\ removed' = removed \cup {o}
    BY <1>3 DEF Delete
  <2> QED BY <1>3, <2>1 DEF TypeOK
<1> QED BY <1>1, <1>2, <1>3 DEF ServerStep

(* What an operation knows stays true while others change the container. *)
LEMMA OpOKKept ==
    ASSUME NEW x, NEW used, NEW pa, NEW og, NEW used2, NEW pa2, NEW og2,
           OpOK(x, used, pa, og), used \subseteq used2,
           \A o \in used : pa2[o] = pa[o] /\ og2[o] = og[o]
    PROVE  OpOK(x, used2, pa2, og2)
BY DEF OpOK

-----------------------------------------------------------------------------
(* A step of one operation, in general: its listing call becomes c, its     *)
(* record x.                                                                *)
NeedsLock(kind) == kind \in {"unlink", "rename", "mkdir"}

LockStep(p, x) ==
    \/ nsLock' = nsLock /\ (NeedsLock(x.kind) <=> NeedsLock(op[p].kind))
    \/ Unlock(p) /\ ~NeedsLock(x.kind)
    \/ Lock(p) /\ NeedsLock(x.kind)

TrackStep(p, x) ==
    \/ /\ tracker' = tracker
       /\ op[p].kind = "upload" => x.kind = "upload" /\ x.src = op[p].src
    \/ /\ op[p].kind # "upload" /\ x.kind = "upload"
       /\ tracker' = tracker \cup {x.src}
    \/ op[p].kind = "upload" /\ tracker' = tracker \ {op[p].src}

\* An object leaves the container because a user removes it, or because a
\* newer one has its path or a copy of its content.
GoneWell(o) ==
    \/ o \in unlinked'
    \/ \E n \in Used : n > o /\ (path[n] = path[o] \/ origin[n] = origin[o])

(* ContentKept survives a step in which every object goes well. *)
LEMMA KeptStep ==
    ASSUME TypeOK, ObjectsOK, ContentKept, ServerStep, unlinked \subseteq unlinked',
           \A o \in store \ store' : GoneWell(o)
    PROVE  ContentKept'
<1>1. /\ Used \subseteq Used'
      /\ \A o \in Used : path'[o] = path[o] /\ origin'[o] = origin[o]
      /\ \A o \in Used' \ Used : o \in store'
  BY ServerKeeps
<1>2. ASSUME NEW o \in Used'
      PROVE  \/ o \in store' \cup unlinked'
             \/ \E n \in Used' : n > o /\ (path'[n] = path'[o] \/ origin'[n] = origin'[o])
  <2>1. CASE o \notin Used
    BY <1>1, <2>1
  <2>2. CASE o \in store'
    BY <2>2
  <2>3. CASE o \in Used /\ o \notin store'
    <3>1. o \in unlinked'
          \/ \E n \in Used : n > o /\ (path[n] = path[o] \/ origin[n] = origin[o])
      <4>1. CASE o \in store
        BY <2>3, <4>1 DEF GoneWell
      <4>2. CASE o \notin store
        BY <2>3, <4>2 DEF ContentKept
      <4> QED BY <4>1, <4>2
    <3> QED BY <1>1, <2>3, <3>1
  <2> QED BY <2>1, <2>2, <2>3
<1> QED BY <1>2 DEF ContentKept

(* The general step preserves the inductive invariant. *)
LEMMA OpStep ==
    ASSUME FInv, NEW p \in Proc, NEW c, NEW x,
           call' = [call EXCEPT ![p] = c], CallOK(c), c.ids \subseteq Used,
           scanCache' \in {scanCache, NoListing}, scanInflight' = scanInflight,
           op' = [op EXCEPT ![p] = x], OpOK(x, Used', path', origin'),
           ServerStep, LockStep(p, x),
           TrackStep(p, x), x.kind = "upload" => x.src \in Path,
           unlinked \subseteq unlinked', unlinked' \subseteq Used',
           \A o \in store \ store' : GoneWell(o)
    PROVE  FInv'
<1> USE DEF FInv
<1>1. /\ store' \subseteq Object /\ removed' \subseteq Object
      /\ store' \cap removed' = {}
      /\ ObjectsOK'
      /\ Used \subseteq Used'
      /\ \A o \in Used : path'[o] = path[o] /\ origin'[o] = origin[o]
  BY ServerKeeps
<1>2. scanCache' \in Listing /\ scanCache'.entries \subseteq Used'
  <2>1. NoListing \in Listing /\ NoListing.entries = {}
    BY DEF NoListing, Listing
  <2>2. scanCache \in Listing /\ scanCache.entries \subseteq Used
    BY DEF TypeOK, ListingsOK
  <2>3. CASE scanCache' = scanCache
    BY <1>1, <2>2, <2>3
  <2>4. CASE scanCache' = NoListing
    BY <2>1, <2>4
  <2> QED BY <2>3, <2>4
<1>3. TypeOK' /\ call'[p] = c /\ \A q \in Proc : q # p => call'[q] = call[q]
  BY <1>1, <1>2, OneCall DEF TypeOK
<1>4. ListingsOK'
  <2>1. \A q \in Proc : call'[q].ids \subseteq Used'
    BY <1>1, <1>3 DEF ListingsOK
  <2> QED BY <1>2, <2>1 DEF ListingsOK
<1>5. op'[p] = x /\ (\A q \in Proc : q # p => op'[q] = op[q])
  BY DEF OpsOK
<1>6. OpsOK'
  <2>1. op' \in [Proc -> OpState]
    BY DEF OpsOK, OpOK
  <2>2. ASSUME NEW q \in Proc PROVE OpOK(op'[q], Used', path', origin')
    <3>1. CASE q = p
      BY <1>5, <3>1
    <3>2. CASE q # p
      <4>1. OpOK(op[q], Used, path, origin)
        BY DEF OpsOK
      <4>2. OpOK(op[q], Used', path', origin')
        BY <1>1, <4>1, OpOKKept
      <4> QED BY <1>5, <3>2, <4>2
    <3> QED BY <3>1, <3>2
  <2> QED BY <2>1, <2>2 DEF OpsOK
<1>7. LockOK'
  <2>1. ASSUME NEW q \in Proc PROVE NeedsLock(op'[q].kind) <=> nsLock' = q
    <3>1. /\ \A r \in Proc : NeedsLock(op[r].kind) <=> nsLock = r
          /\ nsLock \in Proc \cup {NoProc} /\ NoProc \notin Proc
      BY ScanAssumption DEF LockOK, NeedsLock
    <3>2. CASE nsLock' = nsLock /\ (NeedsLock(x.kind) <=> NeedsLock(op[p].kind))
      BY <1>5, <3>1, <3>2
    <3>3. CASE Unlock(p) /\ ~NeedsLock(x.kind)
      BY <1>5, <3>1, <3>3 DEF Unlock
    <3>4. CASE Lock(p) /\ NeedsLock(x.kind)
      BY <1>5, <3>1, <3>4 DEF Lock
    <3> QED BY <3>2, <3>3, <3>4 DEF LockStep
  <2>2. nsLock' \in Proc \cup {NoProc}
    BY DEF LockStep, Lock, Unlock, LockOK
  <2> QED BY <2>1, <2>2 DEF LockOK, NeedsLock
<1>8. tracker' \subseteq Path
  BY DEF TrackStep
<1>9. TrackerDrains'
  <2>1. ASSUME NEW f \in tracker'
        PROVE  \E q \in Proc : op'[q].kind = "upload" /\ op'[q].src = f
    <3>1. ASSUME f \in tracker
          PROVE  \E q \in Proc : op[q].kind = "upload" /\ op[q].src = f
      BY <3>1 DEF TrackerDrains, Running
    <3>2. CASE /\ tracker' = tracker
               /\ op[p].kind = "upload" => x.kind = "upload" /\ x.src = op[p].src
      <4>1. PICK q \in Proc : op[q].kind = "upload" /\ op[q].src = f
        BY <3>1, <3>2
      <4> QED BY <1>5, <3>2, <4>1
    <3>3. CASE /\ op[p].kind # "upload" /\ x.kind = "upload"
               /\ tracker' = tracker \cup {x.src}
      <4>1. CASE f = x.src
        BY <1>5, <3>3, <4>1
      <4>2. CASE f # x.src
        <5>1. PICK q \in Proc : op[q].kind = "upload" /\ op[q].src = f
          BY <3>1, <3>3, <4>2
        <5> QED BY <1>5, <3>3, <5>1
      <4> QED BY <4>1, <4>2
    <3>4. CASE op[p].kind = "upload" /\ tracker' = tracker \ {op[p].src}
      <4>1. PICK q \in Proc : op[q].kind = "upload" /\ op[q].src = f
        BY <3>1, <3>4
      <4>2. q # p
        BY <3>4, <4>1
      <4> QED BY <1>5, <4>1, <4>2
    <3> QED BY <3>2, <3>3, <3>4 DEF TrackStep
  <2> QED BY <2>1 DEF TrackerDrains, Running
<1>10. ContentKept'
  BY KeptStep
<1> QED BY <1>1, <1>3, <1>4, <1>6, <1>7, <1>8, <1>9, <1>10

-----------------------------------------------------------------------------
(* The records of an operation that begins. *)
LEMMA OpRecords ==
    /\ NoOp \in OpState /\ NoOp.kind = "none" /\ NoOp.pc = "idle" /\ NoOp.rest = {}
    /\ \A kind \in {"upload", "unlink", "rename"}, f \in Path, d \in Path \cup {NoPath},
          must \in SUBSET Object :
          LET y == [NoOp EXCEPT !.kind = kind, !.pc = "list", !.src = f, !.dst = d,
                                !.must = must]
          IN  /\ y \in OpState /\ y.kind = kind /\ y.pc = "list"
              /\ y.src = f /\ y.dst = d /\ y.rest = {}
    /\ \A f \in Path, o \in Object :
          LET y == [NoOp EXCEPT !.kind = "mkdir", !.pc = "finish", !.src = f, !.new = o]
          IN  y \in OpState /\ y.kind = "mkdir" /\ y.pc = "finish" /\ y.src = f
              /\ y.rest = {}
<1>1. NoOp \in OpState /\ NoOp.kind = "none" /\ NoOp.pc = "idle" /\ NoOp.rest = {}
  BY DEF NoOp, OpState
<1>2. ASSUME NEW kind \in {"upload", "unlink", "rename"}, NEW f \in Path,
             NEW d \in Path \cup {NoPath}, NEW must \in SUBSET Object
      PROVE  LET y == [NoOp EXCEPT !.kind = kind, !.pc = "list", !.src = f, !.dst = d,
                                   !.must = must]
             IN  /\ y \in OpState /\ y.kind = kind /\ y.pc = "list"
                 /\ y.src = f /\ y.dst = d /\ y.rest = {}
  BY DEF NoOp, OpState
<1>3. ASSUME NEW f \in Path, NEW o \in Object
      PROVE  LET y == [NoOp EXCEPT !.kind = "mkdir", !.pc = "finish", !.src = f, !.new = o]
             IN  y \in OpState /\ y.kind = "mkdir" /\ y.pc = "finish" /\ y.src = f
                 /\ y.rest = {}
  BY DEF NoOp, OpState
<1> QED BY <1>1, <1>2, <1>3

-----------------------------------------------------------------------------
(* What every action needs to know of the operation it advances. *)
LEMMA OpFacts ==
    ASSUME FInv, NEW p \in Proc
    PROVE  /\ CallOK(call[p]) /\ call[p].ids \subseteq Used /\ call[p].err \in BOOLEAN
           /\ CallOK(NoCall) /\ NoCall.ids = {}
           /\ op[p] \in OpState /\ OpOK(op[p], Used, path, origin)
           /\ op[p].rest \subseteq Used /\ Used \subseteq Object
           /\ call = [call EXCEPT ![p] = call[p]] /\ op = [op EXCEPT ![p] = op[p]]
           /\ op[p].kind # "none" => op[p].src \in Path
           /\ op[p].kind = "rename" => op[p].dst \in Path
           /\ origin \in [Object -> Object \cup {0}]
           /\ unlinked \subseteq Used
<1>1. TypeOK /\ ListingsOK /\ OpsOK /\ ObjectsOK /\ unlinked \subseteq Used
  BY DEF FInv
<1>2. CallOK(call[p]) /\ CallOK(NoCall)
  BY <1>1, TypeByCall, CallUpdates
<1>3. call[p].ids \subseteq Used /\ call[p].err \in BOOLEAN /\ NoCall.ids = {}
  BY <1>1, <1>2 DEF ListingsOK, CallOK, CallState, NoCall
<1>4. /\ op[p] \in OpState /\ OpOK(op[p], Used, path, origin)
      /\ op[p].rest \subseteq Used
      /\ op[p].kind # "none" => op[p].src \in Path
      /\ op[p].kind = "rename" => op[p].dst \in Path
  BY <1>1 DEF OpsOK, OpOK
<1>5. Used \subseteq Object
  BY <1>1 DEF Used, TypeOK
<1>6. call = [call EXCEPT ![p] = call[p]] /\ op = [op EXCEPT ![p] = op[p]]
  BY <1>1 DEF TypeOK, OpsOK
<1> QED BY <1>1, <1>2, <1>3, <1>4, <1>5, <1>6 DEF ObjectsOK

(* An operation that ends. *)
LEMMA OpEnds == \A used, pa, og : OpOK(NoOp, used, pa, og)
BY OpRecords DEF OpOK

(* The steps of an upload. *)
LEMMA UploadInv ==
    ASSUME FInv, NEW p \in Proc, Upload(p)
    PROVE  FInv'
<1> USE OpFacts DEF serverVars, scanVars, objVars, vars, Doing
<1>1. CASE UploadListed(p)
  <2> DEFINE r == IF call[p].err THEN {} ELSE Matches(p, op[p].src)
             x == [op[p] EXCEPT !.pc = "put", !.rest = r]
  <2>1. /\ op' = [op EXCEPT ![p] = x] /\ call' = [call EXCEPT ![p] = NoCall]
        /\ op[p].kind = "upload"
        /\ UNCHANGED <<store, removed, scanCache, scanInflight, path, origin, puts,
                       nsLock, tracker, unlinked>>
    BY <1>1 DEF UploadListed, Forget
  <2>2. r \subseteq Used /\ \A o \in r : path[o] = op[p].src
    BY DEF Matches
  <2> HIDE DEF r
  <2>3. /\ x \in OpState /\ x.pc = "put" /\ x.kind = "upload" /\ x.src = op[p].src
        /\ x.rest = r
    BY <2>1, <2>2 DEF OpState
  <2> HIDE DEF x
  <2>4. Used' = Used
    BY <2>1 DEF Used
  <2>5. OpOK(x, Used', path', origin')
    BY <2>1, <2>2, <2>3, <2>4 DEF OpOK
  <2>6. ServerStep /\ LockStep(p, x) /\ TrackStep(p, x)
    BY <2>1, <2>3 DEF ServerStep, LockStep, TrackStep
  <2> QED BY <2>1, <2>3, <2>4, <2>5, <2>6, OpStep
<1>2. ASSUME NEW o \in Object, UploadPut(p, o) PROVE FInv'
  <2> DEFINE r == Obsolete(p, o)
             x == [op[p] EXCEPT !.pc = "delete", !.rest = r, !.new = o]
  <2>1. /\ op' = [op EXCEPT ![p] = x] /\ op[p].kind = "upload" /\ op[p].pc = "put"
        /\ PutObject(o, op[p].src, o)
        /\ UNCHANGED <<scanCache, scanInflight, call, nsLock, tracker, unlinked>>
    BY <1>2 DEF UploadPut
  <2>2. r \subseteq op[p].rest /\ r \subseteq Object
    BY DEF Obsolete
  <2> HIDE DEF r
  <2>3. /\ x \in OpState /\ x.pc = "delete" /\ x.kind = "upload" /\ x.src = op[p].src
        /\ x.rest = r /\ x.new = o
    BY <2>1, <2>2 DEF OpState
  <2> HIDE DEF x
  <2>4. ServerStep /\ LockStep(p, x) /\ TrackStep(p, x)
    BY <2>1, <2>3 DEF ServerStep, LockStep, TrackStep
  <2>5. /\ Used \subseteq Used' /\ \A n \in Used : path'[n] = path[n]
    BY <2>4, ServerKeeps DEF FInv
  <2>6. /\ o \in Used' /\ path'[o] = op[p].src /\ \A n \in Used : n < o
        /\ store \subseteq store'
    BY <2>1, WritesAssumption DEF PutObject, Put, FInv, ObjectsOK, Used, TypeOK
  <2>7. \A n \in r : n \in Used /\ path[n] = op[p].src
    BY <2>1, <2>2 DEF OpOK
  <2>8. OpOK(x, Used', path', origin')
    BY <2>1, <2>3, <2>5, <2>6, <2>7 DEF OpOK
  <2> QED BY <2>1, <2>3, <2>4, <2>5, <2>6, <2>8, OpStep
<1>3. ASSUME NEW o \in Object, UploadDelete(p, o) PROVE FInv'
  <2> DEFINE x == [op[p] EXCEPT !.rest = op[p].rest \ {o}]
  <2>1. /\ op' = [op EXCEPT ![p] = x] /\ op[p].kind = "upload" /\ op[p].pc = "delete"
        /\ o \in op[p].rest /\ DeleteObject(o)
        /\ UNCHANGED <<scanCache, scanInflight, call, path, origin, puts,
                       nsLock, tracker, unlinked>>
    BY <1>3 DEF UploadDelete
  <2>2. /\ x \in OpState /\ x.pc = "delete" /\ x.kind = "upload" /\ x.src = op[p].src
        /\ x.rest = op[p].rest \ {o} /\ x.new = op[p].new
    BY <2>1 DEF OpState
  <2> HIDE DEF x
  <2>3. Used' = Used
    BY <2>1 DEF DeleteObject, Delete, Used
  <2>4. OpOK(x, Used', path', origin')
    BY <2>1, <2>2, <2>3 DEF OpOK
  <2>5. ServerStep /\ LockStep(p, x) /\ TrackStep(p, x)
    BY <2>1, <2>2 DEF ServerStep, LockStep, TrackStep, DeleteObject
  <2>6. \A n \in store \ store' : GoneWell(n)
    <3>1. GoneWell(o)
      BY <2>1, WritesAssumption DEF OpOK, GoneWell, Used
    <3>2. \A n \in store \ store' : n = o
      BY <2>1 DEF DeleteObject, Delete
    <3> QED BY <3>1, <3>2
  <2> QED BY <2>1, <2>2, <2>3, <2>4, <2>5, <2>6, OpStep
<1>4. CASE UploadFinish(p)
  <2>1. /\ op' = [op EXCEPT ![p] = NoOp] /\ op[p].kind = "upload"
        /\ tracker' = tracker \ {op[p].src} /\ scanCache' = NoListing
        /\ UNCHANGED <<store, removed, scanInflight, call, path, origin, puts,
                       nsLock, unlinked>>
    BY <1>4 DEF UploadFinish, EndAndInvalidate, End, Untracked, Dropped
  <2>2. Used' = Used
    BY <2>1 DEF Used
  <2>3. ServerStep /\ LockStep(p, NoOp) /\ TrackStep(p, NoOp)
    BY <2>1, OpRecords DEF ServerStep, LockStep, TrackStep, NeedsLock
  <2> QED BY <2>1, <2>2, <2>3, OpEnds, OpRecords, OpStep
<1> QED BY <1>1, <1>2, <1>3, <1>4 DEF Upload

(* The steps of an unlink. *)
LEMMA UnlinkInv ==
    ASSUME FInv, NEW p \in Proc, Unlink(p)
    PROVE  FInv'
<1> USE OpFacts DEF serverVars, scanVars, objVars, vars, Doing
<1>1. CASE UnlinkListed(p)
  <2> DEFINE r == Matches(p, op[p].src)
             x == [op[p] EXCEPT !.pc = "delete", !.rest = r]
  <2>1. /\ op[p].kind = "unlink" /\ call' = [call EXCEPT ![p] = NoCall]
        /\ \/ op' = [op EXCEPT ![p] = NoOp] /\ Unlock(p)
           \/ op' = [op EXCEPT ![p] = x] /\ UNCHANGED nsLock
        /\ UNCHANGED <<store, removed, scanCache, scanInflight, path, origin, puts,
                       tracker, unlinked>>
    BY <1>1 DEF UnlinkListed, Forget, End
  <2>2. r \subseteq Used
    BY DEF Matches
  <2> HIDE DEF r
  <2>3. /\ x \in OpState /\ x.pc = "delete" /\ x.kind = "unlink" /\ x.src = op[p].src
        /\ x.rest = r
    BY <2>1, <2>2 DEF OpState
  <2> HIDE DEF x
  <2>4. Used' = Used /\ ServerStep
    BY <2>1 DEF Used, ServerStep
  <2>5. CASE op' = [op EXCEPT ![p] = NoOp] /\ Unlock(p)
    <3>1. LockStep(p, NoOp) /\ TrackStep(p, NoOp)
      BY <2>1, <2>5, OpRecords DEF LockStep, TrackStep, NeedsLock
    <3> QED BY <2>1, <2>4, <2>5, <3>1, OpEnds, OpRecords, OpStep
  <2>6. CASE op' = [op EXCEPT ![p] = x] /\ UNCHANGED nsLock
    <3>1. LockStep(p, x) /\ TrackStep(p, x)
      BY <2>1, <2>3, <2>6 DEF LockStep, TrackStep
    <3>2. OpOK(x, Used', path', origin')
      BY <2>1, <2>2, <2>3, <2>4 DEF OpOK
    <3> QED BY <2>1, <2>3, <2>4, <2>6, <3>1, <3>2, OpStep
  <2> QED BY <2>1, <2>5, <2>6
<1>2. ASSUME NEW o \in Object, UnlinkDelete(p, o) PROVE FInv'
  <2> DEFINE x == [op[p] EXCEPT !.rest = op[p].rest \ {o}]
  <2>1. /\ op' = [op EXCEPT ![p] = x] /\ op[p].kind = "unlink"
        /\ o \in op[p].rest /\ DeleteObject(o) /\ unlinked' = unlinked \cup {o}
        /\ UNCHANGED <<scanCache, scanInflight, call, path, origin, puts,
                       nsLock, tracker>>
    BY <1>2 DEF UnlinkDelete
  <2>2. /\ x \in OpState /\ x.kind = "unlink" /\ x.src = op[p].src
        /\ x.rest \subseteq op[p].rest
    BY <2>1 DEF OpState
  <2> HIDE DEF x
  <2>3. Used' = Used
    BY <2>1 DEF DeleteObject, Delete, Used
  <2>4. OpOK(x, Used', path', origin')
    BY <2>1, <2>2, <2>3 DEF OpOK
  <2>5. ServerStep /\ LockStep(p, x) /\ TrackStep(p, x)
    BY <2>1, <2>2 DEF ServerStep, LockStep, TrackStep, DeleteObject
  <2>6. \A n \in store \ store' : GoneWell(n)
    BY <2>1 DEF DeleteObject, Delete, GoneWell
  <2> QED BY <2>1, <2>2, <2>3, <2>4, <2>5, <2>6, OpStep
<1>3. CASE UnlinkFinish(p)
  <2>1. /\ op' = [op EXCEPT ![p] = NoOp] /\ op[p].kind = "unlink"
        /\ Unlock(p) /\ scanCache' = NoListing
        /\ UNCHANGED <<store, removed, scanInflight, call, path, origin, puts,
                       tracker, unlinked>>
    BY <1>3 DEF UnlinkFinish, EndAndInvalidate, End, Dropped
  <2>2. Used' = Used
    BY <2>1 DEF Used
  <2>3. ServerStep /\ LockStep(p, NoOp) /\ TrackStep(p, NoOp)
    BY <2>1, OpRecords DEF ServerStep, LockStep, TrackStep, NeedsLock
  <2> QED BY <2>1, <2>2, <2>3, OpEnds, OpRecords, OpStep
<1> QED BY <1>1, <1>2, <1>3 DEF Unlink

(* The steps of a rename. *)
LEMMA RenameInv ==
    ASSUME FInv, NEW p \in Proc, Rename(p)
    PROVE  FInv'
<1> USE OpFacts DEF serverVars, scanVars, objVars, vars, Doing
<1>1. CASE RenameListed(p)
  <2> DEFINE r == Matches(p, op[p].src)
             x == [op[p] EXCEPT !.pc = "listdst", !.from = r]
             c == [NoCall EXCEPT !.pc = "lookup"]
  <2>1. /\ op[p].kind = "rename"
        /\ \/ /\ op' = [op EXCEPT ![p] = NoOp] /\ Unlock(p)
              /\ call' = [call EXCEPT ![p] = NoCall]
           \/ /\ op' = [op EXCEPT ![p] = x] /\ UNCHANGED nsLock
              /\ call' = [call EXCEPT ![p] = c]
        /\ UNCHANGED <<store, removed, scanCache, scanInflight, path, origin, puts,
                       tracker, unlinked>>
    BY <1>1 DEF RenameListed, Forget, End
  <2>2. r \subseteq Used
    BY DEF Matches
  <2> HIDE DEF r
  <2>3. /\ x \in OpState /\ x.pc = "listdst" /\ x.kind = "rename" /\ x.src = op[p].src
        /\ x.dst = op[p].dst /\ x.rest = op[p].rest
    <3>1. /\ op[p] \in OpState /\ op[p].kind = "rename" /\ r \in SUBSET Object
      BY <2>1, <2>2
    <3>2. /\ x.pc = "listdst" /\ x.kind = op[p].kind /\ x.src = op[p].src
          /\ x.dst = op[p].dst /\ x.rest = op[p].rest
      BY <3>1 DEF OpState
    <3>3. x \in OpState
      BY <3>1 DEF OpState
    <3> QED BY <3>1, <3>2, <3>3
  <2>4. CallOK(c)
    BY CallUpdates
  <2>5. c.ids = {}
    BY DEF NoCall
  <2> HIDE DEF x, c
  <2>6. Used' = Used /\ ServerStep
    BY <2>1 DEF Used, ServerStep
  <2>7. CASE op' = [op EXCEPT ![p] = NoOp] /\ Unlock(p) /\ call' = [call EXCEPT ![p] = NoCall]
    <3>1. LockStep(p, NoOp) /\ TrackStep(p, NoOp)
      BY <2>1, <2>7, OpRecords DEF LockStep, TrackStep, NeedsLock
    <3> QED BY <2>1, <2>6, <2>7, <3>1, OpEnds, OpRecords, OpStep
  <2>8. CASE op' = [op EXCEPT ![p] = x] /\ UNCHANGED nsLock /\ call' = [call EXCEPT ![p] = c]
    <3>1. LockStep(p, x) /\ TrackStep(p, x)
      BY <2>1, <2>3, <2>8 DEF LockStep, TrackStep
    <3>2. OpOK(x, Used', path', origin')
      BY <2>1, <2>2, <2>3, <2>6 DEF OpOK
    <3> QED BY <2>1, <2>3, <2>4, <2>5, <2>6, <2>8, <3>1, <3>2, OpStep
  <2> QED BY <2>1, <2>7, <2>8
<1>2. CASE RenameListedDst(p)
  <2> DEFINE r == IF call[p].err THEN {} ELSE Matches(p, op[p].dst)
             x == [op[p] EXCEPT !.pc = "clear", !.rest = r]
  <2>1. /\ op' = [op EXCEPT ![p] = x] /\ call' = [call EXCEPT ![p] = NoCall]
        /\ op[p].kind = "rename"
        /\ UNCHANGED <<store, removed, scanCache, scanInflight, path, origin, puts,
                       nsLock, tracker, unlinked>>
    BY <1>2 DEF RenameListedDst, Forget
  <2>2. r \subseteq Used
    BY DEF Matches
  <2> HIDE DEF r
  <2>3. /\ x \in OpState /\ x.pc = "clear" /\ x.kind = "rename" /\ x.src = op[p].src
        /\ x.dst = op[p].dst /\ x.rest = r
    BY <2>1, <2>2 DEF OpState
  <2> HIDE DEF x
  <2>4. Used' = Used
    BY <2>1 DEF Used
  <2>5. OpOK(x, Used', path', origin')
    BY <2>1, <2>2, <2>3, <2>4 DEF OpOK
  <2>6. ServerStep /\ LockStep(p, x) /\ TrackStep(p, x)
    BY <2>1, <2>3 DEF ServerStep, LockStep, TrackStep
  <2> QED BY <2>1, <2>3, <2>4, <2>5, <2>6, OpStep
<1>3. ASSUME NEW o \in Object, RenameClear(p, o) PROVE FInv'
  <2> DEFINE x == [op[p] EXCEPT !.rest = op[p].rest \ {o}]
  <2>1. /\ op' = [op EXCEPT ![p] = x] /\ op[p].kind = "rename" /\ op[p].pc = "clear"
        /\ o \in op[p].rest /\ DeleteObject(o) /\ unlinked' = unlinked \cup {o}
        /\ UNCHANGED <<scanCache, scanInflight, call, path, origin, puts,
                       nsLock, tracker>>
    BY <1>3 DEF RenameClear
  <2>2. /\ x \in OpState /\ x.kind = "rename" /\ x.pc = "clear" /\ x.src = op[p].src
        /\ x.dst = op[p].dst /\ x.rest \subseteq op[p].rest
    BY <2>1 DEF OpState
  <2> HIDE DEF x
  <2>3. Used' = Used
    BY <2>1 DEF DeleteObject, Delete, Used
  <2>4. OpOK(x, Used', path', origin')
    BY <2>1, <2>2, <2>3 DEF OpOK
  <2>5. ServerStep /\ LockStep(p, x) /\ TrackStep(p, x)
    BY <2>1, <2>2 DEF ServerStep, LockStep, TrackStep, DeleteObject
  <2>6. \A n \in store \ store' : GoneWell(n)
    BY <2>1 DEF DeleteObject, Delete, GoneWell
  <2> QED BY <2>1, <2>2, <2>3, <2>4, <2>5, <2>6, OpStep
<1>4. CASE RenameCleared(p)
  <2> DEFINE x == [op[p] EXCEPT !.pc = "copy"]
  <2>1. /\ op' = [op EXCEPT ![p] = x] /\ op[p].kind = "rename"
        /\ UNCHANGED <<store, removed, scanCache, scanInflight, call, path, origin, puts,
                       nsLock, tracker, unlinked>>
    BY <1>4 DEF RenameCleared
  <2>2. /\ x \in OpState /\ x.kind = "rename" /\ x.pc = "copy" /\ x.src = op[p].src
        /\ x.dst = op[p].dst /\ x.rest = op[p].rest
    BY <2>1 DEF OpState
  <2> HIDE DEF x
  <2>3. Used' = Used
    BY <2>1 DEF Used
  <2>4. OpOK(x, Used', path', origin')
    BY <2>1, <2>2, <2>3 DEF OpOK
  <2>5. ServerStep /\ LockStep(p, x) /\ TrackStep(p, x)
    BY <2>1, <2>2 DEF ServerStep, LockStep, TrackStep
  <2> QED BY <2>1, <2>2, <2>3, <2>4, <2>5, OpStep
<1>5. ASSUME NEW o \in Object, NEW n \in Object, RenameCopy(p, o, n) PROVE FInv'
  <2> DEFINE x == [op[p] EXCEPT !.pc = "drop", !.rest = {o}, !.new = n]
  <2>1. /\ op' = [op EXCEPT ![p] = x] /\ op[p].kind = "rename" /\ o \in store
        /\ PutObject(n, op[p].dst, origin[o])
        /\ UNCHANGED <<scanCache, scanInflight, call, nsLock, tracker, unlinked>>
    BY <1>5 DEF RenameCopy
  <2>2. /\ x \in OpState /\ x.kind = "rename" /\ x.pc = "drop" /\ x.src = op[p].src
        /\ x.dst = op[p].dst /\ x.rest = {o} /\ x.new = n
    BY <2>1 DEF OpState
  <2> HIDE DEF x
  <2>3. origin[o] \in Object \cup {0} /\ op[p].dst \in Path
    BY <2>1
  <2>4. ServerStep /\ LockStep(p, x) /\ TrackStep(p, x)
    BY <2>1, <2>2, <2>3 DEF ServerStep, LockStep, TrackStep
  <2>5. Used \subseteq Used' /\ \A m \in Used : origin'[m] = origin[m]
    BY <2>4, ServerKeeps DEF FInv
  <2>6. /\ n \in Used' /\ origin'[n] = origin[o] /\ o < n /\ o \in Used
        /\ store \subseteq store'
    BY <2>1, WritesAssumption DEF PutObject, Put, FInv, ObjectsOK, Used, TypeOK
  <2>7. OpOK(x, Used', path', origin')
    BY <2>1, <2>2, <2>3, <2>5, <2>6 DEF OpOK
  <2> QED BY <2>1, <2>2, <2>4, <2>5, <2>6, <2>7, OpStep
<1>6. ASSUME NEW o \in Object, RenameDrop(p, o) PROVE FInv'
  <2> DEFINE x == [op[p] EXCEPT !.pc = "copy", !.rest = {}, !.from = op[p].from \ {o}]
  <2>1. /\ op' = [op EXCEPT ![p] = x] /\ op[p].kind = "rename" /\ op[p].pc = "drop"
        /\ o \in op[p].rest /\ DeleteObject(o)
        /\ UNCHANGED <<scanCache, scanInflight, call, path, origin, puts,
                       nsLock, tracker, unlinked>>
    BY <1>6 DEF RenameDrop
  <2>2. /\ x \in OpState /\ x.kind = "rename" /\ x.pc = "copy" /\ x.src = op[p].src
        /\ x.dst = op[p].dst /\ x.rest = {}
    BY <2>1 DEF OpState
  <2> HIDE DEF x
  <2>3. Used' = Used
    BY <2>1 DEF DeleteObject, Delete, Used
  <2>4. OpOK(x, Used', path', origin')
    BY <2>1, <2>2, <2>3 DEF OpOK
  <2>5. ServerStep /\ LockStep(p, x) /\ TrackStep(p, x)
    BY <2>1, <2>2 DEF ServerStep, LockStep, TrackStep, DeleteObject
  <2>6. \A m \in store \ store' : GoneWell(m)
    <3>1. GoneWell(o)
      BY <2>1, WritesAssumption DEF OpOK, GoneWell, Used
    <3>2. \A m \in store \ store' : m = o
      BY <2>1 DEF DeleteObject, Delete
    <3> QED BY <3>1, <3>2
  <2> QED BY <2>1, <2>2, <2>3, <2>4, <2>5, <2>6, OpStep
<1>7. CASE RenameFinish(p)
  <2>1. /\ op' = [op EXCEPT ![p] = NoOp] /\ op[p].kind = "rename"
        /\ Unlock(p) /\ scanCache' = NoListing
        /\ UNCHANGED <<store, removed, scanInflight, call, path, origin, puts,
                       tracker, unlinked>>
    BY <1>7 DEF RenameFinish, EndAndInvalidate, End, Dropped
  <2>2. Used' = Used
    BY <2>1 DEF Used
  <2>3. ServerStep /\ LockStep(p, NoOp) /\ TrackStep(p, NoOp)
    BY <2>1, OpRecords DEF ServerStep, LockStep, TrackStep, NeedsLock
  <2> QED BY <2>1, <2>2, <2>3, OpEnds, OpRecords, OpStep
<1> QED BY <1>1, <1>2, <1>3, <1>4, <1>5, <1>6, <1>7 DEF Rename

(* The failures. *)
LEMMA FaultInv ==
    ASSUME FInv, NEW p \in Proc, Fault(p)
    PROVE  FInv'
<1> USE OpFacts DEF serverVars, scanVars, objVars, fuseVars, vars, Doing, End
<1>1. CASE UploadPutFails(p)
  <2>1. /\ op' = [op EXCEPT ![p] = NoOp] /\ op[p].kind = "upload"
        /\ tracker' = tracker \ {op[p].src}
        /\ UNCHANGED <<scanCache, scanInflight, call, nsLock, unlinked>>
    BY <1>1 DEF UploadPutFails, Untracked
  <2>2. ServerStep /\ store \subseteq store'
    <3>1. CASE UNCHANGED <<serverVars, objVars>>
      BY <3>1 DEF ServerStep
    <3>2. CASE \E o \in Object : PutObject(o, op[p].src, o)
      <4>1. PICK o \in Object : PutObject(o, op[p].src, o)
        BY <3>2
      <4>2. op[p].src \in Path
        BY <2>1
      <4>3. store \subseteq store'
        BY <4>1 DEF PutObject, Put
      <4> QED BY <4>1, <4>2, <4>3 DEF ServerStep
    <3> QED BY <1>1, <3>1, <3>2 DEF UploadPutFails
  <2>3. Used \subseteq Used'
    BY <2>2, ServerKeeps DEF FInv
  <2>4. LockStep(p, NoOp) /\ TrackStep(p, NoOp)
    BY <2>1, OpRecords DEF LockStep, TrackStep, NeedsLock
  <2> QED BY <2>1, <2>2, <2>3, <2>4, OpEnds, OpRecords, OpStep
<1>2. ASSUME NEW o \in Object, UploadDeleteFails(p, o) \/ RenameClearFails(p, o)
      PROVE  FInv'
  <2> DEFINE x == [op[p] EXCEPT !.rest = op[p].rest \ {o}]
  <2>1. /\ op' = [op EXCEPT ![p] = x]
        /\ UNCHANGED <<store, removed, scanCache, scanInflight, call, path, origin, puts,
                       nsLock, tracker, unlinked>>
    BY <1>2 DEF UploadDeleteFails, RenameClearFails
  <2>2. /\ x \in OpState /\ x.kind = op[p].kind /\ x.pc = op[p].pc /\ x.src = op[p].src
        /\ x.dst = op[p].dst /\ x.rest \subseteq op[p].rest /\ x.new = op[p].new
    BY DEF OpState
  <2> HIDE DEF x
  <2>3. Used' = Used
    BY <2>1 DEF Used
  <2>4. OpOK(x, Used', path', origin')
    BY <2>1, <2>2, <2>3 DEF OpOK
  <2>5. ServerStep /\ LockStep(p, x) /\ TrackStep(p, x)
    BY <2>1, <2>2 DEF ServerStep, LockStep, TrackStep
  <2>6. x.kind = "upload" => x.src \in Path
    BY <2>2
  <2> QED BY <2>1, <2>3, <2>4, <2>5, <2>6, OpStep
<1>3. ASSUME NEW o \in Object, UnlinkFails(p, o) PROVE FInv'
  <2>1. /\ op' = [op EXCEPT ![p] = NoOp] /\ op[p].kind = "unlink" /\ o \in op[p].rest
        /\ Unlock(p)
        /\ \/ UNCHANGED <<store, removed, unlinked>>
           \/ DeleteObject(o) /\ unlinked' = unlinked \cup {o}
        /\ UNCHANGED <<scanCache, scanInflight, call, path, origin, puts, tracker>>
    BY <1>3 DEF UnlinkFails
  <2>2. Used' = Used /\ ServerStep
    BY <2>1 DEF Used, ServerStep, DeleteObject, Delete
  <2>3. \A n \in store \ store' : GoneWell(n)
    BY <2>1 DEF DeleteObject, Delete, GoneWell
  <2>4. LockStep(p, NoOp) /\ TrackStep(p, NoOp)
    BY <2>1, OpRecords DEF LockStep, TrackStep, NeedsLock
  <2>5. unlinked \subseteq unlinked' /\ unlinked' \subseteq Used'
    BY <2>1, <2>2
  <2> QED BY <2>1, <2>2, <2>3, <2>4, <2>5, OpEnds, OpRecords, OpStep
<1>4. ASSUME NEW o \in Object, RenameCopyFails(p, o) PROVE FInv'
  <2>1. /\ op' = [op EXCEPT ![p] = NoOp] /\ op[p].kind = "rename" /\ Unlock(p)
        /\ UNCHANGED <<scanCache, scanInflight, call, tracker, unlinked>>
    BY <1>4 DEF RenameCopyFails
  <2>2. ServerStep /\ store \subseteq store'
    <3>1. CASE UNCHANGED <<serverVars, objVars>>
      BY <3>1 DEF ServerStep
    <3>2. CASE \E n \in Object : PutObject(n, op[p].dst, origin[o])
      <4>1. PICK n \in Object : PutObject(n, op[p].dst, origin[o])
        BY <3>2
      <4>2. op[p].dst \in Path /\ origin[o] \in Object \cup {0}
        BY <2>1
      <4>3. store \subseteq store'
        BY <4>1 DEF PutObject, Put
      <4> QED BY <4>1, <4>2, <4>3 DEF ServerStep
    <3> QED BY <1>4, <3>1, <3>2 DEF RenameCopyFails
  <2>3. Used \subseteq Used'
    BY <2>2, ServerKeeps DEF FInv
  <2>4. LockStep(p, NoOp) /\ TrackStep(p, NoOp)
    BY <2>1, OpRecords DEF LockStep, TrackStep, NeedsLock
  <2> QED BY <2>1, <2>2, <2>3, <2>4, OpEnds, OpRecords, OpStep
<1>5. ASSUME NEW o \in Object, RenameDropFails(p, o) PROVE FInv'
  <2>1. /\ op' = [op EXCEPT ![p] = NoOp] /\ op[p].kind = "rename" /\ op[p].pc = "drop"
        /\ o \in op[p].rest /\ Unlock(p)
        /\ DeleteObject(o) \/ UNCHANGED <<store, removed>>
        /\ UNCHANGED <<scanCache, scanInflight, call, path, origin, puts, tracker,
                       unlinked>>
    BY <1>5 DEF RenameDropFails
  <2>2. Used' = Used /\ ServerStep
    BY <2>1 DEF Used, ServerStep, DeleteObject, Delete
  <2>3. \A n \in store \ store' : GoneWell(n)
    <3>1. GoneWell(o)
      BY <2>1, WritesAssumption DEF OpOK, GoneWell, Used
    <3>2. \A n \in store \ store' : n = o
      BY <2>1 DEF DeleteObject, Delete
    <3> QED BY <3>1, <3>2
  <2>4. LockStep(p, NoOp) /\ TrackStep(p, NoOp)
    BY <2>1, OpRecords DEF LockStep, TrackStep, NeedsLock
  <2> QED BY <2>1, <2>2, <2>3, <2>4, OpEnds, OpRecords, OpStep
<1>6. ASSUME NEW f \in Path, NEW o \in Object, MkdirFails(f, o) PROVE FInv'
  <2>1. PutObject(o, f, o)
        /\ UNCHANGED <<scanCache, scanInflight, call, op, nsLock, tracker, unlinked>>
    BY <1>6 DEF MkdirFails
  <2>2. ServerStep /\ store \subseteq store'
    BY <2>1 DEF ServerStep, PutObject, Put
  <2>3. Used \subseteq Used' /\ \A n \in Used : path'[n] = path[n] /\ origin'[n] = origin[n]
    BY <2>2, ServerKeeps DEF FInv
  <2>4. LockStep(p, op[p]) /\ TrackStep(p, op[p])
    BY <2>1 DEF LockStep, TrackStep
  <2>5. OpOK(op[p], Used', path', origin')
    BY <2>3, OpOKKept
  <2>6. op[p].kind = "upload" => op[p].src \in Path
    OBVIOUS
  <2> QED BY <2>1, <2>2, <2>3, <2>4, <2>5, <2>6, OpStep
<1> QED BY <1>1, <1>2, <1>3, <1>4, <1>5, <1>6 DEF Fault

(* The beginnings of operations, and the end of Mkdir. *)
LEMMA BeginInv ==
    ASSUME FInv, NEW p \in Proc, Begin(p) \/ MkdirFinish(p)
    PROVE  FInv'
<1> USE OpFacts DEF serverVars, scanVars, objVars, vars, Doing
<1>1. ASSUME NEW kind \in {"upload", "unlink", "rename"}, NEW f \in Path,
             NEW d \in Path \cup {NoPath}, NEW must \in SUBSET Object,
             kind = "rename" => d \in Path,
             Start(p, kind, f, d, must),
             IF kind = "upload" THEN tracker' = tracker \cup {f} /\ UNCHANGED nsLock
             ELSE UNCHANGED tracker /\ Lock(p)
      PROVE  FInv'
  <2> DEFINE x == [NoOp EXCEPT !.kind = kind, !.pc = "list", !.src = f, !.dst = d,
                               !.must = must]
             c == [call[p] EXCEPT !.pc = "lookup"]
  <2>1. /\ op' = [op EXCEPT ![p] = x] /\ call' = [call EXCEPT ![p] = c] /\ op[p] = NoOp
        /\ UNCHANGED <<store, removed, scanCache, scanInflight, path, origin, puts,
                       unlinked>>
    BY <1>1 DEF Start, Idle, Goto
  <2>2. /\ x \in OpState /\ x.kind = kind /\ x.pc = "list"
        /\ x.src = f /\ x.dst = d /\ x.rest = {}
    BY DEF NoOp, OpState
  <2>3. CallOK(c)
    BY CallUpdates
  <2>4. c.ids = call[p].ids
    BY DEF CallOK, CallState
  <2> HIDE DEF x, c
  <2>5. Used' = Used
    BY <2>1 DEF Used
  <2>6. OpOK(x, Used', path', origin')
    BY <1>1, <2>2 DEF OpOK
  <2>7. ServerStep /\ LockStep(p, x) /\ TrackStep(p, x)
    <3>1. CASE kind = "upload"
      BY <1>1, <2>1, <2>2, <3>1, OpRecords DEF ServerStep, LockStep, TrackStep, NeedsLock
    <3>2. CASE kind # "upload"
      BY <1>1, <2>1, <2>2, <3>2, OpRecords DEF ServerStep, LockStep, TrackStep, NeedsLock
    <3> QED BY <3>1, <3>2
  <2> QED BY <2>1, <2>2, <2>3, <2>4, <2>5, <2>6, <2>7, OpStep
<1>2. ASSUME NEW f \in Path, UploadStart(p, f) PROVE FInv'
  <2>1. Settled(f) \in SUBSET Object
    BY DEF Settled, Used
  <2> QED BY <1>1, <1>2, <2>1 DEF UploadStart
<1>3. ASSUME NEW f \in Path, UnlinkStart(p, f) PROVE FInv'
  <2>1. Settled(f) \in SUBSET Object
    BY DEF Settled, Used
  <2> QED BY <1>1, <1>3, <2>1 DEF UnlinkStart
<1>4. ASSUME NEW f \in Path, NEW d \in Path, RenameStart(p, f, d) PROVE FInv'
  BY <1>1, <1>4 DEF RenameStart
<1>5. ASSUME NEW f \in Path, NEW o \in Object, Mkdir(p, f, o) PROVE FInv'
  <2> DEFINE x == [NoOp EXCEPT !.kind = "mkdir", !.pc = "finish", !.src = f, !.new = o]
  <2>1. /\ op' = [op EXCEPT ![p] = x] /\ op[p] = NoOp /\ PutObject(o, f, o) /\ Lock(p)
        /\ UNCHANGED <<scanCache, scanInflight, call, tracker, unlinked>>
    BY <1>5 DEF Mkdir, Idle
  <2>2. x \in OpState /\ x.kind = "mkdir" /\ x.pc = "finish" /\ x.src = f /\ x.rest = {}
    BY DEF NoOp, OpState
  <2> HIDE DEF x
  <2>3. ServerStep /\ LockStep(p, x) /\ TrackStep(p, x) /\ store \subseteq store'
    BY <2>1, <2>2, OpRecords DEF ServerStep, LockStep, TrackStep, NeedsLock, PutObject, Put
  <2>4. Used \subseteq Used'
    BY <2>3, ServerKeeps DEF FInv
  <2>5. OpOK(x, Used', path', origin')
    BY <2>2 DEF OpOK
  <2> QED BY <2>1, <2>2, <2>3, <2>4, <2>5, OpStep
<1>6. CASE MkdirFinish(p)
  <2>1. /\ op' = [op EXCEPT ![p] = NoOp] /\ op[p].kind = "mkdir"
        /\ Unlock(p) /\ scanCache' = NoListing
        /\ UNCHANGED <<store, removed, scanInflight, call, path, origin, puts,
                       tracker, unlinked>>
    BY <1>6 DEF MkdirFinish, EndAndInvalidate, End, Dropped
  <2>2. Used' = Used
    BY <2>1 DEF Used
  <2>3. ServerStep /\ LockStep(p, NoOp) /\ TrackStep(p, NoOp)
    BY <2>1, OpRecords DEF ServerStep, LockStep, TrackStep, NeedsLock
  <2> QED BY <2>1, <2>2, <2>3, OpEnds, OpRecords, OpStep
<1> QED BY <1>2, <1>3, <1>4, <1>5, <1>6 DEF Begin

-----------------------------------------------------------------------------
(* The steps that only list the container. *)

(* One listing call or the cached listing changes, nothing else. *)
LEMMA ListingStep ==
    ASSUME FInv, TypeOK', ListingsOK', UNCHANGED <<serverVars, objVars, fuseVars>>
    PROVE  FInv'
<1> USE DEF serverVars, objVars, fuseVars
<1>1. Used' = Used
  BY DEF Used
<1>2. ObjectsOK' /\ LockOK' /\ OpsOK'
  BY <1>1 DEF FInv, ObjectsOK, LockOK, OpsOK
<1>3. tracker' \subseteq Path /\ TrackerDrains' /\ unlinked' \subseteq Used'
  BY <1>1 DEF FInv, TrackerDrains, Running
<1>4. ContentKept'
  BY <1>1 DEF FInv, ContentKept
<1> QED BY <1>2, <1>3, <1>4 DEF FInv

(* Whatever is listed has been put. *)
LEMMA CallListings ==
    ASSUME FInv, NEW p \in Proc, Step(p) \/ Call(p) \/ Return(p)
    PROVE  ListingsOK'
<1> USE DEF serverVars, scanVars
<1>1. /\ scanCache.entries \subseteq Used /\ \A q \in Proc : call[q].ids \subseteq Used
      /\ call \in [Proc -> CallState] /\ store \subseteq Used
  BY DEF FInv, ListingsOK, TypeOK, Used
<1>2. UNCHANGED <<store, removed>>
  BY DEF Step, CacheHit, Follow, Lead, Search, SearchFails, Head, HeadFails, Publish,
         FollowerReads, Call, Return
<1>3. Used' = Used
  BY <1>2 DEF Used
<1>4. ASSUME NEW c, call' = [call EXCEPT ![p] = c], c.ids \subseteq Used,
             scanCache' = scanCache
      PROVE  ListingsOK'
  BY <1>1, <1>3, <1>4 DEF ListingsOK
<1>5. \A ids, err : Returned(ids, err).ids = ids
  BY DEF Returned, NoCall
<1>6. CASE CacheHit(p)
  BY <1>1, <1>4, <1>5, <1>6 DEF CacheHit
<1>7. CASE Follow(p)
  <2> DEFINE c == [call[p] EXCEPT !.pc = "wait", !.leader = scanInflight]
  <2>1. c.ids = call[p].ids
    BY <1>1 DEF CallState
  <2> QED BY <1>1, <1>4, <1>7, <2>1 DEF Follow
<1>8. CASE Lead(p) \/ Call(p)
  <2>1. PICK label : call' = [call EXCEPT ![p] = [call[p] EXCEPT !.pc = label]]
                     /\ scanCache' = scanCache
    BY <1>8 DEF Lead, Call, Goto
  <2> DEFINE c == [call[p] EXCEPT !.pc = label]
  <2>2. c.ids = call[p].ids
    BY <1>1 DEF CallState
  <2> QED BY <1>1, <1>4, <2>1, <2>2
<1>9. CASE Search(p) \/ SearchFails(p)
  <2>1. ASSUME NEW ids, NEW ok, ids \subseteq store, Lists(p, ids, ok),
               scanCache' = scanCache
        PROVE  ListingsOK'
    <3> DEFINE c == [NoCall EXCEPT !.pc = "heads", !.ids = ids, !.todo = ids, !.ok = ok]
    <3>1. c.ids = ids
      BY DEF NoCall
    <3>2. call' = [call EXCEPT ![p] = c]
      BY <2>1 DEF Lists
    <3>3. c.ids \subseteq Used
      BY <1>1, <2>1, <3>1
    <3> HIDE DEF c
    <3> QED BY <1>4, <2>1, <3>2, <3>3
  <2>2. CASE Search(p)
    BY <2>1, <2>2 DEF Search
  <2>3. CASE SearchFails(p)
    <3> DEFINE none == {}
    <3>1. none \subseteq store /\ Lists(p, none, FALSE) /\ scanCache' = scanCache
      BY <2>3 DEF SearchFails
    <3> HIDE DEF none
    <3> QED BY <2>1, <3>1
  <2> QED BY <1>9, <2>2, <2>3
<1>10. ASSUME NEW o \in Object, Head(p, o) PROVE ListingsOK'
  <2> DEFINE c == [call[p] EXCEPT !.todo = @ \ {o}]
  <2>1. c.ids = call[p].ids
    BY <1>1 DEF CallState
  <2> QED BY <1>1, <1>4, <1>10, <2>1 DEF Head
<1>11. ASSUME NEW o \in Object, HeadFails(p, o) PROVE ListingsOK'
  <2> DEFINE c == [call[p] EXCEPT !.todo = @ \ {o}, !.err = TRUE, !.ok = FALSE]
  <2>1. c.ids = call[p].ids
    BY <1>1 DEF CallState
  <2> QED BY <1>1, <1>4, <1>11, <2>1 DEF HeadFails
<1>12. CASE Publish(p)
  <2> DEFINE err == call[p].err
             ids == IF err THEN {} ELSE call[p].ids
  <2>1. ids \subseteq Used
    BY <1>1
  <2>2. scanCache' \in {scanCache, [present |-> TRUE, expired |-> FALSE, entries |-> ids]}
    BY <1>12 DEF Publish
  <2>3. \A q \in Proc :
           call'[q] \in {Returned(ids, err), [call[q] EXCEPT !.pc = "woken", !.err = err],
                         call[q]}
    BY <1>12 DEF Publish
  <2> HIDE DEF err, ids
  <2>4. \A q \in Proc : [call[q] EXCEPT !.pc = "woken", !.err = err].ids = call[q].ids
    BY <1>1 DEF CallState
  <2>5. ASSUME NEW q \in Proc PROVE call'[q].ids \subseteq Used
    <3> DEFINE woken == [call[q] EXCEPT !.pc = "woken", !.err = err]
    <3>1. Returned(ids, err).ids \subseteq Used /\ call[q].ids \subseteq Used
      BY <1>1, <1>5, <2>1
    <3>2. woken.ids \subseteq Used
      BY <2>4, <3>1
    <3>3. call'[q] \in {Returned(ids, err), woken, call[q]}
      BY <2>3
    <3> HIDE DEF woken
    <3> QED BY <3>1, <3>2, <3>3
  <2>6. scanCache'.entries \subseteq Used
    BY <1>1, <2>1, <2>2
  <2> QED BY <1>3, <2>5, <2>6 DEF ListingsOK
<1>13. CASE FollowerReads(p)
  <2> DEFINE c == IF scanCache.present THEN Returned(scanCache.entries, FALSE)
                  ELSE Returned({}, call[p].err)
  <2>1. c.ids \subseteq Used
    BY <1>1, <1>5
  <2> QED BY <1>4, <1>13, <2>1 DEF FollowerReads
<1>14. CASE Return(p)
  <2>1. NoCall.ids = {}
    BY DEF NoCall
  <2> QED BY <1>4, <1>14, <2>1 DEF Return
<1> QED BY <1>6, <1>7, <1>8, <1>9, <1>10, <1>11, <1>12, <1>13, <1>14 DEF Step

(* Browsing, scanning, the age of the listing, Create and stuttering. *)
LEMMA ReadInv ==
    ASSUME FInv,
           \/ \E p \in Proc : Browse(p) \/ Scan(p)
           \/ Create
           \/ Expire /\ UNCHANGED <<objVars, fuseVars>>
           \/ UNCHANGED allVars
    PROVE  FInv'
<1> USE DEF serverVars, scanVars, vars
<1>1. TypeOK /\ ListingsOK
  BY DEF FInv
<1>2. ASSUME NEW p \in Proc, Browse(p) \/ Scan(p) PROVE FInv'
  <2>1. (Step(p) \/ Call(p) \/ Return(p)) /\ UNCHANGED <<objVars, fuseVars>>
    BY <1>2 DEF Browse, Scan
  <2>2. UNCHANGED <<store, removed>>
    BY <2>1 DEF Step, CacheHit, Follow, Lead, Search, SearchFails, Head, HeadFails,
                Publish, FollowerReads, Call, Return
  <2>3. TypeOK'
    BY <1>1, <2>1, NextType DEF Next
  <2>4. ListingsOK'
    BY <2>1, CallListings
  <2> QED BY <2>1, <2>2, <2>3, <2>4, ListingStep
<1>3. CASE Create
  <2>1. scanCache' = NoListing
        /\ UNCHANGED <<store, removed, scanInflight, call, objVars, fuseVars>>
    BY <1>3 DEF Create, Dropped
  <2>2. NoListing \in Listing /\ NoListing.entries = {}
    BY DEF NoListing, Listing
  <2>3. TypeOK' /\ ListingsOK'
    BY <1>1, <2>1, <2>2 DEF TypeOK, ListingsOK, Used
  <2> QED BY <2>1, <2>3, ListingStep
<1>4. CASE Expire /\ UNCHANGED <<objVars, fuseVars>>
  <2>1. TypeOK'
    BY <1>1, <1>4, NextType DEF Next
  <2>2. scanCache'.entries = scanCache.entries /\ UNCHANGED <<store, removed, call>>
    BY <1>1, <1>4 DEF Expire, TypeOK, Listing
  <2>3. ListingsOK'
    BY <1>1, <2>2 DEF ListingsOK, Used
  <2> QED BY <1>4, <2>1, <2>2, <2>3, ListingStep
<1>5. CASE UNCHANGED allVars
  <2>1. UNCHANGED vars /\ UNCHANGED <<objVars, fuseVars>>
    BY <1>5 DEF allVars
  <2>2. TypeOK' /\ ListingsOK'
    BY <1>1, <2>1 DEF TypeOK, ListingsOK, Used
  <2> QED BY <2>1, <2>2, ListingStep
<1> QED BY <1>2, <1>3, <1>4, <1>5

(* The crash: only the container remains. *)
LEMMA CrashInv ==
    ASSUME FInv, Crash
    PROVE  FInv'
<1>1. /\ call' = [p \in Proc |-> NoCall] /\ op' = [p \in Proc |-> NoOp]
      /\ scanCache' = NoListing /\ scanInflight' = NoProc
      /\ nsLock' = NoProc /\ tracker' = {}
      /\ UNCHANGED <<store, removed, path, origin, puts, unlinked>>
  BY DEF Crash, serverVars, objVars
<1>2. Used' = Used
  BY <1>1 DEF Used
<1>3. NoCall \in CallState /\ NoCall.ids = {} /\ NoCall.todo = {} /\ NoCall.pc = "idle"
  BY DEF NoCall, CallState
<1>4. NoListing \in Listing /\ NoListing.entries = {}
  BY DEF NoListing, Listing
<1>5. TypeOK'
  BY <1>1, <1>3, <1>4 DEF FInv, TypeOK
<1>6. ListingsOK'
  BY <1>1, <1>3, <1>4 DEF ListingsOK
<1>7. OpsOK'
  BY <1>1, OpRecords, OpEnds DEF OpsOK
<1>8. LockOK'
  BY <1>1, OpRecords, ScanAssumption DEF LockOK
<1>9. ObjectsOK'
  BY <1>1, <1>2 DEF FInv, ObjectsOK
<1>10. tracker' \subseteq Path /\ TrackerDrains' /\ unlinked' \subseteq Used'
  BY <1>1, <1>2 DEF FInv, TrackerDrains
<1>11. ContentKept'
  BY <1>1, <1>2 DEF FInv, ContentKept
<1> QED BY <1>5, <1>6, <1>7, <1>8, <1>9, <1>10, <1>11 DEF FInv

-----------------------------------------------------------------------------
(* The invariant and what follows from it *)

LEMMA FuseInvariant == FuseSpec => []FInv
<1>1. FuseInit => FInv
  <2> SUFFICES ASSUME FuseInit PROVE FInv
    OBVIOUS
  <2>1. /\ store = {} /\ removed = {} /\ Used = {}
        /\ scanCache = NoListing /\ scanInflight = NoProc
        /\ call = [p \in Proc |-> NoCall] /\ op = [p \in Proc |-> NoOp]
        /\ path = [o \in Object |-> NoPath] /\ origin = [o \in Object |-> 0]
        /\ puts = 0 /\ nsLock = NoProc /\ tracker = {} /\ unlinked = {}
    BY WritesAssumption DEF FuseInit, Init, Used
  <2>2. NoCall \in CallState /\ NoCall.ids = {} /\ NoCall.todo = {} /\ NoCall.pc = "idle"
    BY DEF NoCall, CallState
  <2>3. NoListing \in Listing /\ NoListing.entries = {}
    BY DEF NoListing, Listing
  <2>4. TypeOK
    BY <2>1, <2>2, <2>3 DEF TypeOK
  <2>5. ObjectsOK /\ ListingsOK
    BY <2>1, <2>2, <2>3 DEF ObjectsOK, ListingsOK
  <2>6. OpsOK /\ LockOK
    BY <2>1, OpRecords, OpEnds, ScanAssumption DEF OpsOK, LockOK
  <2>7. TrackerDrains /\ ContentKept
    BY <2>1 DEF TrackerDrains, ContentKept
  <2> QED BY <2>1, <2>4, <2>5, <2>6, <2>7 DEF FInv
<1>2. FInv /\ [FuseNext]_allVars => FInv'
  BY ReadInv, CrashInv, BeginInv, UploadInv, UnlinkInv, RenameInv, FaultInv
     DEF FuseNext, Work
<1> QED BY <1>1, <1>2, PTL DEF FuseSpec

(* The state is well typed; objects are numbered in the order they are put; *)
(* the directory lock is held by the goroutine that unlinks, renames or     *)
(* makes a directory, so at most one of them does.                          *)
THEOREM FuseTypeCorrect == FuseSpec => []FuseTypeOK
<1>1. FInv => FuseTypeOK
  BY DEF FInv, FuseTypeOK, ObjectsOK, OpsOK, LockOK
<1> QED BY <1>1, FuseInvariant, PTL

(* Uploads, renames, unlinks, failures and crashes, in any interleaving and *)
(* over listings as stale as they may be, never lose an object: it is in    *)
(* the container, or was removed by a user, or a newer object has its path  *)
(* or is a copy of it.                                                      *)
THEOREM NothingLost == FuseSpec => []ContentKept
<1>1. FInv => ContentKept
  BY DEF FInv
<1> QED BY <1>1, FuseInvariant, PTL

(* A path on the list of uploads in flight is being uploaded, whatever      *)
(* failed before.                                                           *)
THEOREM TrackerDrained == FuseSpec => []TrackerDrains
<1>1. FInv => TrackerDrains
  BY DEF FInv
<1> QED BY <1>1, FuseInvariant, PTL
-----------------------------------------------------------------------------
(* CalmSpec: what an operation misses, and what it may not delete. *)

\* The operations that end in InvalidateContainerScan, whatever follows.
Changing(x) == x.pc \in {"delete", "clear", "copy", "drop", "finish"}

\* Operation x has put object o, whose path is f: o is not one of those that
\* were there when another operation began.
Marks(x, o, f) == x.new = o \/ (x.pc \in {"copy", "drop"} /\ x.dst = f)

\* A cached listing that misses the present content does so because of an
\* operation that runs: it put what the listing misses, and will drop it.
StaleOK ==
    scanCache.present =>
        /\ scanCache.entries = store \/ \E q \in Proc : Changing(op[q])
        /\ \A o \in store \ scanCache.entries : \E q \in Proc : Marks(op[q], o, path[o])
        /\ \A q \in Proc : op[q].must \cap store \subseteq scanCache.entries

ReadOK ==
    /\ \A q \in Proc : call[q].pc = "woken" => scanCache.present
    /\ \A q \in Proc : call[q].pc = "done" => op[q].must \cap store \subseteq call[q].ids

\* What is left of the objects an operation must delete, it has still to delete.
PlanOK(x, left, used, pa) ==
    /\ x \in OpState
    /\ x.must \subseteq used /\ \A o \in x.must : pa[o] = x.src
    /\ x.pc \in {"idle", "list", "listdst", "put", "clear"} => x.new = 0
    /\ x.kind # "none" => x.src \in Path
    /\ x.kind = "rename" => x.dst \in Path
    /\ x.kind = "rename" /\ x.new # 0 => x.new \in used /\ pa[x.new] = x.dst
    /\ x.kind \in {"upload", "unlink"} /\ x.pc = "put" => x.must \cap left \subseteq x.rest
    /\ x.kind = "unlink" /\ x.pc = "delete" => x.must \cap left \subseteq x.rest
    /\ x.kind = "upload" /\ x.pc = "delete" =>
          x.must \cap left \subseteq x.rest \cup {x.new} /\ x.new \notin x.rest

PlansOK == op \in [Proc -> OpState] /\ \A q \in Proc : PlanOK(op[q], store, Used, path)

NoErrors == \A q \in Proc : ~call[q].err

(* The inductive invariant. *)
CalmInv ==
    /\ TypeOK /\ ObjectsOK /\ SingleFlight /\ Listed /\ NoErrors
    /\ StaleOK /\ ReadOK /\ PlansOK

-----------------------------------------------------------------------------
(* An object that has left the container does not come back. *)
LEMMA GoneForGood ==
    ASSUME TypeOK, ServerStep
    PROVE  \A o \in Used : o \in store' => o \in store
<1>1. CASE UNCHANGED <<serverVars, objVars>>
  BY <1>1 DEF serverVars
<1>2. ASSUME NEW o \in Object, NEW f \in Path, NEW c \in Object \cup {0}, PutObject(o, f, c)
      PROVE  \A x \in Used : x \in store' => x \in store
  BY <1>2 DEF PutObject, Put, Used
<1>3. ASSUME NEW o \in Object, Delete(o), UNCHANGED objVars
      PROVE  \A x \in Used : x \in store' => x \in store
  BY <1>3 DEF Delete
<1> QED BY <1>1, <1>2, <1>3 DEF ServerStep

(* What an operation has still to delete does not grow. *)
LEMMA PlanKept ==
    ASSUME NEW x, NEW left, NEW used, NEW pa, NEW left2, NEW used2, NEW pa2,
           PlanOK(x, left, used, pa), used \subseteq used2,
           \A o \in used : pa2[o] = pa[o] /\ (o \in left2 => o \in left)
    PROVE  PlanOK(x, left2, used2, pa2)
<1> USE DEF PlanOK
<1>1. \A o \in x.must : o \in used /\ pa2[o] = x.src
  OBVIOUS
<1>2. x.must \cap left2 \subseteq x.must \cap left
  OBVIOUS
<1> QED BY <1>1, <1>2

(* An operation that has not put anything marks nothing. *)
LEMMA Unmarked ==
    ASSUME NEW x, NEW left, NEW used, NEW pa, PlanOK(x, left, used, pa),
           x.pc \in {"idle", "list", "listdst", "put", "clear"}
    PROVE  \A o \in Object : \A f : ~Marks(x, o, f)
BY WritesAssumption DEF PlanOK, Marks

(* What the proofs below use of the invariant. *)
LEMMA CalmFacts ==
    ASSUME CalmInv, NEW p \in Proc
    PROVE  /\ CallOK(call[p]) /\ CallOK(NoCall) /\ NoCall.pc = "idle"
           /\ ~call[p].err
           /\ op[p] \in OpState /\ PlanOK(op[p], store, Used, path)
           /\ Used \subseteq Object /\ store \subseteq Used
           /\ call = [call EXCEPT ![p] = call[p]] /\ op = [op EXCEPT ![p] = op[p]]
           /\ op \in [Proc -> OpState]
           /\ origin \in [Object -> Object \cup {0}]
<1>1. TypeOK /\ PlansOK /\ ObjectsOK /\ NoErrors
  BY DEF CalmInv
<1>2. CallOK(call[p]) /\ CallOK(NoCall) /\ NoCall.pc = "idle"
  BY <1>1, TypeByCall, CallUpdates DEF NoCall
<1>3. op[p] \in OpState /\ PlanOK(op[p], store, Used, path) /\ ~call[p].err
  BY <1>1 DEF PlansOK, NoErrors
<1>4. Used \subseteq Object /\ store \subseteq Used
  BY <1>1 DEF Used, TypeOK
<1>5. call = [call EXCEPT ![p] = call[p]] /\ op = [op EXCEPT ![p] = op[p]]
  BY <1>1 DEF TypeOK, PlansOK
<1> QED BY <1>1, <1>2, <1>3, <1>4, <1>5 DEF PlansOK, ObjectsOK

(* A step of an operation, in general: its listing call becomes c, its      *)
(* record x.  Either it drops the listing, or it goes on to do so if it has *)
(* changed anything.                                                        *)
LEMMA CalmOp ==
    ASSUME CalmInv, Calm, NEW p \in Proc, NEW c, NEW x,
           call' = [call EXCEPT ![p] = c], CallOK(c),
           \/ c = call[p]
           \/ call[p].pc \notin {"search", "heads"} /\ c.pc \in {"idle", "lookup"},
           scanInflight' = scanInflight,
           op' = [op EXCEPT ![p] = x], PlanOK(x, store', Used', path'), ServerStep,
           \/ scanCache' = NoListing
           \/ /\ scanCache' = scanCache
              /\ store' = store \/ Changing(x)
              /\ Changing(op[p]) => Changing(x)
              /\ \A o \in store' : o \notin store => Marks(x, o, path'[o])
              /\ \A o \in store : Marks(op[p], o, path[o]) => Marks(x, o, path[o]),
           \/ x.must \subseteq op[p].must
           \/ /\ c.pc = "lookup" /\ store' = store
              /\ scanCache.present => x.must \cap store \subseteq scanCache.entries
    PROVE  CalmInv'
<1> USE CalmFacts
<1>1. /\ TypeOK /\ ObjectsOK /\ SingleFlight /\ Listed /\ NoErrors
      /\ StaleOK /\ ReadOK /\ PlansOK
  BY DEF CalmInv
<1>2. /\ store' \subseteq Object /\ removed' \subseteq Object
      /\ store' \cap removed' = {}
      /\ ObjectsOK'
      /\ Used \subseteq Used'
      /\ \A o \in Used : path'[o] = path[o]
  BY <1>1, ServerKeeps
<1>3. \A o \in Used : o \in store' => o \in store
  BY <1>1, GoneForGood
<1>4. scanCache' \in Listing /\ scanInflight' \in Proc \cup {NoProc}
  <2>1. NoListing \in Listing
    BY DEF NoListing, Listing
  <2> QED BY <1>1, <2>1 DEF TypeOK
<1>5. TypeOK' /\ call'[p] = c /\ \A q \in Proc : q # p => call'[q] = call[q]
  BY <1>1, <1>2, <1>4, OneCall
<1>6. SingleFlight'
  <2>1. c.pc \in {"search", "heads"} <=> call[p].pc \in {"search", "heads"}
    OBVIOUS
  <2>2. c.pc = "wait" => c.leader = scanInflight /\ InFlight
    BY <1>1 DEF SingleFlight, At
  <2> QED BY <1>1, <2>1, <2>2, FlightKept
<1>7. Listed'
  <2>1. CASE store' = store
    BY <1>1, <1>5, <2>1 DEF Listed, At
  <2>2. CASE store' # store
    <3>1. scanInflight = NoProc
      BY <2>2 DEF Calm, Quiet
    <3>2. \A q \in Proc : scanInflight' # q
      BY <3>1, ScanAssumption
    <3>3. \A q \in Proc : call'[q].pc # "heads"
      BY <1>6, <3>2 DEF SingleFlight, Leads
    <3> QED BY <3>3 DEF Listed, At
  <2> QED BY <2>1, <2>2
<1>8. NoErrors'
  BY <1>1 DEF NoErrors, Calm
<1>9. op'[p] = x /\ \A q \in Proc : q # p => op'[q] = op[q]
  BY <1>1 DEF PlansOK
<1>10. PlansOK'
  <2>1. ASSUME NEW q \in Proc PROVE PlanOK(op'[q], store', Used', path')
    <3>1. CASE q = p
      BY <1>9, <3>1
    <3>2. CASE q # p
      <4>1. PlanOK(op[q], store, Used, path)
        BY <1>1 DEF PlansOK
      <4>2. PlanOK(op[q], store', Used', path')
        BY <1>2, <1>3, <4>1, PlanKept
      <4> QED BY <1>9, <3>2, <4>2
    <3> QED BY <3>1, <3>2
  <2>2. op' \in [Proc -> OpState]
    BY DEF PlanOK
  <2> QED BY <2>1, <2>2 DEF PlansOK
<1>11. \A q \in Proc : op[q].must \cap store' \subseteq op[q].must \cap store
  BY <1>1, <1>3 DEF PlansOK, PlanOK
<1>12. StaleOK'
  <2>1. CASE scanCache' = NoListing
    BY <2>1 DEF StaleOK, NoListing
  <2>2. ASSUME scanCache' = scanCache, scanCache.present,
               store' = store \/ Changing(x),
               Changing(op[p]) => Changing(x),
               \A o \in store' : o \notin store => Marks(x, o, path'[o]),
               \A o \in store : Marks(op[p], o, path[o]) => Marks(x, o, path[o])
        PROVE  StaleOK'
    <3>1. scanCache.entries = store' \/ \E q \in Proc : Changing(op'[q])
      <4>1. CASE Changing(x)
        BY <1>9, <4>1
      <4>2. CASE store' = store /\ ~Changing(op[p])
        BY <1>1, <1>9, <2>2, <4>2 DEF StaleOK
      <4> QED BY <2>2, <4>1, <4>2
    <3>2. ASSUME NEW o \in store', o \notin scanCache.entries
          PROVE  \E q \in Proc : Marks(op'[q], o, path'[o])
      <4>1. CASE o \notin store
        BY <1>9, <2>2, <4>1
      <4>2. CASE o \in store
        <5>1. PICK q \in Proc : Marks(op[q], o, path[o])
          BY <1>1, <2>2, <3>2, <4>2 DEF StaleOK
        <5>2. path'[o] = path[o]
          BY <1>2, <4>2
        <5>3. CASE q = p
          BY <1>9, <2>2, <4>2, <5>1, <5>2, <5>3
        <5>4. CASE q # p
          BY <1>9, <5>1, <5>2, <5>4
        <5> QED BY <5>3, <5>4
      <4> QED BY <4>1, <4>2
    <3>3. ASSUME NEW q \in Proc PROVE op'[q].must \cap store' \subseteq scanCache.entries
      <4>1. op[q].must \cap store \subseteq scanCache.entries
        BY <1>1, <2>2 DEF StaleOK
      <4>2. CASE q = p
        BY <1>9, <1>11, <2>2, <4>1, <4>2
      <4>3. CASE q # p
        BY <1>9, <1>11, <4>1, <4>3
      <4> QED BY <4>2, <4>3
    <3> QED BY <2>2, <3>1, <3>2, <3>3 DEF StaleOK
  <2>3. CASE scanCache' = scanCache /\ ~scanCache.present
    BY <2>3 DEF StaleOK
  <2> QED BY <2>1, <2>2, <2>3
<1>13. ReadOK'
  <2>1. ASSUME NEW q \in Proc, call'[q].pc = "woken" PROVE scanCache'.present
    <3>1. call[q].pc = "woken"
      BY <1>5, <2>1
    <3>2. scanCache.present
      BY <1>1, <3>1 DEF ReadOK
    <3> QED BY <3>1, <3>2 DEF Calm, At
  <2>2. ASSUME NEW q \in Proc, call'[q].pc = "done"
        PROVE  op'[q].must \cap store' \subseteq call'[q].ids
    <3>1. call[q].pc = "done" /\ call'[q].ids = call[q].ids
      BY <1>5, <2>2
    <3>2. op'[q].must \subseteq op[q].must
      BY <1>5, <1>9, <2>2
    <3>3. op[q].must \cap store \subseteq call[q].ids
      BY <1>1, <3>1 DEF ReadOK
    <3> QED BY <1>11, <3>1, <3>2, <3>3
  <2> QED BY <2>1, <2>2 DEF ReadOK
<1> QED BY <1>2, <1>5, <1>6, <1>7, <1>8, <1>10, <1>12, <1>13 DEF CalmInv

(* The plans of an operation that has ended, and of one that makes a        *)
(* directory.                                                               *)
LEMMA PlanEnds ==
    ASSUME NEW left, NEW used, NEW pa
    PROVE  PlanOK(NoOp, left, used, pa) /\ NoOp.must = {} /\ NoOp.new = 0 /\ ~Changing(NoOp)
<1>1. /\ NoOp \in OpState /\ NoOp.kind = "none" /\ NoOp.pc = "idle" /\ NoOp.new = 0
      /\ NoOp.must = {}
  BY DEF NoOp, OpState
<1> QED BY <1>1 DEF PlanOK, Changing

Makes(f, o) == [NoOp EXCEPT !.kind = "mkdir", !.pc = "finish", !.src = f, !.new = o]

LEMMA PlanMkdir ==
    ASSUME NEW left, NEW used, NEW pa, NEW f \in Path, NEW o \in Object
    PROVE  /\ PlanOK(Makes(f, o), left, used, pa)
           /\ Makes(f, o).must = {} /\ Makes(f, o).new = o /\ Changing(Makes(f, o))
<1> DEFINE y == Makes(f, o)
<1>1. y \in OpState
  BY DEF NoOp, OpState, Makes
<1>2. y.kind = "mkdir" /\ y.pc = "finish" /\ y.src = f /\ y.must = {} /\ y.new = o
  BY DEF NoOp, OpState, Makes
<1> HIDE DEF y
<1>3. PlanOK(y, left, used, pa) /\ Changing(y) /\ y.must = {} /\ y.new = o
  BY <1>1, <1>2 DEF PlanOK, Changing
<1> QED BY <1>3 DEF y

(* An operation that begins to list. *)
LEMMA CalmStart ==
    ASSUME CalmInv, Calm, NEW p \in Proc, NEW kind \in {"upload", "unlink", "rename"},
           NEW f \in Path, NEW d \in Path \cup {NoPath}, NEW must \in SUBSET Object,
           Start(p, kind, f, d, must), kind = "rename" => d \in Path,
           must \subseteq store, \A o \in must : path[o] = f,
           scanCache.present => must \subseteq scanCache.entries
    PROVE  CalmInv'
<1> USE CalmFacts DEF serverVars, scanVars, objVars
<1> DEFINE c == [call[p] EXCEPT !.pc = "lookup"]
           x == [NoOp EXCEPT !.kind = kind, !.pc = "list", !.src = f, !.dst = d,
                             !.must = must]
<1>1. /\ op' = [op EXCEPT ![p] = x] /\ call' = [call EXCEPT ![p] = c]
      /\ op[p] = NoOp /\ call[p].pc = "idle"
      /\ UNCHANGED <<store, removed, scanCache, scanInflight, path, origin, puts>>
  BY DEF Start, Idle, Goto, At
<1>2. CallOK(c)
  BY CallUpdates
<1>3. c.pc = "lookup"
  BY DEF CallOK, CallState
<1>4. must \subseteq Used'
  BY <1>1 DEF Used
<1> HIDE DEF c
<1>x. /\ x \in OpState /\ x.kind = kind /\ x.pc = "list" /\ x.src = f /\ x.dst = d
      /\ x.must = must /\ x.new = 0
  BY DEF NoOp, OpState
<1> HIDE DEF x
<1>5. PlanOK(x, store', Used', path') /\ x.must = must
  BY <1>1, <1>4, <1>x DEF PlanOK
<1>6. ~Changing(op[p]) /\ \A o \in store : ~Marks(op[p], o, path[o])
  <2>1. op[p].pc = "idle"
    BY <1>1 DEF NoOp
  <2>2. \A o \in Object : ~Marks(op[p], o, path[o])
    BY <2>1, Unmarked
  <2> QED BY <2>1, <2>2 DEF Changing
<1>7. ServerStep
  BY <1>1 DEF ServerStep
<1>8. scanCache.present => x.must \cap store \subseteq scanCache.entries
  BY <1>5
<1> QED BY <1>1, <1>2, <1>3, <1>5, <1>6, <1>7, <1>8, CalmOp

(* A cached listing has the settled objects of a path. *)
LEMMA SettledListed ==
    ASSUME CalmInv, NEW f \in Path
    PROVE  /\ Settled(f) \in SUBSET Object /\ Settled(f) \subseteq store
           /\ \A o \in Settled(f) : path[o] = f
           /\ scanCache.present => Settled(f) \subseteq scanCache.entries
<1>1. TypeOK /\ StaleOK
  BY DEF CalmInv
<1>2. Settled(f) \subseteq store /\ \A o \in Settled(f) : path[o] = f
  BY DEF Settled
<1>3. ASSUME scanCache.present, NEW o \in Settled(f), o \notin scanCache.entries
      PROVE  FALSE
  <2>1. PICK q \in Proc : Marks(op[q], o, path[o])
    BY <1>1, <1>2, <1>3 DEF StaleOK
  <2>2. path[o] = f /\ op[q].new # o /\ op[q].dst # f
    BY DEF Settled
  <2> QED BY <2>1, <2>2 DEF Marks
<1> QED BY <1>1, <1>2, <1>3 DEF TypeOK

(* Every operation that begins. *)
LEMMA CalmBegin ==
    ASSUME CalmInv, Calm, NEW p \in Proc, Begin(p)
    PROVE  CalmInv'
<1> USE CalmFacts DEF serverVars, scanVars, objVars
<1>1. ASSUME NEW f \in Path, UploadStart(p, f) \/ UnlinkStart(p, f) PROVE CalmInv'
  <2>1. PICK kind \in {"upload", "unlink"} : Start(p, kind, f, NoPath, Settled(f))
    BY <1>1 DEF UploadStart, UnlinkStart
  <2>2. kind \in {"upload", "unlink", "rename"} /\ kind # "rename"
    OBVIOUS
  <2> QED BY <2>1, <2>2, SettledListed, CalmStart
<1>2. ASSUME NEW s \in Path, NEW d \in Path, RenameStart(p, s, d) PROVE CalmInv'
  <2>1. Start(p, "rename", s, d, {})
    BY <1>2 DEF RenameStart
  <2>2. {} \in SUBSET Object /\ {} \subseteq store /\ {} \subseteq scanCache.entries
    OBVIOUS
  <2> QED BY <2>1, <2>2, CalmStart
<1>3. ASSUME NEW f \in Path, NEW o \in Object, Mkdir(p, f, o) PROVE CalmInv'
  <2> DEFINE x == Makes(f, o)
  <2>1. /\ op' = [op EXCEPT ![p] = x] /\ op[p] = NoOp /\ PutObject(o, f, o)
        /\ UNCHANGED <<scanCache, scanInflight, call>>
    BY <1>3 DEF Mkdir, Idle, Makes
  <2>2. PlanOK(x, store', Used', path') /\ x.must = {} /\ x.new = o /\ Changing(x)
    BY PlanMkdir
  <2> HIDE DEF x
  <2>3. \A n \in store : ~Marks(op[p], n, path[n])
    <3>1. op[p].pc = "idle"
      BY <2>1 DEF NoOp
    <3> QED BY <3>1, Unmarked
  <2>4. \A n \in store' : n \notin store => Marks(x, n, path'[n])
    BY <2>1, <2>2 DEF PutObject, Put, Marks
  <2>5. ServerStep
    BY <2>1 DEF ServerStep
  <2> QED BY <2>1, <2>2, <2>3, <2>4, <2>5, CalmOp
<1> QED BY <1>1, <1>2, <1>3 DEF Begin

(* The put that repeats a content. *)
LEMMA CalmPutSame ==
    ASSUME CalmInv, Calm, NEW p \in Proc, NEW o \in Object, UploadPutSame(p, o)
    PROVE  CalmInv'
<1> DEFINE x == [op[p] EXCEPT !.pc = "delete", !.rest = op[p].rest \ {o}, !.new = o]
<1>1. op' = [op EXCEPT ![p] = x] /\ op[p].kind = "upload" /\ op[p].pc = "put"
  BY CalmFacts DEF UploadPutSame, Obsolete, Doing
<1>2. UNCHANGED <<store, removed, scanCache, scanInflight, call, path, origin, puts>>
  BY DEF UploadPutSame, vars, objVars, serverVars, scanVars
<1>3. /\ x \in OpState /\ x.pc = "delete" /\ x.kind = "upload" /\ x.src = op[p].src
      /\ x.rest = op[p].rest \ {o} /\ x.new = o /\ x.must = op[p].must
  BY <1>1, CalmFacts DEF OpState
<1> HIDE DEF x
<1> USE CalmFacts
<1>4. Used' = Used /\ ServerStep
  BY <1>2 DEF Used, ServerStep, serverVars, objVars
<1>5. PlanOK(x, store', Used', path')
  BY <1>1, <1>2, <1>3, <1>4 DEF PlanOK
<1>6. Changing(x) /\ \A n \in store : ~Marks(op[p], n, path[n])
  BY <1>1, <1>3, Unmarked DEF Changing
<1> QED BY <1>1, <1>2, <1>3, <1>4, <1>5, <1>6, CalmOp

(* The steps of an upload, and the put that repeats a content. *)
LEMMA CalmUpload ==
    ASSUME CalmInv, Calm, NEW p \in Proc,
           Upload(p) \/ \E o \in Object : UploadPutSame(p, o)
    PROVE  CalmInv'
<1> USE CalmFacts DEF serverVars, scanVars, objVars, vars, Doing
<1>1. CASE UploadListed(p)
  <2> DEFINE r == Matches(p, op[p].src)
             x == [op[p] EXCEPT !.pc = "put", !.rest = r]
  <2>1. /\ op' = [op EXCEPT ![p] = x] /\ call' = [call EXCEPT ![p] = NoCall]
        /\ op[p].kind = "upload" /\ op[p].pc = "list" /\ call[p].pc = "done"
        /\ UNCHANGED <<store, removed, scanCache, scanInflight, path, origin, puts>>
    BY <1>1 DEF UploadListed, Forget, At
  <2>2. op[p].must \cap store \subseteq r
    BY <2>1 DEF CalmInv, ReadOK, Matches, PlanOK
  <2>3. r \in SUBSET Object
    BY DEF Matches, CallOK, CallState
  <2> HIDE DEF r
  <2>4. /\ x \in OpState /\ x.pc = "put" /\ x.kind = "upload" /\ x.src = op[p].src
        /\ x.rest = r /\ x.must = op[p].must /\ x.new = op[p].new
    BY <2>1, <2>3 DEF OpState
  <2> HIDE DEF x
  <2>5. Used' = Used /\ ServerStep
    BY <2>1 DEF Used, ServerStep
  <2>6. PlanOK(x, store', Used', path')
    BY <2>1, <2>2, <2>4, <2>5 DEF PlanOK
  <2>7. ~Changing(op[p]) /\ \A o \in store : ~Marks(op[p], o, path[o])
    BY <2>1, Unmarked DEF Changing
  <2> QED BY <2>1, <2>4, <2>5, <2>6, <2>7, CalmOp
<1>2. ASSUME NEW o \in Object, UploadPut(p, o) PROVE CalmInv'
  <2> DEFINE x == [op[p] EXCEPT !.pc = "delete", !.rest = op[p].rest \ {o}, !.new = o]
  <2>1. /\ op' = [op EXCEPT ![p] = x] /\ op[p].kind = "upload" /\ op[p].pc = "put"
        /\ PutObject(o, op[p].src, o)
        /\ UNCHANGED <<scanCache, scanInflight, call>>
    BY <1>2 DEF UploadPut, Obsolete
  <2>2. /\ x \in OpState /\ x.pc = "delete" /\ x.kind = "upload" /\ x.src = op[p].src
        /\ x.rest = op[p].rest \ {o} /\ x.new = o /\ x.must = op[p].must
    BY <2>1 DEF OpState
  <2> HIDE DEF x
  <2>3. ServerStep /\ op[p].src \in Path
    BY <2>1 DEF ServerStep, PlanOK
  <2>4. Used \subseteq Used' /\ \A n \in Used : path'[n] = path[n]
    BY <2>3, ServerKeeps DEF CalmInv
  <2>5. store' = store \cup {o}
    BY <2>1 DEF PutObject, Put
  <2>6. PlanOK(x, store', Used', path')
    BY <2>1, <2>2, <2>4, <2>5 DEF PlanOK
  <2>7. Changing(x) /\ \A n \in store' : n \notin store => Marks(x, n, path'[n])
    BY <2>2, <2>5 DEF Changing, Marks
  <2>8. \A n \in store : ~Marks(op[p], n, path[n])
    BY <2>1, Unmarked
  <2> QED BY <2>1, <2>2, <2>3, <2>6, <2>7, <2>8, CalmOp
<1>3. ASSUME NEW o \in Object, UploadPutSame(p, o) PROVE CalmInv'
  BY <1>3, CalmPutSame
<1>4. ASSUME NEW o \in Object, UploadDelete(p, o) PROVE CalmInv'
  <2> DEFINE x == [op[p] EXCEPT !.rest = op[p].rest \ {o}]
  <2>1. /\ op' = [op EXCEPT ![p] = x] /\ op[p].kind = "upload" /\ op[p].pc = "delete"
        /\ o \in op[p].rest /\ DeleteObject(o)
        /\ UNCHANGED <<scanCache, scanInflight, call, path, origin, puts>>
    BY <1>4 DEF UploadDelete
  <2>2. /\ x \in OpState /\ x.pc = "delete" /\ x.kind = "upload" /\ x.src = op[p].src
        /\ x.rest = op[p].rest \ {o} /\ x.new = op[p].new /\ x.must = op[p].must
        /\ x.dst = op[p].dst
    BY <2>1 DEF OpState
  <2> HIDE DEF x
  <2>3. Used' = Used /\ ServerStep /\ store' = store \ {o}
    BY <2>1 DEF DeleteObject, Delete, Used, ServerStep
  <2>4. PlanOK(x, store', Used', path')
    BY <2>1, <2>2, <2>3 DEF PlanOK
  <2>5. Changing(x) /\ \A n \in store : Marks(op[p], n, path[n]) => Marks(x, n, path[n])
    BY <2>1, <2>2 DEF Changing, Marks
  <2> QED BY <2>1, <2>2, <2>3, <2>4, <2>5, CalmOp
<1>5. CASE UploadFinish(p)
  <2>1. /\ op' = [op EXCEPT ![p] = NoOp] /\ scanCache' = NoListing
        /\ UNCHANGED <<store, removed, scanInflight, call, path, origin, puts>>
    BY <1>5 DEF UploadFinish, EndAndInvalidate, End, Dropped
  <2>2. ServerStep
    BY <2>1 DEF ServerStep
  <2> QED BY <2>1, <2>2, PlanEnds, CalmOp
<1> QED BY <1>1, <1>2, <1>3, <1>4, <1>5 DEF Upload

(* The steps of an unlink. *)
LEMMA CalmUnlink ==
    ASSUME CalmInv, Calm, NEW p \in Proc, Unlink(p)
    PROVE  CalmInv'
<1> USE CalmFacts DEF serverVars, scanVars, objVars, vars, Doing
<1>1. CASE UnlinkListed(p)
  <2> DEFINE r == Matches(p, op[p].src)
             x == [op[p] EXCEPT !.pc = "delete", !.rest = r]
  <2>1. /\ op[p].kind = "unlink" /\ op[p].pc = "list" /\ call[p].pc = "done"
        /\ call' = [call EXCEPT ![p] = NoCall]
        /\ op' = [op EXCEPT ![p] = NoOp] \/ op' = [op EXCEPT ![p] = x]
        /\ UNCHANGED <<store, removed, scanCache, scanInflight, path, origin, puts>>
    BY <1>1 DEF UnlinkListed, Forget, End, At
  <2>2. op[p].must \cap store \subseteq r
    BY <2>1 DEF CalmInv, ReadOK, Matches, PlanOK
  <2>3. r \in SUBSET Object
    BY DEF Matches, CallOK, CallState
  <2> HIDE DEF r
  <2>4. /\ x \in OpState /\ x.pc = "delete" /\ x.kind = "unlink" /\ x.src = op[p].src
        /\ x.rest = r /\ x.must = op[p].must
    BY <2>1, <2>3 DEF OpState
  <2> HIDE DEF x
  <2>5. Used' = Used /\ ServerStep
    BY <2>1 DEF Used, ServerStep
  <2>6. PlanOK(x, store', Used', path')
    BY <2>1, <2>2, <2>4, <2>5 DEF PlanOK
  <2>7. ~Changing(op[p]) /\ \A o \in store : ~Marks(op[p], o, path[o])
    BY <2>1, Unmarked DEF Changing
  <2>8. CASE op' = [op EXCEPT ![p] = NoOp]
    BY <2>1, <2>5, <2>7, <2>8, PlanEnds, CalmOp
  <2>9. CASE op' = [op EXCEPT ![p] = x]
    BY <2>1, <2>4, <2>5, <2>6, <2>7, <2>9, CalmOp
  <2> QED BY <2>1, <2>8, <2>9
<1>2. ASSUME NEW o \in Object, UnlinkDelete(p, o) PROVE CalmInv'
  <2> DEFINE x == [op[p] EXCEPT !.rest = op[p].rest \ {o}]
  <2>1. /\ op' = [op EXCEPT ![p] = x] /\ op[p].kind = "unlink" /\ op[p].pc = "delete"
        /\ o \in op[p].rest /\ DeleteObject(o)
        /\ UNCHANGED <<scanCache, scanInflight, call, path, origin, puts>>
    BY <1>2 DEF UnlinkDelete
  <2>2. /\ x \in OpState /\ x.pc = "delete" /\ x.kind = "unlink" /\ x.src = op[p].src
        /\ x.rest = op[p].rest \ {o} /\ x.new = op[p].new /\ x.must = op[p].must
        /\ x.dst = op[p].dst
    BY <2>1 DEF OpState
  <2> HIDE DEF x
  <2>3. /\ Used' = Used /\ ServerStep /\ store' \subseteq store
        /\ \A n \in store' : n # o
    BY <2>1 DEF DeleteObject, Delete, Used, ServerStep
  <2>4. PlanOK(x, store', Used', path')
    BY <2>1, <2>2, <2>3 DEF PlanOK
  <2>5. Changing(x) /\ \A n \in store : Marks(op[p], n, path[n]) => Marks(x, n, path[n])
    BY <2>1, <2>2 DEF Changing, Marks
  <2> QED BY <2>1, <2>2, <2>3, <2>4, <2>5, CalmOp
<1>3. CASE UnlinkFinish(p)
  <2>1. /\ op' = [op EXCEPT ![p] = NoOp] /\ scanCache' = NoListing
        /\ UNCHANGED <<store, removed, scanInflight, call, path, origin, puts>>
    BY <1>3 DEF UnlinkFinish, EndAndInvalidate, End, Dropped
  <2>2. ServerStep
    BY <2>1 DEF ServerStep
  <2> QED BY <2>1, <2>2, PlanEnds, CalmOp
<1> QED BY <1>1, <1>2, <1>3 DEF Unlink

(* The steps of a rename, and the end of a mkdir. *)
LEMMA CalmRename ==
    ASSUME CalmInv, Calm, NEW p \in Proc, Rename(p) \/ MkdirFinish(p)
    PROVE  CalmInv'
<1> USE CalmFacts DEF serverVars, scanVars, objVars, vars, Doing
<1>1. CASE RenameListed(p)
  <2> DEFINE r == Matches(p, op[p].src)
             x == [op[p] EXCEPT !.pc = "listdst", !.from = r]
             c == [NoCall EXCEPT !.pc = "lookup"]
  <2>1. /\ op[p].kind = "rename" /\ op[p].pc = "list" /\ call[p].pc = "done"
        /\ \/ op' = [op EXCEPT ![p] = NoOp] /\ call' = [call EXCEPT ![p] = NoCall]
           \/ op' = [op EXCEPT ![p] = x] /\ call' = [call EXCEPT ![p] = c]
        /\ UNCHANGED <<store, removed, scanCache, scanInflight, path, origin, puts>>
    BY <1>1 DEF RenameListed, Forget, End, At
  <2>2. r \in SUBSET Object
    BY DEF Matches, CallOK, CallState
  <2> HIDE DEF r
  <2>3. /\ x.pc = "listdst" /\ x.kind = "rename" /\ x.src = op[p].src
        /\ x.dst = op[p].dst /\ x.must = op[p].must /\ x.new = op[p].new
    BY <2>1, <2>2 DEF OpState
  <2>4. x \in OpState
    <3>1. op[p] \in OpState /\ op[p].kind = "rename" /\ r \in SUBSET Object
      BY <2>1, <2>2
    <3> QED BY <3>1 DEF OpState
  <2>5. CallOK(c)
    BY CallUpdates
  <2>6. c.pc = "lookup"
    BY DEF NoCall
  <2> HIDE DEF x, c
  <2>7. Used' = Used /\ ServerStep
    BY <2>1 DEF Used, ServerStep
  <2>8. PlanOK(x, store', Used', path')
    BY <2>1, <2>3, <2>4, <2>7 DEF PlanOK
  <2>9. ~Changing(op[p]) /\ \A o \in store : ~Marks(op[p], o, path[o])
    BY <2>1, Unmarked DEF Changing
  <2>10. CASE op' = [op EXCEPT ![p] = NoOp] /\ call' = [call EXCEPT ![p] = NoCall]
    BY <2>1, <2>7, <2>9, <2>10, PlanEnds, CalmOp
  <2>11. CASE op' = [op EXCEPT ![p] = x] /\ call' = [call EXCEPT ![p] = c]
    BY <2>1, <2>3, <2>5, <2>6, <2>7, <2>8, <2>9, <2>11, CalmOp
  <2> QED BY <2>1, <2>10, <2>11
<1>2. CASE RenameListedDst(p)
  <2> DEFINE r == IF call[p].err THEN {} ELSE Matches(p, op[p].dst)
             x == [op[p] EXCEPT !.pc = "clear", !.rest = r]
  <2>1. /\ op' = [op EXCEPT ![p] = x] /\ call' = [call EXCEPT ![p] = NoCall]
        /\ op[p].kind = "rename" /\ op[p].pc = "listdst" /\ call[p].pc = "done"
        /\ UNCHANGED <<store, removed, scanCache, scanInflight, path, origin, puts>>
    BY <1>2 DEF RenameListedDst, Forget, At
  <2>2. r \in SUBSET Object
    BY DEF Matches, CallOK, CallState
  <2> HIDE DEF r
  <2>3. /\ x \in OpState /\ x.pc = "clear" /\ x.kind = "rename" /\ x.src = op[p].src
        /\ x.dst = op[p].dst /\ x.must = op[p].must /\ x.new = op[p].new
    BY <2>1, <2>2 DEF OpState
  <2> HIDE DEF x
  <2>4. Used' = Used /\ ServerStep
    BY <2>1 DEF Used, ServerStep
  <2>5. PlanOK(x, store', Used', path')
    BY <2>1, <2>3, <2>4 DEF PlanOK
  <2>6. ~Changing(op[p]) /\ \A o \in store : ~Marks(op[p], o, path[o])
    BY <2>1, Unmarked DEF Changing
  <2> QED BY <2>1, <2>3, <2>4, <2>5, <2>6, CalmOp
<1>3. ASSUME NEW o \in Object, RenameClear(p, o) PROVE CalmInv'
  <2> DEFINE x == [op[p] EXCEPT !.rest = op[p].rest \ {o}]
  <2>1. /\ op' = [op EXCEPT ![p] = x] /\ op[p].kind = "rename" /\ op[p].pc = "clear"
        /\ DeleteObject(o)
        /\ UNCHANGED <<scanCache, scanInflight, call, path, origin, puts>>
    BY <1>3 DEF RenameClear
  <2>2. /\ x \in OpState /\ x.pc = "clear" /\ x.kind = "rename" /\ x.src = op[p].src
        /\ x.new = op[p].new /\ x.must = op[p].must /\ x.dst = op[p].dst
    BY <2>1 DEF OpState
  <2> HIDE DEF x
  <2>3. Used' = Used /\ ServerStep /\ store' \subseteq store
    BY <2>1 DEF DeleteObject, Delete, Used, ServerStep
  <2>4. PlanOK(x, store', Used', path')
    BY <2>1, <2>2, <2>3 DEF PlanOK
  <2>5. Changing(x) /\ \A n \in store : Marks(op[p], n, path[n]) => Marks(x, n, path[n])
    BY <2>1, <2>2 DEF Changing, Marks
  <2> QED BY <2>1, <2>2, <2>3, <2>4, <2>5, CalmOp
<1>4. CASE RenameCleared(p)
  <2> DEFINE x == [op[p] EXCEPT !.pc = "copy"]
  <2>1. /\ op' = [op EXCEPT ![p] = x] /\ op[p].kind = "rename" /\ op[p].pc = "clear"
    BY <1>4 DEF RenameCleared
  <2>2. UNCHANGED <<vars, objVars>>
    BY <1>4 DEF RenameCleared
  <2>3. /\ x \in OpState /\ x.pc = "copy" /\ x.kind = "rename" /\ x.src = op[p].src
        /\ x.new = op[p].new /\ x.must = op[p].must /\ x.dst = op[p].dst
    BY <2>1 DEF OpState
  <2> HIDE DEF x
  <2>4. Used' = Used /\ ServerStep
    BY <2>2 DEF Used, ServerStep
  <2>5. PlanOK(x, store', Used', path')
    BY <2>1, <2>2, <2>3, <2>4 DEF PlanOK
  <2>6. Changing(x) /\ \A n \in store : ~Marks(op[p], n, path[n])
    BY <2>1, <2>3, Unmarked DEF Changing
  <2> QED BY <2>1, <2>2, <2>3, <2>4, <2>5, <2>6, CalmOp
<1>5. ASSUME NEW o \in Object, NEW n \in Object, RenameCopy(p, o, n) PROVE CalmInv'
  <2> DEFINE x == [op[p] EXCEPT !.pc = "drop", !.rest = {o}, !.new = n]
  <2>1. /\ op' = [op EXCEPT ![p] = x] /\ op[p].kind = "rename" /\ op[p].pc = "copy"
        /\ PutObject(n, op[p].dst, origin[o])
        /\ UNCHANGED <<scanCache, scanInflight, call>>
    BY <1>5 DEF RenameCopy
  <2>2. /\ x \in OpState /\ x.pc = "drop" /\ x.kind = "rename" /\ x.src = op[p].src
        /\ x.new = n /\ x.must = op[p].must /\ x.dst = op[p].dst
    BY <2>1 DEF OpState
  <2> HIDE DEF x
  <2>3. op[p].dst \in Path /\ origin[o] \in Object \cup {0}
    BY <2>1 DEF PlanOK
  <2>4. ServerStep
    BY <2>1, <2>3 DEF ServerStep
  <2>5. Used \subseteq Used' /\ \A m \in Used : path'[m] = path[m]
    BY <2>4, ServerKeeps DEF CalmInv
  <2>6. store' = store \cup {n} /\ n \in Used' /\ path'[n] = op[p].dst
    BY <2>1 DEF PutObject, Put, CalmInv, ObjectsOK, Used
  <2>7. PlanOK(x, store', Used', path')
    <3>1. x.must \subseteq Used' /\ \A m \in x.must : path'[m] = x.src
      BY <2>2, <2>5 DEF PlanOK
    <3>2. x.src \in Path
      BY <2>1, <2>2 DEF PlanOK
    <3> QED BY <2>2, <2>3, <2>6, <3>1, <3>2 DEF PlanOK
  <2>8. Changing(x) /\ \A m \in store' : m \notin store => Marks(x, m, path'[m])
    BY <2>2, <2>6 DEF Changing, Marks
  <2>9. \A m \in store : Marks(op[p], m, path[m]) => Marks(x, m, path[m])
    <3>1. ASSUME NEW m \in store, op[p].new = m PROVE path[m] = op[p].dst
      BY <2>1, <3>1, WritesAssumption DEF PlanOK
    <3> QED BY <2>2, <3>1 DEF Marks
  <2> QED BY <2>1, <2>2, <2>4, <2>7, <2>8, <2>9, CalmOp
<1>6. ASSUME NEW o \in Object, RenameDrop(p, o) PROVE CalmInv'
  <2> DEFINE x == [op[p] EXCEPT !.pc = "copy", !.rest = {}, !.from = op[p].from \ {o}]
  <2>1. /\ op' = [op EXCEPT ![p] = x] /\ op[p].kind = "rename" /\ op[p].pc = "drop"
        /\ DeleteObject(o)
        /\ UNCHANGED <<scanCache, scanInflight, call, path, origin, puts>>
    BY <1>6 DEF RenameDrop
  <2>2. /\ x \in OpState /\ x.pc = "copy" /\ x.kind = "rename" /\ x.src = op[p].src
        /\ x.new = op[p].new /\ x.must = op[p].must /\ x.dst = op[p].dst
    BY <2>1 DEF OpState
  <2> HIDE DEF x
  <2>3. Used' = Used /\ ServerStep /\ store' \subseteq store
    BY <2>1 DEF DeleteObject, Delete, Used, ServerStep
  <2>4. PlanOK(x, store', Used', path')
    BY <2>1, <2>2, <2>3 DEF PlanOK
  <2>5. Changing(x) /\ \A n \in store : Marks(op[p], n, path[n]) => Marks(x, n, path[n])
    BY <2>1, <2>2 DEF Changing, Marks
  <2> QED BY <2>1, <2>2, <2>3, <2>4, <2>5, CalmOp
<1>7. CASE RenameFinish(p) \/ MkdirFinish(p)
  <2>1. /\ op' = [op EXCEPT ![p] = NoOp] /\ scanCache' = NoListing
        /\ UNCHANGED <<store, removed, scanInflight, call, path, origin, puts>>
    BY <1>7 DEF RenameFinish, MkdirFinish, EndAndInvalidate, End, Dropped
  <2>2. ServerStep
    BY <2>1 DEF ServerStep
  <2> QED BY <2>1, <2>2, PlanEnds, CalmOp
<1> QED BY <1>1, <1>2, <1>3, <1>4, <1>5, <1>6, <1>7 DEF Rename

(* A step of a listing call, in general: it becomes c, and the listing and  *)
(* the container stay as they are.                                          *)
LEMMA CalmRead ==
    ASSUME CalmInv, Calm, TypeOK', SingleFlight', UNCHANGED <<store, removed, objVars, op>>,
           scanCache'.present = scanCache.present, scanCache'.entries = scanCache.entries,
           NEW p \in Proc, NEW c, call' = [call EXCEPT ![p] = c], c.pc # "woken",
           c.pc = "heads" => c.ids = store,
           c.pc = "done" => op[p].must \cap store \subseteq c.ids
    PROVE  CalmInv'
<1>1. /\ TypeOK /\ ObjectsOK /\ Listed /\ NoErrors /\ StaleOK /\ ReadOK /\ PlansOK
  BY DEF CalmInv
<1>2. call'[p] = c /\ \A q \in Proc : q # p => call'[q] = call[q]
  BY <1>1 DEF TypeOK
<1>3. Listed'
  BY <1>1, <1>2 DEF Listed, At
<1>4. NoErrors'
  BY <1>1 DEF NoErrors, Calm
<1>5. ReadOK'
  BY <1>1, <1>2 DEF ReadOK
<1>6. ObjectsOK' /\ StaleOK' /\ PlansOK'
  <2>1. Used' = Used /\ path' = path /\ origin' = origin /\ puts' = puts
    BY DEF Used, objVars
  <2>2. ObjectsOK'
    BY <1>1, <2>1 DEF ObjectsOK
  <2>3. StaleOK'
    BY <1>1, <2>1 DEF StaleOK
  <2>4. PlansOK'
    BY <1>1, <2>1 DEF PlansOK
  <2> QED BY <2>2, <2>3, <2>4
<1> QED BY <1>3, <1>4, <1>5, <1>6 DEF CalmInv

(* The listing calls, of an operation or of a lookup. *)
LEMMA CalmListing ==
    ASSUME CalmInv, Calm, NEW p \in Proc,
           Call(p) \/ CacheHit(p) \/ Follow(p) \/ Lead(p) \/ Search(p) \/ SearchFails(p)
           \/ (\E o \in Object : Head(p, o) \/ HeadFails(p, o))
           \/ FollowerReads(p) \/ Return(p),
           UNCHANGED <<objVars, fuseVars>>
    PROVE  CalmInv'
<1> USE DEF At
<1>1. TypeOK /\ SingleFlight /\ Listed /\ NoErrors /\ StaleOK /\ ReadOK
  BY DEF CalmInv
<1>2. TypeOK' /\ SingleFlight'
  <2>1. Next
    BY DEF Next, Step
  <2> QED BY <1>1, <2>1, NextType, NextFlight
<1>3. op' = op
  BY DEF fuseVars
<1>4. CallOK(call[p])
  BY <1>1, TypeByCall
<1>5. UNCHANGED <<store, removed, scanCache>>
  BY DEF Call, CacheHit, Follow, Lead, Search, SearchFails, Head, HeadFails,
         FollowerReads, Return, serverVars, scanVars
<1>6. PICK c : /\ call' = [call EXCEPT ![p] = c] /\ c.pc # "woken"
               /\ c.pc = "heads" => c.ids = store
               /\ c.pc = "done" => op[p].must \cap store \subseteq c.ids
  <2>1. CASE Call(p)
    <3> DEFINE c == [call[p] EXCEPT !.pc = "lookup"]
    <3>1. c.pc = "lookup"
      BY <1>4 DEF CallOK, CallState
    <3> QED BY <2>1, <3>1 DEF Call, Goto
  <2>2. CASE CacheHit(p)
    <3> DEFINE c == Returned(scanCache.entries, FALSE)
    <3>1. c.pc = "done" /\ c.ids = scanCache.entries
      BY DEF Returned, NoCall
    <3>2. op[p].must \cap store \subseteq scanCache.entries
      BY <1>1, <2>2 DEF CacheHit, Valid, StaleOK
    <3> QED BY <2>2, <3>1, <3>2 DEF CacheHit
  <2>3. CASE Follow(p)
    <3> DEFINE c == [call[p] EXCEPT !.pc = "wait", !.leader = scanInflight]
    <3>1. c.pc = "wait"
      BY <1>4 DEF CallOK, CallState
    <3> QED BY <2>3, <3>1 DEF Follow
  <2>4. CASE Lead(p)
    <3> DEFINE c == [call[p] EXCEPT !.pc = "search"]
    <3>1. c.pc = "search"
      BY <1>4 DEF CallOK, CallState
    <3> QED BY <2>4, <3>1 DEF Lead, Goto
  <2>5. CASE Search(p)
    <3> DEFINE c == [NoCall EXCEPT !.pc = "heads", !.ids = store, !.todo = store, !.ok = TRUE]
    <3>1. c.pc = "heads" /\ c.ids = store
      BY DEF NoCall
    <3> QED BY <2>5, <3>1 DEF Search, Lists
  <2>6. CASE SearchFails(p)
    <3>1. call'[p] = [NoCall EXCEPT !.pc = "heads", !.ids = {}, !.todo = {}, !.ok = FALSE]
      BY <1>1, <2>6 DEF SearchFails, Lists, TypeOK
    <3>2. call'[p].pc = "heads" /\ ~call'[p].ok
      BY <3>1 DEF NoCall
    <3> QED BY <2>6, <3>2 DEF SearchFails, Calm, Quiet
  <2>7. ASSUME NEW o \in Object, Head(p, o) PROVE
               \E c : /\ call' = [call EXCEPT ![p] = c] /\ c.pc # "woken"
                      /\ c.pc = "heads" => c.ids = store
                      /\ c.pc = "done" => op[p].must \cap store \subseteq c.ids
    <3> DEFINE c == [call[p] EXCEPT !.todo = @ \ {o}]
    <3>1. c.pc = call[p].pc /\ c.ids = call[p].ids
      BY <1>4 DEF CallOK, CallState
    <3> QED BY <1>1, <2>7, <3>1 DEF Head, Listed
  <2>8. ASSUME NEW o \in Object, HeadFails(p, o) PROVE FALSE
    <3>1. call'[p].err
      BY <1>1, <2>8 DEF HeadFails, TypeOK, CallState
    <3> QED BY <1>1, <3>1 DEF Calm, NoErrors
  <2>9. CASE FollowerReads(p)
    <3> DEFINE c == Returned(scanCache.entries, FALSE)
    <3>1. c.pc = "done" /\ c.ids = scanCache.entries
      BY DEF Returned, NoCall
    <3>2. scanCache.present
      BY <1>1, <2>9 DEF FollowerReads, ReadOK
    <3>3. op[p].must \cap store \subseteq scanCache.entries
      BY <1>1, <3>2 DEF StaleOK
    <3> QED BY <2>9, <3>1, <3>2, <3>3 DEF FollowerReads
  <2>10. CASE Return(p)
    <3>1. NoCall.pc = "idle"
      BY DEF NoCall
    <3> QED BY <2>10, <3>1 DEF Return
  <2> QED BY <2>1, <2>2, <2>3, <2>4, <2>5, <2>6, <2>7, <2>8, <2>9, <2>10
<1> QED BY <1>2, <1>3, <1>5, <1>6, CalmRead

(* The end of a scan. *)
LEMMA CalmPublish ==
    ASSUME CalmInv, Calm, NEW p \in Proc, Publish(p), UNCHANGED <<objVars, fuseVars>>
    PROVE  CalmInv'
<1> USE DEF At
<1>1. /\ TypeOK /\ ObjectsOK /\ SingleFlight /\ Listed /\ NoErrors /\ StaleOK /\ ReadOK
      /\ PlansOK
  BY DEF CalmInv
<1>2. TypeOK' /\ SingleFlight'
  <2>1. Next
    BY DEF Next, Step
  <2> QED BY <1>1, <2>1, NextType, NextFlight
<1>3. /\ call[p].pc = "heads" /\ call[p].ids = store /\ ~call[p].err
      /\ UNCHANGED <<store, removed>>
      /\ scanCache' = [present |-> TRUE, expired |-> FALSE, entries |-> store]
  BY <1>1 DEF Publish, Listed, NoErrors, serverVars
<1>4. ASSUME NEW q \in Proc
      PROVE  /\ call'[q].pc # "heads"
             /\ call'[q].pc = "done" => \/ call'[q].ids = store
                                        \/ call'[q] = call[q]
  <2>1. CASE q = p
    <3>1. call'[q] = Returned(IF call[p].err THEN {} ELSE call[p].ids, call[p].err)
      BY <2>1 DEF Publish
    <3>2. call'[q].pc = "done" /\ call'[q].ids = store
      BY <1>3, <3>1 DEF Returned, NoCall
    <3> QED BY <3>2
  <2>2. CASE q # p /\ Woken(p, q)
    <3>1. call'[q] = [call[q] EXCEPT !.pc = "woken", !.err = call[p].err]
      BY <2>2 DEF Publish
    <3>2. call'[q].pc = "woken"
      BY <1>1, <3>1 DEF TypeOK, CallState
    <3> QED BY <3>2
  <2>3. CASE q # p /\ ~Woken(p, q)
    <3>1. call'[q] = call[q]
      BY <2>3 DEF Publish
    <3>2. call[q].pc # "heads"
      BY <1>1, <1>3, <2>3 DEF SingleFlight, Leads
    <3> QED BY <3>1, <3>2
  <2> QED BY <2>1, <2>2, <2>3
<1>5. Listed' /\ NoErrors'
  BY <1>1, <1>4 DEF Listed, NoErrors, Calm
<1>6. op' = op /\ path' = path /\ origin' = origin /\ puts' = puts /\ Used' = Used
  BY <1>3 DEF fuseVars, objVars, Used
<1>7. StaleOK'
  BY <1>3, <1>6 DEF StaleOK
<1>8. ReadOK'
  BY <1>1, <1>3, <1>4, <1>6 DEF ReadOK
<1>9. ObjectsOK' /\ PlansOK'
  BY <1>1, <1>3, <1>6 DEF ObjectsOK, PlansOK
<1> QED BY <1>2, <1>5, <1>7, <1>8, <1>9 DEF CalmInv

(* The listing is dropped, or expires. *)
LEMMA CalmDrop ==
    ASSUME CalmInv, Calm, Create \/ (Expire /\ UNCHANGED <<objVars, fuseVars>>)
    PROVE  CalmInv'
<1>1. /\ TypeOK /\ ObjectsOK /\ SingleFlight /\ Listed /\ NoErrors /\ StaleOK /\ ReadOK
      /\ PlansOK
  BY DEF CalmInv
<1>2. /\ UNCHANGED <<store, removed, scanInflight, call, path, origin, puts, op>>
      /\ Used' = Used
  BY DEF Create, Expire, serverVars, objVars, fuseVars, Used
<1>3. \/ scanCache' = NoListing
      \/ scanCache'.present = scanCache.present /\ scanCache'.entries = scanCache.entries
         /\ scanCache' \in Listing
  <2>1. CASE Create
    BY <2>1 DEF Create, Dropped
  <2>2. CASE Expire
    BY <1>1, <2>2 DEF Expire, TypeOK, Listing
  <2> QED BY <2>1, <2>2
<1>4. scanCache' \in Listing
  <2>1. NoListing \in Listing
    BY DEF NoListing, Listing
  <2> QED BY <1>3, <2>1
<1>5. TypeOK'
  BY <1>1, <1>2, <1>4 DEF TypeOK
<1>6. SingleFlight' /\ Listed' /\ NoErrors' /\ ObjectsOK' /\ PlansOK'
  BY <1>1, <1>2 DEF SingleFlight, Leads, At, InFlight, Listed, NoErrors, ObjectsOK, PlansOK
<1>7. StaleOK'
  <2>1. CASE scanCache' = NoListing
    <3>1. ~scanCache'.present
      BY <2>1 DEF NoListing
    <3> QED BY <3>1 DEF StaleOK
  <2>2. CASE scanCache'.present = scanCache.present /\ scanCache'.entries = scanCache.entries
    BY <1>1, <1>2, <2>2 DEF StaleOK
  <2> QED BY <1>3, <2>1, <2>2
<1>8. ReadOK'
  <2>1. ASSUME NEW q \in Proc, call'[q].pc = "woken" PROVE scanCache'.present
    <3>1. call[q].pc = "woken" /\ scanCache.present
      BY <1>1, <1>2, <2>1 DEF ReadOK
    <3> QED BY <3>1 DEF Calm, At
  <2> QED BY <1>1, <1>2, <2>1 DEF ReadOK
<1> QED BY <1>5, <1>6, <1>7, <1>8 DEF CalmInv

(* Every step of a calm execution keeps the invariant. *)
LEMMA CalmStep ==
    ASSUME CalmInv, [(Work \/ RepeatPut) /\ Calm]_allVars
    PROVE  CalmInv'
<1>1. CASE UNCHANGED allVars
  <2>1. /\ UNCHANGED <<store, removed, scanCache, scanInflight, call>>
        /\ UNCHANGED <<path, origin, puts, op>>
    BY <1>1 DEF allVars, vars, serverVars, scanVars, objVars, fuseVars
  <2>2. Used' = Used
    BY <2>1 DEF Used
  <2>3. TypeOK' /\ SingleFlight' /\ Listed' /\ NoErrors'
    BY <2>1 DEF CalmInv, TypeOK, SingleFlight, Leads, At, InFlight, Listed, NoErrors
  <2>4. ObjectsOK' /\ StaleOK' /\ ReadOK' /\ PlansOK'
    BY <2>1, <2>2 DEF CalmInv, ObjectsOK, StaleOK, ReadOK, PlansOK
  <2> QED BY <2>3, <2>4 DEF CalmInv
<1>2. ASSUME NEW p \in Proc, Calm, Browse(p) \/ Scan(p) PROVE CalmInv'
  <2>1. UNCHANGED <<objVars, fuseVars>>
    BY <1>2 DEF Browse, Scan
  <2>2. CASE Publish(p)
    BY <1>2, <2>1, <2>2, CalmPublish
  <2>3. CASE ~Publish(p)
    <3>1. Call(p) \/ Return(p) \/ Step(p)
      BY <1>2 DEF Browse, Scan
    <3> QED BY <1>2, <2>1, <2>3, <3>1, CalmListing DEF Step
  <2> QED BY <2>2, <2>3
<1>3. ASSUME NEW p \in Proc, Calm,
             Begin(p) \/ Upload(p) \/ Unlink(p) \/ Rename(p) \/ MkdirFinish(p)
      PROVE  CalmInv'
  BY <1>3, CalmBegin, CalmUpload, CalmUnlink, CalmRename
<1>4. ASSUME Calm, Create \/ (Expire /\ UNCHANGED <<objVars, fuseVars>>) PROVE CalmInv'
  BY <1>4, CalmDrop
<1>5. CASE RepeatPut /\ Calm
  BY <1>5, CalmPutSame DEF RepeatPut
<1> QED BY <1>1, <1>2, <1>3, <1>4, <1>5 DEF Work

LEMMA CalmInvariant == CalmSpec => []CalmInv
<1>1. FuseInit => CalmInv
  <2> SUFFICES ASSUME FuseInit PROVE CalmInv
    OBVIOUS
  <2> USE DEF FuseInit, Init
  <2>1. NoCall \in CallState /\ NoListing \in Listing
    BY DEF NoCall, CallState, NoListing, Listing
  <2>2. \A q \in Proc : call[q] = NoCall /\ op[q] = NoOp
    OBVIOUS
  <2>3. store = {} /\ removed = {} /\ ~scanCache.present
    BY WritesAssumption DEF NoListing
  <2>4. TypeOK /\ SingleFlight
    BY <2>1, <2>2, <2>3, ScanAssumption, WritesAssumption
       DEF TypeOK, SingleFlight, NoCall, Leads, At, CallState
  <2>5. ObjectsOK
    BY <2>3 DEF ObjectsOK, Used
  <2>6. Listed /\ NoErrors /\ ReadOK
    BY <2>2 DEF Listed, NoErrors, ReadOK, NoCall, At
  <2>7. StaleOK
    BY <2>3 DEF StaleOK
  <2>8. PlansOK
    <3>1. NoOp \in OpState
      BY PlanEnds DEF PlanOK
    <3>2. op \in [Proc -> OpState]
      BY <3>1
    <3>3. \A q \in Proc : PlanOK(op[q], store, Used, path)
      BY <2>2, PlanEnds
    <3> QED BY <3>2, <3>3 DEF PlansOK
  <2> QED BY <2>4, <2>5, <2>6, <2>7, <2>8 DEF CalmInv
<1>2. CalmInv /\ [(Work \/ RepeatPut) /\ Calm]_allVars => CalmInv'
  BY CalmStep
<1> QED BY <1>1, <1>2, PTL DEF CalmSpec

(* When no operation runs, a cached listing is the content of the container: *)
(* whichever uploads, unlinks, renames and mkdirs of tree.go ran side by      *)
(* side, the one that ends last drops what a scan beside them has cached.     *)
THEOREM ListingTrue == CalmSpec => []ListingCurrent
<1>1. CalmInv => ListingCurrent
  <2> SUFFICES ASSUME CalmInv, scanCache.present, \A p \in Proc : op[p] = NoOp
               PROVE  scanCache.entries = store
    BY DEF ListingCurrent
  <2>1. scanCache.entries = store \/ \E q \in Proc : Changing(op[q])
    BY DEF CalmInv, StaleOK
  <2>2. \A q \in Proc : ~Changing(op[q])
    BY PlanEnds
  <2> QED BY <2>1, <2>2
<1> QED BY <1>1, CalmInvariant, PTL

(* An unlink that succeeds has deleted every settled object of its path, also *)
(* when the listing it read was cached, and uploads and other operations      *)
(* change the container while it runs.                                        *)
THEOREM UnlinkDeletes == CalmSpec => []UnlinkComplete
<1>1. CalmInv => UnlinkComplete
  <2> SUFFICES ASSUME CalmInv, NEW p \in Proc, Doing(p, "unlink", "delete"),
                      op[p].rest = {}
               PROVE  op[p].must \cap store = {}
    BY DEF UnlinkComplete
  <2>1. op[p].must \cap store \subseteq op[p].rest
    BY CalmFacts DEF PlanOK, Doing
  <2> QED BY <2>1
<1> QED BY <1>1, CalmInvariant, PTL

(* An upload that ends leaves, of the versions that were at its path, at most *)
(* its own, and never deletes the object it has just put, also when that      *)
(* object is an old one whose content the upload repeats.                     *)
THEOREM UploadLeavesItsOwn == CalmSpec => UploadReplaces
<1> DEFINE Replaces(p) ==
             Doing(p, "upload", "delete") /\ op'[p] # op[p] =>
                /\ op[p].new \in store => op[p].new \in store'
                /\ op'[p] = NoOp => op[p].must \cap store \subseteq {op[p].new}
<1>1. CalmInv /\ [(Work \/ RepeatPut) /\ Calm]_allVars => [\A p \in Proc : Replaces(p)]_allVars
  <2> SUFFICES ASSUME CalmInv, (Work \/ RepeatPut) /\ Calm, NEW p \in Proc,
                      op[p].kind = "upload", op[p].pc = "delete", op'[p] # op[p]
               PROVE  /\ op[p].new \in store => op[p].new \in store'
                      /\ op'[p] = NoOp => op[p].must \cap store \subseteq {op[p].new}
    BY DEF Doing
  <2>1. /\ op \in [Proc -> OpState] /\ NoOp.kind = "none" /\ op[p] # NoOp
        /\ op[p].must \cap store \subseteq op[p].rest \cup {op[p].new}
        /\ op[p].new \notin op[p].rest
    BY CalmFacts DEF PlanOK, NoOp
  <2>2. ASSUME NEW q \in Proc, q # p,
               Browse(q) \/ Scan(q) \/ Begin(q) \/ Upload(q) \/ Unlink(q) \/ Rename(q)
               \/ MkdirFinish(q) \/ \E o \in Object : UploadPutSame(q, o)
        PROVE  op'[p] = op[p]
    <3>1. \/ op' = op
          \/ \E x : op' = [op EXCEPT ![q] = x]
      <4>1. CASE Browse(q) \/ Scan(q)
        BY <4>1 DEF Browse, Scan, fuseVars
      <4>2. CASE Begin(q)
        BY <4>2 DEF Begin, UploadStart, UnlinkStart, RenameStart, Mkdir, Start
      <4>3. CASE Upload(q) \/ \E o \in Object : UploadPutSame(q, o)
        <5>1. CASE UploadListed(q)
          BY <5>1 DEF UploadListed
        <5>2. CASE UploadFinish(q)
          BY <5>2 DEF UploadFinish, EndAndInvalidate, End
        <5>3. CASE \E o \in Object : UploadPut(q, o)
          BY <5>3 DEF UploadPut
        <5>4. CASE \E o \in Object : UploadDelete(q, o)
          BY <5>4 DEF UploadDelete
        <5>5. CASE \E o \in Object : UploadPutSame(q, o)
          BY <5>5 DEF UploadPutSame
        <5> QED BY <4>3, <5>1, <5>2, <5>3, <5>4, <5>5 DEF Upload
      <4>4. CASE Unlink(q)
        BY <4>4 DEF Unlink, UnlinkListed, UnlinkDelete, UnlinkFinish, EndAndInvalidate, End
      <4>5. CASE Rename(q) \/ MkdirFinish(q)
        BY <4>5 DEF Rename, RenameListed, RenameListedDst, RenameClear, RenameCleared,
                    RenameCopy, RenameDrop, RenameFinish, MkdirFinish, EndAndInvalidate, End
      <4> QED BY <2>2, <4>1, <4>2, <4>3, <4>4, <4>5
    <3> QED BY <2>1, <2>2, <3>1
  <2>3. ASSUME Create \/ (Expire /\ UNCHANGED <<objVars, fuseVars>>) PROVE op' = op
    BY <2>3 DEF Create, fuseVars
  <2>4. \/ \E o \in Object : UploadDelete(p, o)
        \/ UploadFinish(p)
    <3>1. ASSUME Browse(p) \/ Scan(p) PROVE FALSE
      BY <2>1, <3>1 DEF Browse, Scan, fuseVars
    <3>2. ASSUME Begin(p) PROVE FALSE
      BY <2>1, <3>2 DEF Begin, UploadStart, UnlinkStart, RenameStart, Mkdir, Start, Idle
    <3>3. ASSUME Unlink(p) PROVE FALSE
      BY <3>3 DEF Unlink, UnlinkListed, UnlinkDelete, UnlinkFinish, Doing
    <3>4. ASSUME Rename(p) \/ MkdirFinish(p) PROVE FALSE
      BY <3>4 DEF Rename, RenameListed, RenameListedDst, RenameClear, RenameCleared,
                  RenameCopy, RenameDrop, RenameFinish, MkdirFinish, Doing
    <3>5. ASSUME NEW o \in Object,
                 UploadListed(p) \/ UploadPut(p, o) \/ UploadPutSame(p, o) PROVE FALSE
      BY <3>5 DEF UploadListed, UploadPut, UploadPutSame, Doing
    <3>6. ASSUME NEW q \in Proc, q # p,
                 Browse(q) \/ Scan(q) \/ Begin(q) \/ Upload(q) \/ Unlink(q) \/ Rename(q)
                 \/ MkdirFinish(q) \/ \E o \in Object : UploadPutSame(q, o)
          PROVE  FALSE
      BY <2>2, <3>6
    <3>7. ASSUME UploadListed(p) PROVE FALSE
      BY <3>7 DEF UploadListed, Doing
    <3>8. ~Create /\ ~(Expire /\ UNCHANGED <<objVars, fuseVars>>)
      BY <2>3
    <3> QED BY <3>1, <3>2, <3>3, <3>4, <3>5, <3>6, <3>7, <3>8
            DEF Work, RepeatPut, Upload
  <2>5. CASE \E o \in Object : UploadDelete(p, o)
    <3>1. PICK o \in Object : UploadDelete(p, o)
      BY <2>5
    <3>2. o # op[p].new /\ op'[p] = [op[p] EXCEPT !.rest = op[p].rest \ {o}]
      BY <2>1, <3>1 DEF UploadDelete
    <3>3. op[p].new \in store => op[p].new \in store'
      BY <3>1, <3>2 DEF UploadDelete, DeleteObject, Delete, serverVars
    <3>4. op'[p].kind = "upload"
      BY <2>1, <3>2 DEF OpState
    <3> QED BY <2>1, <3>3, <3>4
  <2>6. CASE UploadFinish(p)
    BY <2>1, <2>6 DEF UploadFinish, serverVars
  <2> QED BY <2>4, <2>5, <2>6
<1>2. CalmSpec => [][\A p \in Proc : Replaces(p)]_allVars
  BY <1>1, CalmInvariant, PTL DEF CalmSpec
<1> QED BY <1>2 DEF UploadReplaces
=============================================================================
