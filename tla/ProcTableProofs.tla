-------------------------- MODULE ProcTableProofs --------------------------
(***************************************************************************)
(* Proofs about ProcTable for any pids, protection keys and bounds: what   *)
(* a thread finds under its pid is its own, it is sent only to a monitor   *)
(* its address space has, on a stack of its own, and the key it uses stays *)
(* allocated.                                                              *)
(***************************************************************************)
EXTENDS ProcTable, TLAPS

TaskType ==
  [leader : Pid \cup {"none"}, mm : {0} \cup Space, born : 0 .. MaxBirth,
   call : {"none", "ran", "other", "clone_stack", "clone_null"}]

InfoType ==
  [status : {"none", "OUT", "CLONE", "SHARE"}, mm : {0} \cup Space,
   entry : 0 .. MaxImage, stack : 0 .. MaxImage, key : {0} \cup Key, born : 0 .. MaxBirth]

(* The two records that stand for a pid without a task and without a       *)
(* nod_proc_info are of the types.                                         *)
LEMMA Blank == NoTask \in TaskType /\ NoInfo \in InfoType
  BY TableAssumption DEF NoTask, NoInfo, TaskType, InfoType

LEMMA BlankFields ==
  /\ NoInfo.status = "none" /\ NoInfo.entry = 0 /\ NoInfo.stack = 0 /\ NoInfo.key = 0
  /\ NoTask.mm = 0
  BY DEF NoInfo, NoTask

(* mm_pkey_alloc returns a key that is free, or none.                      *)
LEMMA NewKeyFree ==
  ASSUME NEW used
  PROVE  NewKey(used) = 0 \/ NewKey(used) \in Key \ used
  BY DEF NewKey

(* nod_init_procinfo: a new key, no entry, the stack it had.               *)
LEMMA Reset ==
  \A t \in TaskType, i \in InfoType, used \in SUBSET Key :
    /\ InitProcinfo(t, i, used).info \in InfoType
    /\ InitProcinfo(t, i, used).keys \in SUBSET Key
    /\ InitProcinfo(t, i, used).info.status = i.status
    /\ InitProcinfo(t, i, used).info.stack = i.stack
    /\ InitProcinfo(t, i, used).info.entry = 0
    /\ InitProcinfo(t, i, used).info.mm = t.mm
    /\ InitProcinfo(t, i, used).info.born = t.born
<1> TAKE t \in TaskType, i \in InfoType, used \in SUBSET Key
<1> DEFINE r == InitProcinfo(t, i, used)
<1> DEFINE k == NewKey(used \ {i.key})
<1>1. k \in {0} \cup Key
  BY NewKeyFree
<1> HIDE DEF k
<1>2. /\ r.info = [i EXCEPT !.mm = t.mm, !.born = t.born, !.entry = 0, !.key = k]
      /\ r.keys = (used \ {i.key}) \cup ({k} \ {0})
  BY DEF InitProcinfo, k
<1>3. t.mm \in {0} \cup Space /\ t.born \in 0 .. MaxBirth /\ 0 \in 0 .. MaxImage
  BY TableAssumption DEF TaskType
<1>4. /\ [i EXCEPT !.mm = t.mm, !.born = t.born, !.entry = 0, !.key = k] \in InfoType
      /\ LET x == [i EXCEPT !.mm = t.mm, !.born = t.born, !.entry = 0, !.key = k]
         IN  /\ x.status = i.status /\ x.stack = i.stack /\ x.entry = 0
             /\ x.mm = t.mm /\ x.born = t.born /\ x.key = k
  BY <1>1, <1>3, Zenon DEF InfoType
<1>5. (used \ {i.key}) \cup ({k} \ {0}) \in SUBSET Key
  BY <1>1
<1> HIDE DEF r
<1>6. /\ r.info \in InfoType /\ r.keys \in SUBSET Key /\ r.info.status = i.status
      /\ r.info.stack = i.stack /\ r.info.entry = 0 /\ r.info.mm = t.mm /\ r.info.born = t.born
  BY <1>2, <1>4, <1>5
<1> QED
  BY <1>6 DEF r

(* A thread that is marked takes from the nod_proc_info of its group       *)
(* leader, which is another one.                                           *)
Borrows(p, t, i) == t.leader # p /\ info[t.leader] # NoInfo /\ i.status # "OUT"

(* What syscall_probe makes of the nod_proc_info i, of the keys and of the *)
(* images of its address space: it loads an image, with a stack of its     *)
(* own, or keeps its stack; the entry and the key are its own or the       *)
(* leader's, and at most the key it had is given back.                     *)
Outcome(p, t, i, used, mapped, o) ==
  /\ o.info \in InfoType /\ o.keys \in SUBSET Key
  /\ o.info.mm = i.mm /\ o.info.born = i.born /\ o.info.status \in {i.status, "OUT"}
  /\ \/ /\ o.loads = loads /\ o.images = mapped /\ o.info.stack = i.stack
        /\ \/ o.info.entry = i.entry
           \/ /\ Borrows(p, t, i) /\ i.status = "CLONE"
              /\ o.info.entry = info[t.leader].entry
     \/ /\ loads + 1 \in 1 .. MaxImage /\ o.loads = loads + 1
        /\ o.images = mapped \cup {loads + 1}
        /\ o.info.stack = loads + 1 /\ o.info.entry = loads + 1 /\ o.info.status = "OUT"
  /\ \/ o.info.key = i.key /\ o.keys = used
     \/ /\ Borrows(p, t, i) /\ o.info.key = info[t.leader].key
        /\ o.keys = used \/ (i.key # info[t.leader].key /\ o.keys = used \ {i.key})

LEMMA ProbeOutcome ==
  ASSUME info \in [Pid -> InfoType], loads \in 0 .. MaxImage,
         NEW p \in Pid, NEW t, t.leader \in Pid, NEW i \in InfoType,
         i.status \in {"OUT", "CLONE", "SHARE"},
         NEW used \in SUBSET Key, NEW mapped, NEW o \in Probed(p, t, i, used, mapped)
  PROVE  Outcome(p, t, i, used, mapped, o)
<1> DEFINE n == loads + 1
           h == Inherit(p, t, i, used)
           l == info[t.leader]
           loaded == [h.info EXCEPT !.entry = n, !.stack = n]
<1>l. l \in InfoType
  OBVIOUS
<1>1. /\ h.info \in InfoType /\ h.keys \in SUBSET Key
      /\ h.info.mm = i.mm /\ h.info.born = i.born
      /\ h.info.status = i.status /\ h.info.stack = i.stack
      /\ \/ h.info.entry = i.entry
         \/ Borrows(p, t, i) /\ i.status = "CLONE" /\ h.info.entry = l.entry
      /\ \/ h.info.key = i.key /\ h.keys = used
         \/ /\ Borrows(p, t, i) /\ h.info.key = l.key
            /\ h.keys = used \/ (i.key # l.key /\ h.keys = used \ {i.key})
  <2>1. CASE t.leader = p \/ l = NoInfo \/ i.status = "OUT"
    <3>1. h = [info |-> i, keys |-> used]
      BY <2>1 DEF Inherit
    <3> QED
      BY <3>1
  <2>2. CASE ~(t.leader = p \/ l = NoInfo \/ i.status = "OUT") /\ i.status = "CLONE"
    <3>1. h.info = [i EXCEPT !.entry = l.entry, !.key = l.key] /\ h.keys = used
      BY <2>2 DEF Inherit, Copied
    <3>2. Borrows(p, t, i)
      BY <2>2 DEF Borrows
    <3> HIDE DEF h, l
    <3> QED
      BY <2>2, <3>1, <3>2, <1>l, Zenon DEF InfoType
  <2>3. CASE ~(t.leader = p \/ l = NoInfo \/ i.status = "OUT") /\ i.status # "CLONE"
    <3>1. /\ h.info = [i EXCEPT !.key = l.key]
          /\ h.keys = IF i.key # l.key THEN used \ {i.key} ELSE used
      BY <2>3 DEF Inherit, Shared
    <3>2. Borrows(p, t, i)
      BY <2>3 DEF Borrows
    <3> HIDE DEF h, l
    <3> QED
      BY <2>3, <3>1, <3>2, <1>l DEF InfoType
  <2> QED
    BY <2>1, <2>2, <2>3
<1> HIDE DEF h
<1>2. \/ o = [info |-> i, keys |-> used, images |-> mapped, loads |-> loads]
      \/ /\ h.info.entry # 0
         /\ o = [info |-> Visit(h.info, mapped), keys |-> h.keys, images |-> mapped, loads |-> loads]
      \/ /\ h.info.entry = 0
         /\ o = [info |-> h.info, keys |-> h.keys, images |-> mapped, loads |-> loads]
      \/ /\ h.info.entry = 0 /\ ~(n > MaxImage)
         /\ o = [info |-> Visit(loaded, mapped \cup {n}), keys |-> h.keys,
                 images |-> mapped \cup {n}, loads |-> n]
  BY DEF Probed, h
<1>3. CASE o = [info |-> i, keys |-> used, images |-> mapped, loads |-> loads]
  BY <1>3 DEF Outcome
<1>4. ASSUME NEW x \in InfoType, x.status \in {i.status, "OUT"}, x.mm = h.info.mm,
             x.born = h.info.born, x.stack = h.info.stack, x.entry = h.info.entry, x.key = h.info.key,
             o = [info |-> x, keys |-> h.keys, images |-> mapped, loads |-> loads]
      PROVE  Outcome(p, t, i, used, mapped, o)
  BY <1>1, <1>4 DEF Outcome
<1>5. /\ Visit(h.info, mapped) \in InfoType
      /\ LET x == Visit(h.info, mapped)
         IN  /\ x.status \in {i.status, "OUT"} /\ x.mm = h.info.mm /\ x.born = h.info.born
             /\ x.stack = h.info.stack /\ x.entry = h.info.entry /\ x.key = h.info.key
  BY <1>1 DEF Visit, InfoType
<1>6. ASSUME ~(n > MaxImage),
             o = [info |-> Visit(loaded, mapped \cup {n}), keys |-> h.keys,
                  images |-> mapped \cup {n}, loads |-> n]
      PROVE  Outcome(p, t, i, used, mapped, o)
  <2>1. n \in 1 .. MaxImage /\ n \in 0 .. MaxImage
    BY <1>6, TableAssumption
  <2> HIDE DEF n
  <2>2. loaded \in InfoType /\ loaded.stack = n /\ loaded.entry = n
        /\ loaded.mm = h.info.mm /\ loaded.born = h.info.born /\ loaded.key = h.info.key
    BY <1>1, <2>1, Zenon DEF InfoType
  <2>3. Visit(loaded, mapped \cup {n}) = [loaded EXCEPT !.status = "OUT"]
    BY <2>2 DEF Visit
  <2>4. [loaded EXCEPT !.status = "OUT"] \in InfoType
        /\ LET x == [loaded EXCEPT !.status = "OUT"]
           IN  /\ x.status = "OUT" /\ x.stack = n /\ x.entry = n
               /\ x.mm = h.info.mm /\ x.born = h.info.born /\ x.key = h.info.key
    BY <2>2, Zenon DEF InfoType
  <2>5. o.info = [loaded EXCEPT !.status = "OUT"] /\ o.keys = h.keys
        /\ o.images = mapped \cup {n} /\ o.loads = n
    BY <1>6, <2>3
  <2> HIDE DEF loaded, l
  <2>6. /\ o.info \in InfoType /\ o.info.status = "OUT" /\ o.info.stack = n /\ o.info.entry = n
        /\ o.info.mm = h.info.mm /\ o.info.born = h.info.born /\ o.info.key = h.info.key
    BY <2>4, <2>5
  <2> QED
    BY <1>1, <2>1, <2>5, <2>6 DEF Outcome, n, l
<1> QED
  BY <1>1, <1>2, <1>3, <1>4, <1>5, <1>6

------------------------------------------------------------------------------
Counters == spaces \in 1 .. MaxSpace /\ births \in 1 .. MaxBirth /\ loads \in 0 .. MaxImage

(* Every task is in an address space there is, and in that of its group    *)
(* leader while this one lives, which is its own leader.                   *)
Kin ==
  \A p \in Pid : Alive(p) =>
    /\ task[p].leader \in Pid /\ task[p].mm \in 1 .. spaces
    /\ Alive(task[p].leader) => /\ task[task[p].leader].leader = task[p].leader
                                /\ task[task[p].leader].mm = task[p].mm

Marked == \A p \in Pid : Has(p) => info[p].status \in {"OUT", "CLONE", "SHARE"}

Sound == TypeOK /\ Counters /\ Kin /\ Marked

(* The nod_proc_info x and the keys u, images m and loads n that a system  *)
(* call of p leaves, against those it found; NoInfo stands for a blank one.*)
Leads(p) == task[p].leader # p /\ Has(task[p].leader)

Placed(p, x, m, n) ==
  \/ /\ n = loads /\ m = images[task[p].mm] /\ x.stack = info[p].stack
     /\ \/ x.entry = info[p].entry
        \/ /\ Leads(p) /\ Has(p) /\ info[p].status = "CLONE"
           /\ x.entry = info[task[p].leader].entry
  \/ /\ loads + 1 \in 1 .. MaxImage /\ n = loads + 1
     /\ m = images[task[p].mm] \cup {loads + 1}
     /\ x.stack = loads + 1 /\ x.entry = loads + 1 /\ x.status = "OUT"

Keyed(p, x, u) ==
  LET had == keys[task[p].mm]
  IN  \/ Has(p) /\ x.key = info[p].key /\ u = had
      \/ /\ Has(p) /\ Leads(p) /\ x.key = info[task[p].leader].key
         /\ u = had \/ (info[p].key # x.key /\ u = had \ {info[p].key})
      \/ ~Has(p) /\ (x.key = 0 \/ x.key \in Key \ had) /\ u = had \cup ({x.key} \ {0})

Owned(p, x) ==
  IF Has(p) THEN x.mm = info[p].mm /\ x.born = info[p].born
            ELSE x.mm = task[p].mm /\ x.born = task[p].born

Amended(p, x, u, m, n) ==
  /\ x.status \in {"OUT", "CLONE", "SHARE"}
  /\ \/ x.status = "OUT" \/ x.status = info[p].status
     \/ task[p].call \in {"clone_null", "clone_stack"}
  /\ Owned(p, x) /\ Placed(p, x, m, n) /\ Keyed(p, x, u)

(* x is stored for p, and u and m for address space s.                     *)
Put(p, s, x, u, m, n, others) ==
  /\ info' = [others EXCEPT ![p] = x]
  /\ keys' = [keys EXCEPT ![s] = u]
  /\ images' = [images EXCEPT ![s] = m] /\ loads' = n

Updates(p) ==
  \E x \in InfoType, u \in SUBSET Key, m \in SUBSET (1 .. MaxImage), n \in 0 .. MaxImage :
    Put(p, task[p].mm, x, u, m, n, info) /\ Amended(p, x, u, m, n)

(* A live task and what it has are of the types.                           *)
LEMMA Typed ==
  ASSUME Sound, NEW p \in Pid, Alive(p)
  PROVE  /\ task[p] \in TaskType /\ task[p].leader \in Pid /\ task[p].mm \in Space
         /\ info[p] \in InfoType /\ info \in [Pid -> InfoType] /\ task \in [Pid -> TaskType]
         /\ keys[task[p].mm] \in SUBSET Key /\ images[task[p].mm] \in SUBSET (1 .. MaxImage)
         /\ loads \in 0 .. MaxImage
<1>1. task \in [Pid -> TaskType] /\ info \in [Pid -> InfoType]
  BY DEF Sound, TypeOK, TaskType, InfoType
<1>2. task[p].leader \in Pid /\ task[p].mm \in 1 .. spaces
  BY DEF Sound, Kin
<1>3. spaces \in 1 .. MaxSpace /\ loads \in 0 .. MaxImage
  BY DEF Sound, Counters
<1>4. task[p].mm \in Space
  BY <1>2, <1>3, TableAssumption DEF Space
<1>5. keys \in [Space -> SUBSET Key] /\ images \in [Space -> SUBSET (1 .. MaxImage)]
  BY DEF Sound, TypeOK
<1> QED
  BY <1>1, <1>2, <1>3, <1>4, <1>5

(* nod_proc_acquire: what is there, or a blank one with a key that nobody  *)
(* in the address space has.                                               *)
LEMMA AcquireIs ==
  ASSUME Sound, NEW p \in Pid, Alive(p), NEW mark \in {"OUT", "CLONE", "SHARE"}
  PROVE  LET got == Acquire(p, task[p], mark, keys[task[p].mm])
         IN  /\ got.info \in InfoType /\ got.keys \in SUBSET Key /\ got.info.status = mark
             /\ got.info.stack = info[p].stack /\ got.info.entry = info[p].entry
             /\ Owned(p, got.info) /\ Keyed(p, got.info, got.keys)
<1>0. PICK had : had = keys[task[p].mm]
  OBVIOUS
<1>1. task[p] \in TaskType /\ info[p] \in InfoType /\ had \in SUBSET Key
  BY <1>0, Typed
<1>got. PICK got : got = Acquire(p, task[p], mark, had)
  OBVIOUS
<1> SUFFICES /\ got.info \in InfoType /\ got.keys \in SUBSET Key /\ got.info.status = mark
             /\ got.info.stack = info[p].stack /\ got.info.entry = info[p].entry
             /\ Owned(p, got.info) /\ Keyed(p, got.info, got.keys)
  BY <1>0, <1>got
<1>2. CASE Has(p)
  <2>1. got.info = [info[p] EXCEPT !.status = mark] /\ got.keys = had
    BY <1>2, <1>got DEF Acquire
  <2>2. PICK x : x = [info[p] EXCEPT !.status = mark]
    BY Zenon
  <2>3. /\ x \in InfoType /\ x.status = mark /\ x.stack = info[p].stack /\ x.entry = info[p].entry
        /\ x.mm = info[p].mm /\ x.born = info[p].born /\ x.key = info[p].key
    BY <1>1, <2>2 DEF InfoType
  <2> QED
    BY <1>0, <1>1, <1>2, <2>1, <2>2, <2>3 DEF Owned, Keyed
<1>3. CASE ~Has(p)
  <2>1. PICK a : a = InitProcinfo(task[p], NoInfo, had)
    OBVIOUS
  <2>2. PICK k : /\ k = NewKey(had \ {NoInfo.key})
                 /\ a.info = [NoInfo EXCEPT !.mm = task[p].mm, !.born = task[p].born, !.entry = 0, !.key = k]
                 /\ a.keys = (had \ {NoInfo.key}) \cup ({k} \ {0})
    BY <2>1, Zenon DEF InitProcinfo
  <2>3. NoInfo \in InfoType /\ NoInfo.stack = 0
    BY Blank DEF NoInfo
  <2>4. /\ a.info \in InfoType /\ a.keys \in SUBSET Key
        /\ a.info.stack = NoInfo.stack /\ a.info.entry = 0 /\ a.info.mm = task[p].mm
        /\ a.info.born = task[p].born
    BY <1>1, <2>1, <2>3, Reset
  <2>5. a.info.key = k /\ a.keys = (had \ {NoInfo.key}) \cup ({k} \ {0})
    BY <2>2, <2>3 DEF InfoType
  <2>6. had \ {NoInfo.key} = had
    BY <1>1, TableAssumption DEF NoInfo
  <2>7. k = 0 \/ k \in Key \ had
    BY <2>2, <2>6, NewKeyFree
  <2>8. got.info = [a.info EXCEPT !.status = mark] /\ got.keys = a.keys
    BY <1>3, <1>got, <2>1 DEF Acquire, InitProcinfo
  <2>9. /\ got.info \in InfoType /\ got.info.status = mark /\ got.info.stack = 0 /\ got.info.entry = 0
        /\ got.info.mm = task[p].mm /\ got.info.born = task[p].born /\ got.info.key = k
    BY <2>3, <2>4, <2>5, <2>8 DEF InfoType
  <2>10. info[p].stack = 0 /\ info[p].entry = 0
    BY <1>3 DEF Has, NoInfo
  <2>11. Keyed(p, got.info, got.keys)
    BY <1>0, <1>3, <2>5, <2>6, <2>7, <2>8, <2>9 DEF Keyed
  <2>12. Owned(p, got.info) /\ got.keys \in SUBSET Key
    BY <1>3, <2>4, <2>8, <2>9 DEF Owned
  <2> QED
    BY <2>9, <2>10, <2>11, <2>12
<1> QED
  BY <1>2, <1>3

(* syscall_probe at the end of a system call: it fails to acquire a        *)
(* nod_proc_info, or updates it.                                           *)
LEMMA SyscallUpdates ==
  ASSUME Sound, NEW p \in Pid, Syscall(p)
  PROVE  Updates(p) \/ (~Has(p) /\ UNCHANGED <<info, keys, images, loads>>)
<1>a. Alive(p)
  BY DEF Syscall
<1>1. PICK s : s = task[p].mm
  OBVIOUS
<1>2. /\ task[p] \in TaskType /\ task[p].leader \in Pid /\ s \in Space
      /\ info[p] \in InfoType /\ info \in [Pid -> InfoType]
      /\ keys[s] \in SUBSET Key /\ images[s] \in SUBSET (1 .. MaxImage) /\ loads \in 0 .. MaxImage
  BY <1>a, <1>1, Typed
<1>3. PICK r : r = IF Has(p) THEN [info |-> info[p], keys |-> keys[s]]
                             ELSE Acquire(p, task[p], "OUT", keys[s])
  BY Zenon
<1>4. \/ \E o \in Probed(p, task[p], r.info, r.keys, images[s]) : Store(p, s, o)
      \/ ~Has(p) /\ UNCHANGED <<info, keys, images, loads>>
  BY <1>1, <1>3 DEF Syscall
<1>5. ASSUME NEW o \in Probed(p, task[p], r.info, r.keys, images[s]), Store(p, s, o)
      PROVE  Updates(p)
  <2>1. /\ r.info \in InfoType /\ r.keys \in SUBSET Key
        /\ r.info.status \in {"OUT", "CLONE", "SHARE"}
        /\ r.info.status = info[p].status \/ r.info.status = "OUT"
        /\ r.info.stack = info[p].stack /\ r.info.entry = info[p].entry
        /\ Has(p) => r.info = info[p]
        /\ ~Has(p) => r.info.status = "OUT"
        /\ Owned(p, r.info) /\ Keyed(p, r.info, r.keys)
    <3>1. CASE Has(p)
      <4>1. r.info = info[p] /\ r.keys = keys[s]
        BY <1>3, <3>1
      <4>2. info[p].status \in {"OUT", "CLONE", "SHARE"}
        BY <3>1 DEF Sound, Marked
      <4> QED
        BY <1>1, <1>2, <3>1, <4>1, <4>2 DEF Owned, Keyed
    <3>2. CASE ~Has(p)
      BY <1>a, <1>1, <1>3, <3>2, AcquireIs, Zenon
    <3> QED
      BY <3>1, <3>2
  <2>2. Outcome(p, task[p], r.info, r.keys, images[s], o)
    BY <1>2, <1>5, <2>1, ProbeOutcome
  <2>3. PICK x, u, m, n : x = o.info /\ u = o.keys /\ m = o.images /\ n = o.loads
    OBVIOUS
  <2>4. /\ info' = [info EXCEPT ![p] = x] /\ keys' = [keys EXCEPT ![task[p].mm] = u]
        /\ images' = [images EXCEPT ![task[p].mm] = m] /\ loads' = n
    BY <1>1, <1>5, <2>3 DEF Store
  <2>5. /\ x \in InfoType /\ u \in SUBSET Key /\ x.status \in {r.info.status, "OUT"}
        /\ x.mm = r.info.mm /\ x.born = r.info.born
    BY <2>2, <2>3 DEF Outcome
  <2>6. Borrows(p, task[p], r.info) => Leads(p) /\ Has(p) /\ r.info = info[p]
    BY <2>1 DEF Borrows, Leads, Has
  <2>7. /\ \/ /\ n = loads /\ m = images[s] /\ x.stack = info[p].stack
              /\ \/ x.entry = info[p].entry
                 \/ /\ Leads(p) /\ Has(p) /\ info[p].status = "CLONE"
                    /\ x.entry = info[task[p].leader].entry
           \/ /\ loads + 1 \in 1 .. MaxImage /\ n = loads + 1
              /\ m = images[s] \cup {loads + 1}
              /\ x.stack = loads + 1 /\ x.entry = loads + 1 /\ x.status = "OUT"
    BY <2>1, <2>2, <2>3, <2>6 DEF Outcome
  <2>8. Placed(p, x, m, n)
    BY <1>1, <2>7 DEF Placed
  <2>9. n \in 0 .. MaxImage /\ m \in SUBSET (1 .. MaxImage)
    BY <1>2, <2>7
  <2>10. Keyed(p, x, u)
    <3>1. CASE x.key = r.info.key /\ u = r.keys
      BY <2>1, <3>1 DEF Keyed
    <3>2. CASE /\ Borrows(p, task[p], r.info) /\ x.key = info[task[p].leader].key
               /\ u = r.keys \/ (r.info.key # info[task[p].leader].key /\ u = r.keys \ {r.info.key})
      <4>1. Leads(p) /\ Has(p) /\ r.info = info[p] /\ r.keys = keys[s]
        BY <1>3, <2>6, <3>2
      <4> QED
        BY <1>1, <3>2, <4>1 DEF Keyed
    <3> QED
      BY <2>2, <2>3, <3>1, <3>2 DEF Outcome
  <2>11. Owned(p, x)
    BY <2>1, <2>5 DEF Owned
  <2>12. x.status \in {"OUT", "CLONE", "SHARE"} /\ (x.status = "OUT" \/ x.status = info[p].status)
    BY <2>1, <2>5
  <2>13. Put(p, task[p].mm, x, u, m, n, info) /\ Amended(p, x, u, m, n)
    BY <2>4, <2>8, <2>10, <2>11, <2>12 DEF Put, Amended
  <2> QED
    BY <2>5, <2>9, <2>13 DEF Updates
<1> QED
  BY <1>4, <1>5

(* The child that returns from clone is given a marked nod_proc_info.      *)
LEMMA CloneUpdates ==
  ASSUME Sound, NEW p \in Pid, CloneReturns(p)
  PROVE  Updates(p) \/ (~Has(p) /\ UNCHANGED <<info, keys, images, loads>>)
<1>a. Alive(p) /\ task[p].call \in {"clone_null", "clone_stack"} /\ UNCHANGED <<images, loads>>
  BY DEF CloneReturns
<1>1. PICK s : s = task[p].mm
  OBVIOUS
<1>2. /\ s \in Space /\ images[s] \in SUBSET (1 .. MaxImage) /\ loads \in 0 .. MaxImage
  BY <1>a, <1>1, Typed
<1>3. images \in [Space -> SUBSET (1 .. MaxImage)]
  BY DEF Sound, TypeOK
<1>4. images' = [images EXCEPT ![s] = images[s]]
  BY <1>a, <1>2, <1>3
<1>5. ASSUME NEW mark \in {"SHARE", "CLONE"}, NEW r, r = Acquire(p, task[p], mark, keys[s]),
             info' = [info EXCEPT ![p] = r.info], keys' = [keys EXCEPT ![s] = r.keys]
      PROVE  Updates(p)
  <2>1. PICK x, u : x = r.info /\ u = r.keys
    OBVIOUS
  <2>2. /\ x \in InfoType /\ u \in SUBSET Key /\ x.status = mark
        /\ x.stack = info[p].stack /\ x.entry = info[p].entry
        /\ Owned(p, x) /\ Keyed(p, x, u)
    BY <1>a, <1>1, <1>5, <2>1, AcquireIs, Zenon
  <2>3. Placed(p, x, images[s], loads)
    BY <1>1, <2>2 DEF Placed
  <2>4. info' = [info EXCEPT ![p] = x] /\ keys' = [keys EXCEPT ![s] = u] /\ loads' = loads
    BY <1>a, <1>5, <2>1
  <2>5. Amended(p, x, u, images[s], loads)
    BY <1>a, <2>2, <2>3 DEF Amended
  <2>6. Put(p, task[p].mm, x, u, images[s], loads, info)
    BY <1>a, <1>1, <1>2, <1>4, <2>4, Zenon DEF Put
  <2> QED
    BY <1>2, <2>2, <2>5, <2>6 DEF Updates
<1>6. MarkOf(task[p].call) \subseteq {"SHARE", "CLONE"}
  BY DEF MarkOf
<1> QED
  BY <1>a, <1>1, <1>5, <1>6 DEF CloneReturns

(* What an execve leaves in the nod_proc_info of its caller.               *)
Afresh(p, t, found, used, mapped, x, u, m, n) ==
  /\ x.status \in {"OUT", "CLONE", "SHARE"} /\ (x.status = "OUT" \/ x.status = found.status)
  /\ x.mm = t.mm /\ x.born = t.born
  /\ \/ /\ n = loads /\ m = mapped /\ x.stack = found.stack
        /\ \/ x.entry = 0
           \/ t.leader # p /\ Has(t.leader) /\ x.entry = info[t.leader].entry
     \/ /\ loads + 1 \in 1 .. MaxImage /\ n = loads + 1 /\ m = mapped \cup {loads + 1}
        /\ x.stack = loads + 1 /\ x.entry = loads + 1 /\ x.status = "OUT"
  /\ t.leader = p => x.key = 0 \/ x.key \in u

(* The exec branch of the probe leaves a nod_proc_info that is made anew   *)
(* for the task, in the address space it is in now.                        *)
Remade(p, t, found, used, mapped, others) ==
  \E x \in InfoType, u \in SUBSET Key, m \in SUBSET (1 .. MaxImage), n \in 0 .. MaxImage :
    Put(p, t.mm, x, u, m, n, others) /\ Afresh(p, t, found, used, mapped, x, u, m, n)

LEMMA ExecRemakes ==
  ASSUME Sound, NEW p \in Pid, NEW t \in TaskType, t.leader \in Pid, NEW found \in InfoType,
         found = NoInfo \/ found.status \in {"OUT", "CLONE", "SHARE"},
         NEW used \in SUBSET Key, NEW mapped \in SUBSET (1 .. MaxImage), NEW others,
         ExecProbe(p, t, found, used, mapped, others)
  PROVE  \/ Remade(p, t, found, used, mapped, others)
         \/ found = NoInfo /\ info' = others /\ UNCHANGED <<keys, images, loads>>
<1>1. PICK base : base = IF found # NoInfo THEN found ELSE [NoInfo EXCEPT !.status = "OUT"]
  BY Zenon
<1>2. PICK r : r = InitProcinfo(t, base, used)
  OBVIOUS
<1>3. \/ \E o \in Probed(p, t, r.info, r.keys, mapped) :
           /\ info' = [others EXCEPT ![p] = o.info]
           /\ keys' = [keys EXCEPT ![t.mm] = o.keys]
           /\ images' = [images EXCEPT ![t.mm] = o.images]
           /\ loads' = o.loads
      \/ found = NoInfo /\ info' = others /\ UNCHANGED <<keys, images, loads>>
  <2>1. r = IF found # NoInfo THEN InitProcinfo(t, found, used)
            ELSE InitProcinfo(t, [NoInfo EXCEPT !.status = "OUT"], used)
    BY <1>1, <1>2
  <2> QED
    BY <2>1 DEF ExecProbe
<1>4. /\ base \in InfoType /\ base.status \in {"OUT", "CLONE", "SHARE"} /\ base.stack = found.stack
      /\ base.status = "OUT" \/ base.status = found.status
  <2>1. CASE found # NoInfo
    BY <1>1, <2>1
  <2>2. CASE found = NoInfo
    BY <1>1, <2>2, Blank DEF InfoType, NoInfo
  <2> QED
    BY <2>1, <2>2
<1>5. /\ r.info \in InfoType /\ r.keys \in SUBSET Key /\ r.info.status = base.status
      /\ r.info.stack = base.stack /\ r.info.entry = 0 /\ r.info.mm = t.mm /\ r.info.born = t.born
  BY <1>2, <1>4, Reset
<1>6. r.info.key = 0 \/ r.info.key \in r.keys
  <2>1. PICK k : /\ r.info = [base EXCEPT !.mm = t.mm, !.born = t.born, !.entry = 0, !.key = k]
                 /\ r.keys = (used \ {base.key}) \cup ({k} \ {0})
    BY <1>2, Zenon DEF InitProcinfo
  <2>2. r.info.key = k
    BY <1>4, <2>1 DEF InfoType
  <2> QED
    BY <2>1, <2>2
<1>7. ASSUME NEW o \in Probed(p, t, r.info, r.keys, mapped),
             info' = [others EXCEPT ![p] = o.info],
             keys' = [keys EXCEPT ![t.mm] = o.keys],
             images' = [images EXCEPT ![t.mm] = o.images],
             loads' = o.loads
      PROVE  Remade(p, t, found, used, mapped, others)
  <2>1. info \in [Pid -> InfoType] /\ loads \in 0 .. MaxImage
    BY DEF Sound, TypeOK, InfoType, Counters
  <2>2. Outcome(p, t, r.info, r.keys, mapped, o)
    BY <1>4, <1>5, <1>7, <2>1, ProbeOutcome
  <2>3. PICK x, u, m, n : x = o.info /\ u = o.keys /\ m = o.images /\ n = o.loads
    OBVIOUS
  <2>4. /\ info' = [others EXCEPT ![p] = x] /\ keys' = [keys EXCEPT ![t.mm] = u]
        /\ images' = [images EXCEPT ![t.mm] = m] /\ loads' = n
    BY <1>7, <2>3
  <2>5. /\ x \in InfoType /\ u \in SUBSET Key /\ x.status \in {r.info.status, "OUT"}
        /\ x.mm = t.mm /\ x.born = t.born
    BY <1>5, <2>2, <2>3 DEF Outcome
  <2>6. Borrows(p, t, r.info) => t.leader # p /\ Has(t.leader)
    BY DEF Borrows, Has
  <2>7. /\ \/ /\ n = loads /\ m = mapped /\ x.stack = found.stack
              /\ \/ x.entry = 0
                 \/ t.leader # p /\ Has(t.leader) /\ x.entry = info[t.leader].entry
           \/ /\ loads + 1 \in 1 .. MaxImage /\ n = loads + 1
              /\ m = mapped \cup {loads + 1}
              /\ x.stack = loads + 1 /\ x.entry = loads + 1 /\ x.status = "OUT"
    BY <1>4, <1>5, <2>2, <2>3, <2>6 DEF Outcome
  <2>8. n \in 0 .. MaxImage /\ m \in SUBSET (1 .. MaxImage)
    <3>1. CASE n = loads /\ m = mapped
      BY <2>1, <3>1
    <3>2. CASE loads + 1 \in 1 .. MaxImage /\ n = loads + 1 /\ m = mapped \cup {loads + 1}
      BY <2>1, <3>2, TableAssumption
    <3> QED
      BY <2>7, <3>1, <3>2
  <2>9. t.leader = p => x.key = 0 \/ x.key \in u
    BY <1>6, <2>2, <2>3, <2>6 DEF Outcome
  <2>10. x.status \in {"OUT", "CLONE", "SHARE"} /\ (x.status = "OUT" \/ x.status = found.status)
    BY <1>4, <1>5, <2>5
  <2>11. Put(p, t.mm, x, u, m, n, others)
    BY <2>4 DEF Put
  <2>12. Afresh(p, t, found, used, mapped, x, u, m, n)
    BY <2>5, <2>7, <2>9, <2>10, Zenon DEF Afresh
  <2> QED
    BY <2>5, <2>8, <2>11, <2>12, Zenon DEF Remade
<1> QED
  BY <1>3, <1>7

(* execve in its two forms.                                                *)
LEMMA ExecFailRemakes ==
  ASSUME Sound, NEW p \in Pid, ExecFail(p)
  PROVE  /\ Alive(p) /\ odd' = odd \cup {"exec_failed"} /\ UNCHANGED <<task, births, spaces>>
         /\ \/ Remade(p, task[p], info[p], keys[task[p].mm], images[task[p].mm], info)
            \/ UNCHANGED <<info, keys, images, loads>>
<1>1. /\ Alive(p) /\ odd' = odd \cup {"exec_failed"} /\ UNCHANGED <<task, births, spaces>>
      /\ ExecProbe(p, task[p], info[p], keys[task[p].mm], images[task[p].mm], info)
  BY DEF ExecFail
<1>2. info[p] = NoInfo \/ info[p].status \in {"OUT", "CLONE", "SHARE"}
  BY DEF Sound, Marked, Has
<1>3. /\ task[p] \in TaskType /\ task[p].leader \in Pid /\ info[p] \in InfoType
      /\ keys[task[p].mm] \in SUBSET Key /\ images[task[p].mm] \in SUBSET (1 .. MaxImage)
  BY <1>1, Typed
<1> QED
  BY <1>1, <1>2, <1>3, ExecRemakes

LEMMA ExecReplaces ==
  ASSUME Sound, NEW p \in Pid, Exec(p)
  PROVE  \E t \in TaskType, l \in Pid, gone \in SUBSET Pid, others \in [Pid -> InfoType] :
           /\ Alive(p) /\ l = task[p].leader /\ t = [task[p] EXCEPT !.mm = spaces + 1]
           /\ gone = (Group(p) \cup {l}) \ {p} /\ spaces + 1 \in 1 .. MaxSpace
           /\ t.leader = l /\ t.mm = spaces + 1 /\ t.born = task[p].born /\ t.call = "ran"
           /\ others = Released(gone)
           /\ task' = [q \in Pid |-> IF q = l THEN t ELSE IF q \in gone \cup {p} THEN NoTask ELSE task[q]]
           /\ odd' = (IF l = p THEN odd ELSE odd \cup {"thread_exec"})
           /\ spaces' = spaces + 1 /\ births' = births
           /\ \/ Remade(l, t, others[l], {}, {}, others)
              \/ others[l] = NoInfo /\ info' = others /\ UNCHANGED <<keys, images, loads>>
<1>1. PICK t, l, gone, others :
         /\ l = task[p].leader /\ t = [task[p] EXCEPT !.mm = spaces + 1]
         /\ gone = (Group(p) \cup {l}) \ {p} /\ others = Released(gone)
  BY Zenon
<1>2. /\ Alive(p) /\ task[p].call = "ran" /\ spaces < MaxSpace
      /\ task' = [q \in Pid |-> IF q = l THEN t ELSE IF q \in gone \cup {p} THEN NoTask ELSE task[q]]
      /\ odd' = (IF l = p THEN odd ELSE odd \cup {"thread_exec"})
      /\ spaces' = spaces + 1 /\ births' = births
      /\ ExecProbe(l, t, others[l], {}, {}, others)
  BY <1>1 DEF Exec
<1>3. /\ task[p] \in TaskType /\ l \in Pid /\ info \in [Pid -> InfoType]
  BY <1>1, <1>2, Typed
<1>4. spaces + 1 \in 1 .. MaxSpace
  BY <1>2, TableAssumption DEF Sound, Counters
<1>5. t \in TaskType /\ t.leader = l /\ t.mm = spaces + 1 /\ t.born = task[p].born /\ t.call = "ran"
  BY <1>1, <1>2, <1>3, <1>4 DEF TaskType, Space
<1>6. gone \in SUBSET Pid /\ others \in [Pid -> InfoType]
  BY <1>1, <1>3, Blank DEF Group, Released
<1>7. others[l] \in InfoType /\ (others[l] = NoInfo \/ others[l].status \in {"OUT", "CLONE", "SHARE"})
  BY <1>1, <1>3, <1>6 DEF Released, Sound, Marked, Has
<1>8. \/ Remade(l, t, others[l], {}, {}, others)
      \/ others[l] = NoInfo /\ info' = others /\ UNCHANGED <<keys, images, loads>>
  BY <1>2, <1>3, <1>5, <1>7, ExecRemakes
<1> QED
  BY <1>1, <1>2, <1>3, <1>4, <1>5, <1>6, <1>8, Zenon

------------------------------------------------------------------------------
(* A system call that returns changes nothing of a task but its call.      *)
LEMMA SameTasks ==
  ASSUME Sound, NEW p \in Pid, Alive(p), task' = [task EXCEPT ![p].call = "ran"]
  PROVE  /\ task' \in [Pid -> TaskType] /\ task'[p].call = "ran"
         /\ \A q \in Pid : /\ Alive(q)' <=> Alive(q)
                           /\ task'[q].leader = task[q].leader /\ task'[q].mm = task[q].mm
                           /\ task'[q].born = task[q].born
                           /\ q # p => task'[q] = task[q]
<1>1. task \in [Pid -> TaskType]
  BY DEF Sound, TypeOK, TaskType
<1>2. /\ task'[p] = [task[p] EXCEPT !.call = "ran"]
      /\ \A q \in Pid : q # p => task'[q] = task[q]
  BY <1>1
<1>3. PICK y : y = [task[p] EXCEPT !.call = "ran"]
  BY Zenon
<1>4. /\ y \in TaskType /\ y.call = "ran" /\ y.leader = task[p].leader /\ y.mm = task[p].mm
      /\ y.born = task[p].born /\ y # NoTask
  BY <1>1, <1>3 DEF TaskType, NoTask
<1>5. task'[p] = y
  BY <1>2, <1>3
<1>6. task' \in [Pid -> TaskType]
  BY <1>1, <1>3, <1>4
<1> QED
  BY <1>2, <1>4, <1>5, <1>6 DEF Alive

(* Whatever is stored for one pid and one address space keeps the types.   *)
LEMMA StoreTypes ==
  ASSUME Sound, NEW p \in Pid, NEW s \in Space, NEW others \in [Pid -> InfoType],
         \A q \in Pid : others[q] = NoInfo \/ others[q] = info[q],
         NEW x \in InfoType, x.status \in {"OUT", "CLONE", "SHARE"},
         NEW u \in SUBSET Key, NEW m \in SUBSET (1 .. MaxImage),
         NEW n, Put(p, s, x, u, m, n, others)
  PROVE  /\ info' \in [Pid -> InfoType] /\ keys' \in [Space -> SUBSET Key]
         /\ images' \in [Space -> SUBSET (1 .. MaxImage)] /\ Marked'
         /\ info'[p] = x /\ \A q \in Pid : q # p => info'[q] = others[q]
         /\ keys'[s] = u /\ images'[s] = m
         /\ \A z \in Space : z # s => keys'[z] = keys[z] /\ images'[z] = images[z]
<1>1. keys \in [Space -> SUBSET Key] /\ images \in [Space -> SUBSET (1 .. MaxImage)]
  BY DEF Sound, TypeOK
<1>a. /\ info' = [others EXCEPT ![p] = x] /\ keys' = [keys EXCEPT ![s] = u]
      /\ images' = [images EXCEPT ![s] = m]
  BY DEF Put
<1>2. info'[p] = x /\ \A q \in Pid : q # p => info'[q] = others[q]
  BY <1>a
<1>3. Marked'
  BY <1>2 DEF Sound, Marked, Has
<1> QED
  BY <1>1, <1>2, <1>3, <1>a

(* Every step keeps the table, the counters and the families of tasks      *)
(* sound.                                                                  *)
LEMMA SoundStep ==
  ASSUME Sound, [Next]_vars
  PROVE  Sound'
<1>type. /\ task \in [Pid -> TaskType] /\ info \in [Pid -> InfoType]
         /\ images \in [Space -> SUBSET (1 .. MaxImage)] /\ keys \in [Space -> SUBSET Key]
         /\ odd \subseteq Odd
  BY DEF Sound, TypeOK, TaskType, InfoType
<1>cnt. /\ spaces \in 1 .. MaxSpace /\ births \in 1 .. MaxBirth /\ loads \in 0 .. MaxImage
        /\ Kin /\ Marked
  BY DEF Sound, Counters
<1>new. ASSUME task' \in [Pid -> TaskType], info' \in [Pid -> InfoType],
               images' \in [Space -> SUBSET (1 .. MaxImage)], keys' \in [Space -> SUBSET Key],
               odd' \subseteq Odd, Counters', Kin', Marked'
        PROVE  Sound'
  BY <1>new DEF Sound, TypeOK, TaskType, InfoType
<1>0. CASE UNCHANGED vars
  BY <1>0 DEF vars, Sound, TypeOK, Counters, Kin, Marked, Alive, Has
<1>1. ASSUME NEW p \in Pid, NEW c \in Pid, NEW b \in Birth, Fork(p, c, b) PROVE Sound'
  <2>1. /\ Alive(p) /\ ~Alive(c) /\ (\A q \in Pid : task[q].leader # c) /\ births < MaxBirth
        /\ births' = births + 1 /\ UNCHANGED <<info, odd, loads>> /\ (b.vm \/ spaces < MaxSpace)
    BY <1>1 DEF Fork
  <2>2. PICK s, y : /\ s = (IF b.vm THEN task[p].mm ELSE spaces + 1)
                    /\ y = [leader |-> IF b.thread THEN task[p].leader ELSE c,
                            mm |-> s, born |-> births + 1,
                            call |-> IF b.call # "clone" THEN "other"
                                     ELSE IF b.thread THEN "clone_stack" ELSE "clone_null"]
    BY Zenon
  <2>3. /\ task' = [task EXCEPT ![c] = y]
        /\ spaces' = (IF b.vm THEN spaces ELSE s)
        /\ images' = (IF b.vm THEN images ELSE [images EXCEPT ![s] = images[task[p].mm]])
        /\ keys' = (IF b.vm THEN keys ELSE [keys EXCEPT ![s] = keys[task[p].mm]])
    BY <1>1, <2>2 DEF Fork
  <2>4. /\ task[p].leader \in Pid /\ task[p].mm \in 1 .. spaces /\ task[p].mm \in Space
        /\ keys[task[p].mm] \in SUBSET Key /\ images[task[p].mm] \in SUBSET (1 .. MaxImage)
    BY <2>1, Typed DEF Sound, Kin
  <2>5. s \in 1 .. spaces' /\ spaces' \in 1 .. MaxSpace /\ spaces <= spaces' /\ s \in Space
    BY <1>cnt, <2>1, <2>2, <2>3, <2>4, TableAssumption DEF Space
  <2>6. y \in TaskType /\ y.mm = s /\ y.leader = (IF b.thread THEN task[p].leader ELSE c)
    <3>1. births + 1 \in 0 .. MaxBirth
      BY <1>cnt, <2>1, TableAssumption
    <3> QED
      BY <2>2, <2>4, <2>5, <3>1 DEF TaskType
  <2>7. b.thread => b.vm
    BY DEF Birth
  <2>8. Counters'
    BY <1>cnt, <2>1, <2>5, TableAssumption DEF Counters
  <2>9. task' \in [Pid -> TaskType] /\ task'[c] = y /\ \A q \in Pid : q # c => task'[q] = task[q]
    BY <1>type, <2>3, <2>6
  <2>10. images' \in [Space -> SUBSET (1 .. MaxImage)] /\ keys' \in [Space -> SUBSET Key]
    BY <1>type, <2>3, <2>4, <2>5
  <2>11. Kin'
    <3> SUFFICES ASSUME NEW q \in Pid, Alive(q)'
                 PROVE  /\ task'[q].leader \in Pid /\ task'[q].mm \in 1 .. spaces'
                        /\ task'[task'[q].leader] # NoTask =>
                             /\ task'[task'[q].leader].leader = task'[q].leader
                             /\ task'[task'[q].leader].mm = task'[q].mm
      BY DEF Kin, Alive
    <3>1. CASE q # c
      <4>1. task'[q] = task[q] /\ Alive(q) /\ task[q].leader # c
        BY <2>1, <2>9, <3>1 DEF Alive
      <4>2. task[q].leader \in Pid /\ task[q].mm \in 1 .. spaces
        BY <1>cnt, <4>1 DEF Kin
      <4>3. task'[task[q].leader] = task[task[q].leader]
        BY <2>9, <4>1, <4>2
      <4>4. task[task[q].leader] # NoTask => /\ task[task[q].leader].leader = task[q].leader
                                             /\ task[task[q].leader].mm = task[q].mm
        BY <1>cnt, <4>1 DEF Kin, Alive
      <4>5. task[q].mm \in 1 .. spaces'
        BY <1>cnt, <2>5, <4>2, TableAssumption
      <4> QED
        BY <4>1, <4>2, <4>3, <4>4, <4>5
    <3>2. CASE q = c /\ b.thread
      <4>1. task'[q].leader = task[p].leader /\ task'[q].mm = task[p].mm /\ task[p].leader # c
        BY <2>1, <2>2, <2>6, <2>7, <2>9, <3>2
      <4>2. task'[task[p].leader] = task[task[p].leader]
        BY <2>4, <2>9, <4>1
      <4>3. task[task[p].leader] # NoTask => /\ task[task[p].leader].leader = task[p].leader
                                             /\ task[task[p].leader].mm = task[p].mm
        BY <1>cnt, <2>1 DEF Kin, Alive
      <4>4. task'[q].mm \in 1 .. spaces'
        BY <2>5, <2>6, <2>9, <3>2
      <4> QED
        BY <2>4, <4>1, <4>2, <4>3, <4>4
    <3>3. CASE q = c /\ ~b.thread
      BY <2>5, <2>6, <2>9, <3>3
    <3> QED
      BY <3>1, <3>2, <3>3
  <2> QED
    BY <1>new, <1>type, <1>cnt, <2>1, <2>8, <2>9, <2>10, <2>11 DEF Marked, Has
<1>2. ASSUME NEW p \in Pid, CloneReturns(p) \/ Syscall(p) PROVE Sound'
  <2>1. /\ Alive(p) /\ task' = [task EXCEPT ![p].call = "ran"] /\ UNCHANGED <<odd, births, spaces>>
        /\ Updates(p) \/ UNCHANGED <<info, keys, images, loads>>
    BY <1>2, CloneUpdates, SyscallUpdates, Zenon DEF CloneReturns, Syscall
  <2>2. task[p].mm \in Space
    BY <2>1, Typed
  <2>3. /\ info' \in [Pid -> InfoType] /\ images' \in [Space -> SUBSET (1 .. MaxImage)]
        /\ keys' \in [Space -> SUBSET Key] /\ Marked' /\ loads' \in 0 .. MaxImage
    <3>1. CASE Updates(p)
      <4>1. PICK x \in InfoType, u \in SUBSET Key, m \in SUBSET (1 .. MaxImage), n \in 0 .. MaxImage :
              Put(p, task[p].mm, x, u, m, n, info) /\ Amended(p, x, u, m, n)
        BY <3>1 DEF Updates
      <4>2. x.status \in {"OUT", "CLONE", "SHARE"} /\ loads' = n
        BY <4>1 DEF Put, Amended
      <4> QED
        BY <1>type, <2>2, <4>1, <4>2, StoreTypes, Zenon
    <3>2. CASE UNCHANGED <<info, keys, images, loads>>
      BY <1>type, <1>cnt, <3>2 DEF Marked, Has
    <3> QED
      BY <2>1, <3>1, <3>2
  <2>4. Kin'
    <3>1. \A q \in Pid : /\ Alive(q)' <=> Alive(q)
                         /\ task'[q].leader = task[q].leader /\ task'[q].mm = task[q].mm
      BY <2>1, SameTasks, Zenon
    <3> QED
      BY <1>cnt, <2>1, <3>1 DEF Kin
  <2>5. Counters' /\ odd' \subseteq Odd /\ task' \in [Pid -> TaskType]
    BY <1>type, <1>cnt, <2>1, <2>3, SameTasks, Zenon DEF Counters
  <2> QED
    BY <1>new, <2>3, <2>4, <2>5
<1>3. ASSUME NEW p \in Pid, Exec(p) PROVE Sound'
  <2>1. PICK t \in TaskType, l \in Pid, gone \in SUBSET Pid, others \in [Pid -> InfoType] :
           /\ Alive(p) /\ l = task[p].leader
           /\ gone = (Group(p) \cup {l}) \ {p} /\ spaces + 1 \in 1 .. MaxSpace
           /\ t.leader = l /\ t.mm = spaces + 1 /\ t.call = "ran"
           /\ others = Released(gone)
           /\ task' = [q \in Pid |-> IF q = l THEN t ELSE IF q \in gone \cup {p} THEN NoTask ELSE task[q]]
           /\ odd' = (IF l = p THEN odd ELSE odd \cup {"thread_exec"})
           /\ spaces' = spaces + 1 /\ births' = births
           /\ \/ Remade(l, t, others[l], {}, {}, others)
              \/ info' = others /\ UNCHANGED <<keys, images, loads>>
    BY <1>3, ExecReplaces
  <2>2. \A q \in Pid : others[q] = NoInfo \/ others[q] = info[q]
    BY <2>1 DEF Released
  <2>3. /\ info' \in [Pid -> InfoType] /\ images' \in [Space -> SUBSET (1 .. MaxImage)]
        /\ keys' \in [Space -> SUBSET Key] /\ Marked' /\ loads' \in 0 .. MaxImage
    <3>1. CASE Remade(l, t, others[l], {}, {}, others)
      <4>1. PICK x \in InfoType, u \in SUBSET Key, m \in SUBSET (1 .. MaxImage), n \in 0 .. MaxImage :
              Put(l, t.mm, x, u, m, n, others) /\ Afresh(l, t, others[l], {}, {}, x, u, m, n)
        BY <3>1 DEF Remade
      <4>2. t.mm \in Space
        BY <2>1 DEF Space
      <4>3. x.status \in {"OUT", "CLONE", "SHARE"} /\ loads' = n
        BY <4>1 DEF Put, Afresh
      <4> QED
        BY <2>2, <4>1, <4>2, <4>3, StoreTypes, Zenon
    <3>2. CASE info' = others /\ UNCHANGED <<keys, images, loads>>
      BY <1>type, <1>cnt, <2>2, <3>2 DEF Marked, Has
    <3> QED
      BY <2>1, <3>1, <3>2
  <2>4. task' \in [Pid -> TaskType]
    BY <1>type, <2>1, Blank
  <2>5. Kin'
    <3> SUFFICES ASSUME NEW q \in Pid, task'[q] # NoTask
                 PROVE  /\ task'[q].leader \in Pid /\ task'[q].mm \in 1 .. spaces'
                        /\ task'[task'[q].leader] # NoTask =>
                             /\ task'[task'[q].leader].leader = task'[q].leader
                             /\ task'[task'[q].leader].mm = task'[q].mm
      BY DEF Kin, Alive
    <3>1. CASE q = l
      <4>1. task'[l] = t
        BY <2>1
      <4>2. spaces + 1 \in 1 .. spaces'
        <5>1. spaces' = spaces + 1
          BY <2>1
        <5> QED
          BY <1>cnt, <5>1, TableAssumption
      <4>3. t.leader = l /\ t.mm = spaces + 1
        BY <2>1
      <4> QED
        BY <3>1, <4>1, <4>2, <4>3
    <3>2. CASE q # l
      <4>1. q \notin gone \cup {p} /\ task'[q] = task[q] /\ Alive(q)
        BY <2>1, <3>2 DEF Alive
      <4>2. task[q].leader # l
        BY <2>1, <4>1 DEF Group
      <4>3. /\ task[q].leader \in Pid /\ task[q].mm \in 1 .. spaces
            /\ task[task[q].leader] # NoTask => /\ task[task[q].leader].leader = task[q].leader
                                                /\ task[task[q].leader].mm = task[q].mm
        BY <1>cnt, <4>1 DEF Kin, Alive
      <4>4. task'[task[q].leader] = NoTask \/ task'[task[q].leader] = task[task[q].leader]
        BY <2>1, <4>2, <4>3, Zenon
      <4>5. task[q].mm \in 1 .. spaces'
        <5>1. spaces' = spaces + 1
          BY <2>1
        <5>2. spaces \in Nat /\ task[q].mm \in 1 .. spaces
          BY <1>cnt, <4>3, TableAssumption
        <5> QED
          BY <5>1, <5>2
      <4> QED
        BY <4>1, <4>3, <4>4, <4>5
    <3> QED
      BY <3>1, <3>2
  <2>6. Counters' /\ odd' \subseteq Odd
    BY <1>type, <1>cnt, <2>1, <2>3 DEF Counters, Odd
  <2> QED
    BY <1>new, <2>3, <2>4, <2>5, <2>6
<1>4. ASSUME NEW p \in Pid, ExecFail(p) PROVE Sound'
  <2>1. /\ Alive(p) /\ odd' = odd \cup {"exec_failed"} /\ UNCHANGED <<task, births, spaces>>
        /\ \/ Remade(p, task[p], info[p], keys[task[p].mm], images[task[p].mm], info)
           \/ UNCHANGED <<info, keys, images, loads>>
    BY <1>4, ExecFailRemakes
  <2>2. /\ info' \in [Pid -> InfoType] /\ images' \in [Space -> SUBSET (1 .. MaxImage)]
        /\ keys' \in [Space -> SUBSET Key] /\ Marked' /\ loads' \in 0 .. MaxImage
    <3>1. CASE Remade(p, task[p], info[p], keys[task[p].mm], images[task[p].mm], info)
      <4>1. PICK x \in InfoType, u \in SUBSET Key, m \in SUBSET (1 .. MaxImage), n \in 0 .. MaxImage :
              /\ Put(p, task[p].mm, x, u, m, n, info)
              /\ Afresh(p, task[p], info[p], keys[task[p].mm], images[task[p].mm], x, u, m, n)
        BY <3>1 DEF Remade
      <4>2. task[p].mm \in Space
        BY <2>1, Typed
      <4>3. x.status \in {"OUT", "CLONE", "SHARE"} /\ loads' = n
        BY <4>1 DEF Put, Afresh
      <4> QED
        BY <1>type, <4>1, <4>2, <4>3, StoreTypes, Zenon
    <3>2. CASE UNCHANGED <<info, keys, images, loads>>
      BY <1>type, <1>cnt, <3>2 DEF Marked, Has
    <3> QED
      BY <2>1, <3>1, <3>2
  <2>3. Counters' /\ Kin' /\ odd' \subseteq Odd /\ task' \in [Pid -> TaskType]
    BY <1>type, <1>cnt, <2>1, <2>2 DEF Counters, Kin, Alive, Odd
  <2> QED
    BY <1>new, <2>2, <2>3
<1>5. ASSUME NEW p \in Pid, Exit(p) \/ ExitMissed(p) PROVE Sound'
  <2>1. /\ task' = [task EXCEPT ![p] = NoTask] /\ UNCHANGED <<images, keys, births, spaces, loads>>
        /\ info' = info \/ info' = Released({p})
        /\ odd' = odd \/ odd' = odd \cup {"missed_exit"}
    BY <1>5 DEF Exit, ExitMissed
  <2>2. /\ task' \in [Pid -> TaskType] /\ task'[p] = NoTask /\ \A q \in Pid : q # p => task'[q] = task[q]
    BY <1>type, <2>1, Blank
  <2>3. info' \in [Pid -> InfoType] /\ \A q \in Pid : info'[q] = info[q] \/ info'[q] = NoInfo
    BY <1>type, <2>1, Blank DEF Released
  <2>4. Marked' /\ Counters' /\ odd' \subseteq Odd
    BY <1>type, <1>cnt, <2>1, <2>3, Zenon DEF Marked, Has, Counters, Odd
  <2>5. Kin'
    BY <1>cnt, <2>1, <2>2 DEF Kin, Alive
  <2> QED
    BY <1>new, <1>type, <2>1, <2>2, <2>3, <2>4, <2>5
<1> QED
  BY <1>0, <1>1, <1>2, <1>3, <1>4, <1>5 DEF Next

LEMMA SoundInit == Init => Sound
<1> SUFFICES ASSUME Init PROVE Sound
  OBVIOUS
<1>1. PICK p \in Pid :
        /\ task = [q \in Pid |-> IF q = p THEN [leader |-> p, mm |-> 1, born |-> 1, call |-> "ran"]
                                          ELSE NoTask]
        /\ info = [q \in Pid |-> NoInfo]
        /\ images = [s \in Space |-> {}] /\ keys = [s \in Space |-> {}]
        /\ odd = {} /\ births = 1 /\ spaces = 1 /\ loads = 0
  BY DEF Init
<1>2. PICK t : t = [leader |-> p, mm |-> 1, born |-> 1, call |-> "ran"]
  BY Zenon
<1>3. t \in TaskType /\ t.leader = p /\ t.mm = 1
  BY <1>2, TableAssumption DEF TaskType, Space
<1>4. task[p] = t /\ \A q \in Pid : q # p => task[q] = NoTask
  BY <1>1, <1>2
<1>5. task \in [Pid -> TaskType] /\ info \in [Pid -> InfoType]
  BY <1>1, <1>2, <1>3, Blank
<1>6. Counters /\ Marked
  BY <1>1, TableAssumption DEF Counters, Marked, Has
<1>7. Kin
  BY <1>1, <1>3, <1>4 DEF Kin, Alive
<1> QED
  BY <1>1, <1>5, <1>6, <1>7 DEF Sound, TypeOK, TaskType, InfoType

(* Every part of the state has its type at all times, for any pids and     *)
(* keys: what nod_proc_acquire, nod_load_monitor and the probes leave in   *)
(* the table is well-formed.                                               *)
THEOREM TypeCorrect == Spec => []TypeOK
<1>1. Sound => TypeOK
  BY DEF Sound
<1> QED
  BY <1>1, SoundInit, SoundStep, PTL DEF Spec

------------------------------------------------------------------------------
(* The steps seen from one pid and one address space at a time: x is       *)
(* stored for p, u and m for space s.                                      *)
Stored(p, s, x, u, m, n) ==
  /\ info'[p] = x /\ keys'[s] = u /\ images'[s] = m /\ loads' = n
  /\ \A z \in Space : z # s => keys'[z] = keys[z] /\ images'[z] = images[z]

(* Nothing that has happened is forgotten.                                 *)
LEMMA OddGrows == [Next]_vars => odd \subseteq odd'
<1>1. ASSUME NEW p \in Pid, NEW c \in Pid, NEW b \in Birth, Fork(p, c, b) PROVE odd' = odd
  BY <1>1 DEF Fork
<1>2. ASSUME NEW p \in Pid, CloneReturns(p) \/ Syscall(p) \/ Exit(p) PROVE odd' = odd
  BY <1>2 DEF CloneReturns, Syscall, Exit
<1>3. ASSUME NEW p \in Pid, Exec(p) \/ ExecFail(p) \/ ExitMissed(p) PROVE odd \subseteq odd'
  BY <1>3 DEF Exec, ExecFail, ExitMissed
<1> QED
  BY <1>1, <1>2, <1>3 DEF Next, vars

LEMMA CallStep ==
  ASSUME Sound, NEW p \in Pid, CloneReturns(p) \/ Syscall(p)
  PROVE  /\ Alive(p) /\ UNCHANGED <<odd, births, spaces>> /\ task'[p].call = "ran"
         /\ \A q \in Pid : /\ Alive(q)' <=> Alive(q)
                           /\ task'[q].leader = task[q].leader /\ task'[q].mm = task[q].mm
                           /\ task'[q].born = task[q].born
                           /\ q # p => task'[q] = task[q] /\ info'[q] = info[q]
         /\ \/ UNCHANGED <<info, keys, images, loads>>
            \/ \E x \in InfoType, u \in SUBSET Key, m \in SUBSET (1 .. MaxImage), n \in 0 .. MaxImage :
                 Stored(p, task[p].mm, x, u, m, n) /\ Amended(p, x, u, m, n)
<1>1. /\ Alive(p) /\ task' = [task EXCEPT ![p].call = "ran"] /\ UNCHANGED <<odd, births, spaces>>
      /\ Updates(p) \/ UNCHANGED <<info, keys, images, loads>>
  BY CloneUpdates, SyscallUpdates, Zenon DEF CloneReturns, Syscall
<1>2. /\ task'[p].call = "ran"
      /\ \A q \in Pid : /\ Alive(q)' <=> Alive(q)
                        /\ task'[q].leader = task[q].leader /\ task'[q].mm = task[q].mm
                        /\ task'[q].born = task[q].born
                        /\ q # p => task'[q] = task[q]
  BY <1>1, SameTasks, Zenon
<1>3. CASE UNCHANGED <<info, keys, images, loads>>
  BY <1>1, <1>2, <1>3
<1>4. CASE Updates(p)
  <2>1. PICK x \in InfoType, u \in SUBSET Key, m \in SUBSET (1 .. MaxImage), n \in 0 .. MaxImage :
           Put(p, task[p].mm, x, u, m, n, info) /\ Amended(p, x, u, m, n)
    BY <1>4 DEF Updates
  <2>2. info \in [Pid -> InfoType] /\ task[p].mm \in Space /\ DOMAIN keys = Space /\ DOMAIN images = Space
    BY <1>1, Typed DEF Sound, TypeOK
  <2>a. /\ info' = [info EXCEPT ![p] = x] /\ keys' = [keys EXCEPT ![task[p].mm] = u]
        /\ images' = [images EXCEPT ![task[p].mm] = m] /\ loads' = n
    BY <2>1 DEF Put
  <2>3. /\ info'[p] = x /\ (\A q \in Pid : q # p => info'[q] = info[q])
        /\ keys'[task[p].mm] = u /\ images'[task[p].mm] = m
        /\ \A z \in Space : z # task[p].mm => keys'[z] = keys[z] /\ images'[z] = images[z]
    BY <2>2, <2>a
  <2>4. Stored(p, task[p].mm, x, u, m, n)
    BY <2>a, <2>3 DEF Stored
  <2>5. \E y \in InfoType, v \in SUBSET Key, k \in SUBSET (1 .. MaxImage), r \in 0 .. MaxImage :
          Stored(p, task[p].mm, y, v, k, r) /\ Amended(p, y, v, k, r)
    BY <2>1, <2>4
  <2> QED
    BY <1>1, <1>2, <2>3, <2>5, Zenon
<1> QED
  BY <1>1, <1>3, <1>4

LEMMA RemadeIs ==
  ASSUME Sound, NEW p \in Pid, NEW t \in TaskType, t.mm \in Space, NEW found, NEW used, NEW mapped,
         NEW others \in [Pid -> InfoType], \A q \in Pid : others[q] = NoInfo \/ others[q] = info[q],
         Remade(p, t, found, used, mapped, others)
  PROVE  /\ \A q \in Pid : q # p => info'[q] = others[q]
         /\ \E x \in InfoType, u \in SUBSET Key, m \in SUBSET (1 .. MaxImage), n \in 0 .. MaxImage :
              Stored(p, t.mm, x, u, m, n) /\ Afresh(p, t, found, used, mapped, x, u, m, n)
<1>1. PICK x \in InfoType, u \in SUBSET Key, m \in SUBSET (1 .. MaxImage), n \in 0 .. MaxImage :
         Put(p, t.mm, x, u, m, n, others) /\ Afresh(p, t, found, used, mapped, x, u, m, n)
  BY DEF Remade
<1>2. DOMAIN keys = Space /\ DOMAIN images = Space
  BY DEF Sound, TypeOK
<1>a. /\ info' = [others EXCEPT ![p] = x] /\ keys' = [keys EXCEPT ![t.mm] = u]
      /\ images' = [images EXCEPT ![t.mm] = m] /\ loads' = n
  BY <1>1 DEF Put
<1>3. /\ info'[p] = x /\ (\A q \in Pid : q # p => info'[q] = others[q])
      /\ keys'[t.mm] = u /\ images'[t.mm] = m
      /\ \A z \in Space : z # t.mm => keys'[z] = keys[z] /\ images'[z] = images[z]
  BY <1>2, <1>a
<1>4. Stored(p, t.mm, x, u, m, n)
  BY <1>a, <1>3 DEF Stored
<1> QED
  BY <1>1, <1>3, <1>4

LEMMA ForkStep ==
  ASSUME Sound, NEW p \in Pid, NEW c \in Pid, NEW b \in Birth, Fork(p, c, b)
  PROVE  /\ ~Alive(c) /\ task[p].mm \in Space /\ UNCHANGED <<info, odd, loads>>
         /\ \A q \in Pid : task[q].leader # c /\ (q # c => task'[q] = task[q])
         /\ \A z \in 1 .. spaces : keys'[z] = keys[z] /\ images'[z] = images[z]
         /\ \A z \in Space : images'[z] = images[z] \/ images'[z] = images[task[p].mm]
<1>1. /\ Alive(p) /\ ~Alive(c) /\ (\A q \in Pid : task[q].leader # c)
      /\ UNCHANGED <<info, odd, loads>> /\ (b.vm \/ spaces < MaxSpace)
      /\ \E y : task' = [task EXCEPT ![c] = y]
      /\ images' = (IF b.vm THEN images ELSE [images EXCEPT ![spaces + 1] = images[task[p].mm]])
      /\ keys' = (IF b.vm THEN keys ELSE [keys EXCEPT ![spaces + 1] = keys[task[p].mm]])
  BY Zenon DEF Fork
<1>2. task[p].mm \in Space /\ DOMAIN task = Pid /\ DOMAIN images = Space /\ DOMAIN keys = Space
  BY <1>1, Typed DEF Sound, TypeOK
<1>3. \A q \in Pid : q # c => task'[q] = task[q]
  BY <1>1, <1>2
<1>4. \A z \in Space : images'[z] = images[z] \/ images'[z] = images[task[p].mm]
  BY <1>1, <1>2
<1>5. \A z \in 1 .. spaces : z \in Space /\ z # spaces + 1
  BY TableAssumption DEF Sound, Counters, Space
<1>6. \A z \in 1 .. spaces : keys'[z] = keys[z] /\ images'[z] = images[z]
  BY <1>1, <1>2, <1>5
<1> QED
  BY <1>1, <1>2, <1>3, <1>4, <1>6

(* An execve of a group leader: the other threads go, with what they have, *)
(* and everybody else stays as they are.                                   *)
LEMMA ExecStep ==
  ASSUME Sound, NEW p \in Pid, Exec(p), odd' \subseteq {"exec_failed"}
  PROVE  /\ Alive(p) /\ task[p].leader = p /\ odd' = odd /\ spaces' = spaces + 1
         /\ spaces + 1 \in Space
         /\ Alive(p)' /\ task'[p].leader = p /\ task'[p].mm = spaces + 1
         /\ task'[p].born = task[p].born /\ task'[p].call = "ran"
         /\ \A q \in Pid : q # p =>
              IF Alive(q) /\ task[q].leader = p
              THEN task'[q] = NoTask /\ info'[q] = NoInfo
              ELSE task'[q] = task[q] /\ info'[q] = info[q]
         /\ \/ info'[p] = NoInfo /\ UNCHANGED <<keys, images, loads>>
            \/ \E x \in InfoType, u \in SUBSET Key, m \in SUBSET (1 .. MaxImage), n \in 0 .. MaxImage :
                 /\ Stored(p, spaces + 1, x, u, m, n)
                 /\ Afresh(p, task'[p], info[p], {}, {}, x, u, m, n)
<1>1. PICK t \in TaskType, l \in Pid, gone \in SUBSET Pid, others \in [Pid -> InfoType] :
         /\ Alive(p) /\ l = task[p].leader
         /\ gone = (Group(p) \cup {l}) \ {p} /\ spaces + 1 \in 1 .. MaxSpace
         /\ t.leader = l /\ t.mm = spaces + 1 /\ t.born = task[p].born /\ t.call = "ran"
         /\ others = Released(gone)
         /\ task' = [q \in Pid |-> IF q = l THEN t ELSE IF q \in gone \cup {p} THEN NoTask ELSE task[q]]
         /\ odd' = (IF l = p THEN odd ELSE odd \cup {"thread_exec"})
         /\ spaces' = spaces + 1 /\ births' = births
         /\ \/ Remade(l, t, others[l], {}, {}, others)
            \/ others[l] = NoInfo /\ info' = others /\ UNCHANGED <<keys, images, loads>>
  BY ExecReplaces
<1>2. l = p /\ odd' = odd
  <2>1. l # p => "thread_exec" \in odd'
    BY <1>1
  <2> QED
    BY <1>1, <2>1, Zenon
<1>3. /\ \A q \in Pid : q \in gone <=> q # p /\ Alive(q) /\ task[q].leader = p
      /\ \A q \in Pid : others[q] = IF q \in gone THEN NoInfo ELSE info[q]
  BY <1>1, <1>2 DEF Group, Released
<1>4. /\ task'[p] = t
      /\ \A q \in Pid : q # p => task'[q] = IF q \in gone THEN NoTask ELSE task[q]
  BY <1>1, <1>2
<1>5. others[p] = info[p]
  BY <1>3
<1>6. spaces + 1 \in Space /\ t # NoTask
  <2>2. spaces + 1 # 0
    BY TableAssumption DEF Sound, Counters
  <2>3. NoTask.mm = 0
    BY DEF NoTask
  <2> QED
    BY <1>1, <2>2, <2>3 DEF Space
<1>7. CASE others[l] = NoInfo /\ info' = others /\ UNCHANGED <<keys, images, loads>>
  BY <1>1, <1>2, <1>3, <1>4, <1>5, <1>6, <1>7, Zenon DEF Alive
<1>8. CASE Remade(l, t, others[l], {}, {}, others)
  <2>1. Remade(p, t, info[p], {}, {}, others)
    BY <1>2, <1>5, <1>8
  <2>2. \A q \in Pid : others[q] = NoInfo \/ others[q] = info[q]
    BY <1>3
  <2>3. t.mm \in Space
    BY <1>1, <1>6
  <2>4. /\ \A q \in Pid : q # p => info'[q] = others[q]
        /\ \E x \in InfoType, u \in SUBSET Key, m \in SUBSET (1 .. MaxImage), n \in 0 .. MaxImage :
              Stored(p, t.mm, x, u, m, n) /\ Afresh(p, t, info[p], {}, {}, x, u, m, n)
    BY <2>1, <2>2, <2>3, RemadeIs, Zenon
  <2>5. \E x \in InfoType, u \in SUBSET Key, m \in SUBSET (1 .. MaxImage), n \in 0 .. MaxImage :
          /\ Stored(p, spaces + 1, x, u, m, n)
          /\ Afresh(p, task'[p], info[p], {}, {}, x, u, m, n)
    BY <1>1, <1>4, <2>4, Zenon
  <2>6. \A q \in Pid : q # p =>
          IF Alive(q) /\ task[q].leader = p THEN task'[q] = NoTask /\ info'[q] = NoInfo
                                            ELSE task'[q] = task[q] /\ info'[q] = info[q]
    BY <1>3, <1>4, <2>4, Zenon
  <2>7. /\ Alive(p) /\ task[p].leader = p /\ spaces' = spaces + 1
        /\ Alive(p)' /\ task'[p].leader = p /\ task'[p].mm = spaces + 1
        /\ task'[p].born = task[p].born /\ task'[p].call = "ran"
    BY <1>1, <1>2, <1>4, <1>6 DEF Alive
  <2> QED
    BY <1>2, <1>6, <2>5, <2>6, <2>7, Zenon
<1> QED
  BY <1>1, <1>7, <1>8, Zenon

(* An execve that fails changes nobody else.                               *)
LEMMA ExecFailStep ==
  ASSUME Sound, NEW p \in Pid, ExecFail(p)
  PROVE  /\ Alive(p) /\ odd' = odd \cup {"exec_failed"} /\ UNCHANGED <<task, births, spaces>>
         /\ \A q \in Pid : q # p => info'[q] = info[q]
         /\ \/ UNCHANGED <<info, keys, images, loads>>
            \/ \E x \in InfoType, u \in SUBSET Key, m \in SUBSET (1 .. MaxImage), n \in 0 .. MaxImage :
                 /\ Stored(p, task[p].mm, x, u, m, n)
                 /\ Afresh(p, task[p], info[p], keys[task[p].mm], images[task[p].mm], x, u, m, n)
<1>1. /\ Alive(p) /\ odd' = odd \cup {"exec_failed"} /\ UNCHANGED <<task, births, spaces>>
      /\ \/ Remade(p, task[p], info[p], keys[task[p].mm], images[task[p].mm], info)
         \/ UNCHANGED <<info, keys, images, loads>>
  BY ExecFailRemakes
<1>2. task[p] \in TaskType /\ task[p].mm \in Space /\ info \in [Pid -> InfoType]
  BY <1>1, Typed
<1>3. CASE Remade(p, task[p], info[p], keys[task[p].mm], images[task[p].mm], info)
  <2>1. /\ \A q \in Pid : q # p => info'[q] = info[q]
        /\ \E x \in InfoType, u \in SUBSET Key, m \in SUBSET (1 .. MaxImage), n \in 0 .. MaxImage :
             /\ Stored(p, task[p].mm, x, u, m, n)
             /\ Afresh(p, task[p], info[p], keys[task[p].mm], images[task[p].mm], x, u, m, n)
    BY <1>2, <1>3, RemadeIs
  <2> QED
    BY <1>1, <2>1
<1> QED
  BY <1>1, <1>3, Zenon

------------------------------------------------------------------------------
(* Stacks.  Images are numbered as they are loaded.                        *)
Stacks ==
  /\ \A p \in Pid : info[p].stack <= loads
  /\ \A s \in Space : \A k \in images[s] : k <= loads

(* In one step at most one pid gets another stack, that of the image that  *)
(* is loaded in the step, and no other image comes to an address space     *)
(* than those there are.                                                   *)
Grows ==
  /\ loads' = loads \/ loads' = loads + 1
  /\ \A s \in Space : \A k \in images'[s] :
       (\E z \in Space : k \in images[z]) \/ (k = loads + 1 /\ loads' = loads + 1)

Moves(z) ==
  /\ \A q \in Pid : q # z => info'[q].stack = 0 \/ info'[q].stack = info[q].stack
  /\ \/ info'[z].stack = 0 \/ info'[z].stack = info[z].stack
     \/ info'[z].stack = loads + 1 /\ loads' = loads + 1

(* A probe changes one address space, to which it loads one image at most. *)
LEMMA StoreGrows ==
  ASSUME NEW s \in Space, \A z \in Space : z # s => images'[z] = images[z],
         \/ loads' = loads /\ images'[s] \subseteq images[s]
         \/ loads' = loads + 1 /\ images'[s] \subseteq images[s] \cup {loads + 1}
  PROVE  Grows
<1>1. \A z \in Space : z # s => \A k \in images'[z] : k \in images[z]
  OBVIOUS
<1>2. \A k \in images'[s] : k \in images[s] \/ (k = loads + 1 /\ loads' = loads + 1)
  OBVIOUS
<1> QED
  BY <1>1, <1>2 DEF Grows

LEMMA StackMoves ==
  ASSUME Sound, [Next]_vars
  PROVE  UNCHANGED <<info, images, loads>> \/ (Grows /\ \E z \in Pid : Moves(z))
<1>0. CASE UNCHANGED vars
  BY <1>0 DEF vars
<1>1. ASSUME NEW p \in Pid, NEW c \in Pid, NEW b \in Birth, Fork(p, c, b)
      PROVE  Grows /\ \E z \in Pid : Moves(z)
  BY <1>1, ForkStep, Zenon DEF Grows, Moves
<1>2. ASSUME NEW p \in Pid, CloneReturns(p) \/ Syscall(p) PROVE Grows /\ Moves(p)
  <2>1. /\ Alive(p) /\ (\A q \in Pid : q # p => info'[q] = info[q])
        /\ \/ UNCHANGED <<info, images, loads>>
           \/ \E x, u, m, n : Stored(p, task[p].mm, x, u, m, n) /\ Amended(p, x, u, m, n)
    BY <1>2, CallStep, Zenon
  <2>2. task[p].mm \in Space
    BY <2>1, Typed
  <2>3. CASE UNCHANGED <<info, images, loads>>
    BY <2>3 DEF Grows, Moves
  <2>4. ASSUME NEW x, NEW u, NEW m, NEW n, Stored(p, task[p].mm, x, u, m, n), Amended(p, x, u, m, n)
        PROVE  Grows /\ Moves(p)
    <3>1. \/ n = loads /\ m = images[task[p].mm] /\ x.stack = info[p].stack
          \/ n = loads + 1 /\ m = images[task[p].mm] \cup {loads + 1} /\ x.stack = loads + 1
      BY <2>4 DEF Amended, Placed
    <3>s. PICK s : s = task[p].mm
      OBVIOUS
    <3>2. /\ info'[p] = x /\ images'[s] = m /\ loads' = n /\ s \in Space
          /\ \A z \in Space : z # s => images'[z] = images[z]
      BY <2>2, <2>4, <3>s DEF Stored
    <3>3. Grows
      <4>1. \/ loads' = loads /\ images'[s] \subseteq images[s]
            \/ loads' = loads + 1 /\ images'[s] \subseteq images[s] \cup {loads + 1}
        BY <3>s, <3>1, <3>2
      <4> QED
        BY <3>2, <4>1, StoreGrows
    <3>4. info'[p].stack = info[p].stack \/ (info'[p].stack = loads + 1 /\ loads' = loads + 1)
      BY <3>1, <3>2
    <3> QED
      BY <2>1, <3>3, <3>4 DEF Moves
  <2> QED
    BY <2>1, <2>3, <2>4, Zenon
<1>3. ASSUME NEW p \in Pid, Exec(p) PROVE Grows /\ \E z \in Pid : Moves(z)
  <2>1. PICK t \in TaskType, l \in Pid, gone \in SUBSET Pid, others \in [Pid -> InfoType] :
           /\ spaces + 1 \in 1 .. MaxSpace /\ t.mm = spaces + 1 /\ others = Released(gone)
           /\ \/ Remade(l, t, others[l], {}, {}, others)
              \/ info' = others /\ UNCHANGED <<keys, images, loads>>
    BY <1>3, ExecReplaces
  <2>2. \A q \in Pid : others[q] = NoInfo \/ others[q] = info[q]
    BY <2>1 DEF Released
  <2>3. \A q \in Pid : others[q].stack = 0 \/ others[q].stack = info[q].stack
    BY <2>2 DEF NoInfo
  <2>4. CASE info' = others /\ UNCHANGED <<keys, images, loads>>
    BY <2>3, <2>4 DEF Grows, Moves
  <2>5. CASE Remade(l, t, others[l], {}, {}, others)
    <3>1. t.mm \in Space
      BY <2>1 DEF Space
    <3>2. /\ \A q \in Pid : q # l => info'[q] = others[q]
          /\ \E x, u, m, n : Stored(l, t.mm, x, u, m, n) /\ Afresh(l, t, others[l], {}, {}, x, u, m, n)
      BY <2>2, <2>5, <3>1, RemadeIs, Zenon
    <3>3. PICK x, u, m, n : Stored(l, t.mm, x, u, m, n) /\ Afresh(l, t, others[l], {}, {}, x, u, m, n)
      BY <3>2
    <3>4. \/ n = loads /\ m = {} /\ x.stack = others[l].stack
          \/ n = loads + 1 /\ m = {} \cup {loads + 1} /\ x.stack = loads + 1
      BY <3>3 DEF Afresh
    <3>s. PICK s : s = t.mm
      OBVIOUS
    <3>5. /\ info'[l] = x /\ images'[s] = m /\ loads' = n /\ s \in Space
          /\ \A z \in Space : z # s => images'[z] = images[z]
      BY <3>1, <3>3, <3>s DEF Stored
    <3>6. Grows
      <4>1. \/ loads' = loads /\ images'[s] \subseteq images[s]
            \/ loads' = loads + 1 /\ images'[s] \subseteq images[s] \cup {loads + 1}
        BY <3>4, <3>5
      <4> QED
        BY <3>5, <4>1, StoreGrows
    <3>8. info'[l].stack = others[l].stack \/ (info'[l].stack = loads + 1 /\ loads' = loads + 1)
      BY <3>4, <3>5
    <3>7. Moves(l)
      BY <2>3, <3>2, <3>8 DEF Moves
    <3> QED
      BY <3>6, <3>7
  <2> QED
    BY <2>1, <2>4, <2>5
<1>4. ASSUME NEW p \in Pid, ExecFail(p) PROVE Grows /\ Moves(p)
  <2>1. /\ Alive(p) /\ (\A q \in Pid : q # p => info'[q] = info[q])
        /\ \/ UNCHANGED <<info, images, loads>>
           \/ \E x, u, m, n :
                /\ Stored(p, task[p].mm, x, u, m, n)
                /\ Afresh(p, task[p], info[p], keys[task[p].mm], images[task[p].mm], x, u, m, n)
    BY <1>4, ExecFailStep
  <2>2. task[p].mm \in Space
    BY <2>1, Typed
  <2>3. CASE UNCHANGED <<info, images, loads>>
    BY <2>3 DEF Grows, Moves
  <2>4. ASSUME NEW x, NEW u, NEW m, NEW n, Stored(p, task[p].mm, x, u, m, n),
               Afresh(p, task[p], info[p], keys[task[p].mm], images[task[p].mm], x, u, m, n)
        PROVE  Grows /\ Moves(p)
    <3>1. \/ n = loads /\ m = images[task[p].mm] /\ x.stack = info[p].stack
          \/ n = loads + 1 /\ m = images[task[p].mm] \cup {loads + 1} /\ x.stack = loads + 1
      BY <2>4, Zenon DEF Afresh
    <3>s. PICK s : s = task[p].mm
      OBVIOUS
    <3>2. /\ info'[p] = x /\ images'[s] = m /\ loads' = n /\ s \in Space
          /\ \A z \in Space : z # s => images'[z] = images[z]
      BY <2>2, <2>4, <3>s DEF Stored
    <3>3. Grows
      <4>1. \/ loads' = loads /\ images'[s] \subseteq images[s]
            \/ loads' = loads + 1 /\ images'[s] \subseteq images[s] \cup {loads + 1}
        BY <3>s, <3>1, <3>2
      <4> QED
        BY <3>2, <4>1, StoreGrows
    <3>4. info'[p].stack = info[p].stack \/ (info'[p].stack = loads + 1 /\ loads' = loads + 1)
      BY <3>1, <3>2
    <3> QED
      BY <2>1, <3>3, <3>4, Zenon DEF Moves
  <2> QED
    BY <2>1, <2>3, <2>4
<1>5. ASSUME NEW p \in Pid, Exit(p) \/ ExitMissed(p) PROVE Grows /\ Moves(p)
  <2>1. UNCHANGED <<images, loads>> /\ (info' = info \/ info' = Released({p}))
    BY <1>5 DEF Exit, ExitMissed
  <2>2. \A q \in Pid : info'[q].stack = 0 \/ info'[q].stack = info[q].stack
    BY <2>1 DEF Released, NoInfo
  <2>3. Grows
    BY <2>1 DEF Grows
  <2> QED
    BY <2>2, <2>3 DEF Moves
<1> QED
  BY <1>0, <1>1, <1>2, <1>3, <1>4, <1>5 DEF Next

(* The stack of a thread is one that was loaded, and no other pid has it.  *)
LEMMA StackStep ==
  ASSUME Sound, Stacks, StackExclusive, [Next]_vars
  PROVE  Stacks' /\ StackExclusive'
<1>0. CASE UNCHANGED <<info, images, loads>>
  BY <1>0 DEF Stacks, StackExclusive
<1>1. ASSUME Grows, NEW z \in Pid, Moves(z) PROVE Stacks' /\ StackExclusive'
  <2>1. /\ loads \in Nat /\ \A q \in Pid : info[q].stack \in Nat /\ info[q].stack <= loads
    <3>1. info \in [Pid -> InfoType] /\ loads \in 0 .. MaxImage
      BY DEF Sound, TypeOK, InfoType, Counters
    <3>2. \A q \in Pid : info[q].stack \in 0 .. MaxImage
      BY <3>1 DEF InfoType
    <3> QED
      BY <3>1, <3>2, TableAssumption DEF Stacks
  <2>2. /\ loads' = loads \/ loads' = loads + 1
        /\ \A q \in Pid : q # z => info'[q].stack = 0 \/ info'[q].stack = info[q].stack
        /\ \/ info'[z].stack = 0 \/ info'[z].stack = info[z].stack
           \/ info'[z].stack = loads + 1 /\ loads' = loads + 1
    BY <1>1 DEF Grows, Moves
  <2>3. \A q \in Pid : info'[q].stack <= loads'
    <3> TAKE q \in Pid
    <3>1. \/ info'[q].stack = 0 \/ info'[q].stack = info[q].stack
          \/ info'[q].stack = loads + 1 /\ loads' = loads + 1
      BY <2>2
    <3> QED
      BY <2>1, <2>2, <3>1
  <2>4. \A s \in Space : \A k \in images'[s] : k <= loads'
    <3> TAKE s \in Space
    <3> TAKE k \in images'[s]
    <3>1. (\E y \in Space : k \in images[y]) \/ (k = loads + 1 /\ loads' = loads + 1)
      BY <1>1 DEF Grows
    <3>2. CASE k = loads + 1 /\ loads' = loads + 1
      BY <2>1, <3>2
    <3>3. ASSUME NEW y \in Space, k \in images[y] PROVE k <= loads'
      <4>1. images[y] \subseteq 1 .. MaxImage
        BY DEF Sound, TypeOK
      <4>2. k <= loads /\ k \in Nat
        BY <3>3, <4>1, TableAssumption DEF Stacks
      <4> QED
        BY <2>1, <2>2, <4>2
    <3> QED
      BY <3>1, <3>2, <3>3
  <2>5. StackExclusive'
    <3> SUFFICES ASSUME NEW p \in Pid, NEW q \in Pid, p # q, info'[p].stack # 0,
                        info'[p].stack = info'[q].stack
                 PROVE  FALSE
      BY DEF StackExclusive
    <3>1. CASE p # z /\ q # z
      BY <2>2, <3>1 DEF StackExclusive
    <3>2. CASE p = z
      BY <2>1, <2>2, <3>2 DEF StackExclusive
    <3>3. CASE q = z
      BY <2>1, <2>2, <3>3 DEF StackExclusive
    <3> QED
      BY <3>1, <3>2, <3>3
  <2> QED
    BY <2>3, <2>4, <2>5 DEF Stacks
<1> QED
  BY <1>0, <1>1, StackMoves

LEMMA StackInit == Init => Stacks /\ StackExclusive
<1> SUFFICES ASSUME Init PROVE Stacks /\ StackExclusive
  OBVIOUS
<1>1. info = [q \in Pid |-> NoInfo] /\ images = [s \in Space |-> {}] /\ loads = 0
  BY DEF Init
<1>2. \A q \in Pid : info[q].stack = 0
  BY <1>1, Zenon DEF NoInfo
<1> QED
  BY <1>1, <1>2 DEF Stacks, StackExclusive

(* No two threads ever run the monitor on the same stack, whatever a       *)
(* thread took from its group leader (nod_copy_procinfo leaves the stack   *)
(* out), after a failed execve, an exit nobody saw, or with a pid used     *)
(* again: for any number of pids.                                          *)
THEOREM StacksAreExclusive == Spec => []StackExclusive
<1>1. Sound /\ Stacks /\ StackExclusive /\ [Next]_vars => Sound' /\ Stacks' /\ StackExclusive'
  BY SoundStep, StackStep
<1> QED
  BY <1>1, SoundInit, StackInit, PTL DEF Spec

------------------------------------------------------------------------------
(* A pid without a task has no nod_proc_info: the exit of every thread was *)
(* seen, and no execve left one behind under the pid it was called with.   *)
Buried == odd \subseteq {"exec_failed"} => \A p \in Pid : ~Alive(p) => ~Has(p)

OwnInv == Buried /\ InfoIsOwn /\ EntryIsMapped

(* What a live thread finds under its pid.                                 *)
OwnAt(p) ==
  Has(p) => /\ info[p].born = task[p].born /\ info[p].mm = task[p].mm
            /\ info[p].entry # 0 => info[p].entry \in images[task[p].mm]

LEMMA OwnIs == OwnInv <=> (odd \subseteq {"exec_failed"} =>
                             \A p \in Pid : IF Alive(p) THEN OwnAt(p) ELSE ~Has(p))
  BY DEF OwnInv, Buried, InfoIsOwn, EntryIsMapped, OwnAt, Live

(* The entry of the group leader is one of the address space.              *)
LEMMA LeadersEntry ==
  ASSUME Sound, OwnInv, odd \subseteq {"exec_failed"}, NEW p \in Pid, Alive(p),
         NEW e, Has(task[p].leader), e = info[task[p].leader].entry
  PROVE  e # 0 => e \in images[task[p].mm]
<1>1. task[p].leader \in Pid
  BY Typed
<1>2. Alive(task[p].leader)
  BY <1>1 DEF OwnInv, Buried
<1>3. task[task[p].leader].mm = task[p].mm
  BY <1>2 DEF Sound, Kin
<1> QED
  BY <1>1, <1>2, <1>3 DEF OwnInv, EntryIsMapped, Live

(* A live thread that a step leaves alone keeps what it has, as long as    *)
(* its address space loses no image.                                       *)
LEMMA OwnKept ==
  ASSUME NEW q \in Pid, OwnAt(q), info'[q] = info[q], task'[q].born = task[q].born,
         task'[q].mm = task[q].mm, images[task[q].mm] \subseteq images'[task[q].mm]
  PROVE  OwnAt(q)'
  BY DEF OwnAt, Has

LEMMA OwnStep ==
  ASSUME Sound, OwnInv, [Next]_vars
  PROVE  OwnInv'
<1> SUFFICES ASSUME odd' \subseteq {"exec_failed"}
             PROVE  \A q \in Pid : IF Alive(q)' THEN OwnAt(q)' ELSE ~Has(q)'
  BY DEF OwnInv, Buried, InfoIsOwn, EntryIsMapped, OwnAt, Live
<1>odd. odd \subseteq {"exec_failed"}
  BY OddGrows, Zenon
<1>ih. \A q \in Pid : IF Alive(q) THEN OwnAt(q) ELSE ~Has(q)
  BY <1>odd, OwnIs
<1>0. CASE UNCHANGED vars
  BY <1>0, <1>ih DEF vars, Alive, Has, OwnAt
<1>1. ASSUME NEW p \in Pid, NEW c \in Pid, NEW b \in Birth, Fork(p, c, b), NEW q \in Pid
      PROVE  IF Alive(q)' THEN OwnAt(q)' ELSE ~Has(q)'
  <2>1. /\ ~Alive(c) /\ info' = info /\ (\A z \in Pid : z # c => task'[z] = task[z])
        /\ \A z \in 1 .. spaces : images'[z] = images[z]
    <3>0. Fork(p, c, b)
      BY <1>1
    <3>1. /\ ~Alive(c) /\ task[p].mm \in Space /\ UNCHANGED <<info, odd, loads>>
          /\ \A z \in Pid : task[z].leader # c /\ (z # c => task'[z] = task[z])
          /\ \A z \in 1 .. spaces : keys'[z] = keys[z] /\ images'[z] = images[z]
          /\ \A z \in Space : images'[z] = images[z] \/ images'[z] = images[task[p].mm]
      BY <3>0, ForkStep, Zenon
    <3> QED
      BY <3>1
  <2>2. CASE q = c
    <3>1. ~Has(q)'
      BY <1>ih, <2>1, <2>2 DEF Has
    <3>2. Has(q)' \/ OwnAt(q)'
      BY DEF OwnAt
    <3> QED
      BY <3>1, <3>2
  <2>3. CASE q # c /\ Alive(q)
    <3>1. images'[task[q].mm] = images[task[q].mm]
      BY <2>1, <2>3 DEF Sound, Kin
    <3>2. OwnAt(q)'
      BY <1>ih, <2>1, <2>3, <3>1, OwnKept
    <3>3. Alive(q)'
      BY <2>1, <2>3 DEF Alive
    <3> QED
      BY <3>2, <3>3
  <2>4. CASE q # c /\ ~Alive(q)
    BY <1>ih, <2>1, <2>4 DEF Alive, Has
  <2> QED
    BY <2>2, <2>3, <2>4
<1>2. ASSUME NEW p \in Pid, CloneReturns(p) \/ Syscall(p), NEW q \in Pid
      PROVE  IF Alive(q)' THEN OwnAt(q)' ELSE ~Has(q)'
  <2>1. /\ Alive(p) /\ (Alive(q)' <=> Alive(q)) /\ task'[q].mm = task[q].mm
        /\ task'[q].born = task[q].born /\ (q # p => info'[q] = info[q])
        /\ \/ UNCHANGED <<info, images>>
           \/ \E x, u, m, n : Stored(p, task[p].mm, x, u, m, n) /\ Amended(p, x, u, m, n)
    BY <1>2, CallStep, Zenon
  <2>2. CASE ~Alive(q)
    <3>1. info'[q] = NoInfo
      BY <1>ih, <2>1, <2>2, Zenon DEF Has
    <3> QED
      BY <2>1, <2>2, <3>1, Zenon DEF Has
  <2>3. CASE Alive(q) /\ UNCHANGED <<info, images>>
    BY <1>ih, <2>1, <2>3, OwnKept, Zenon
  <2>4. ASSUME Alive(q), NEW x, NEW u, NEW m, NEW n, Stored(p, task[p].mm, x, u, m, n),
               Amended(p, x, u, m, n)
        PROVE  OwnAt(q)'
    <3>s. PICK s : s = task[p].mm
      OBVIOUS
    <3>a. Owned(p, x) /\ Placed(p, x, m, n)
      BY <2>4 DEF Amended
    <3>1. /\ info'[p] = x /\ images'[s] = m /\ s \in Space
          /\ \A z \in Space : z # s => images'[z] = images[z]
      BY <2>1, <2>4, <3>s, Typed, Zenon DEF Stored
    <3>2. images[s] \subseteq m
      BY <3>a, <3>s DEF Placed
    <3>3. task[q].mm \in Space
      BY <2>4, Typed
    <3>4. images[task[q].mm] \subseteq images'[task[q].mm]
      BY <3>1, <3>2, <3>3
    <3>5. CASE q # p
      BY <1>ih, <2>1, <2>4, <3>4, <3>5, OwnKept, Zenon
    <3>6. CASE q = p
      <4>1. x.born = task[p].born /\ x.mm = task[p].mm
        BY <1>ih, <2>1, <3>a, Zenon DEF Owned, OwnAt
      <4>2. x.entry # 0 => x.entry \in m
        <5>1. CASE x.entry = info[p].entry
          <6>1. Has(p) => (info[p].entry # 0 => info[p].entry \in images[s])
            BY <1>ih, <2>1, <3>s, Zenon DEF OwnAt
          <6>2. ~Has(p) => info[p].entry = 0
            BY BlankFields, Zenon DEF Has
          <6> QED
            BY <3>2, <5>1, <6>1, <6>2
        <5>2. CASE Leads(p) /\ x.entry = info[task[p].leader].entry
          <6>1. Has(task[p].leader) /\ x.entry = info[task[p].leader].entry
            BY <5>2 DEF Leads
          <6>2. x.entry # 0 => x.entry \in images[task[p].mm]
            BY <1>odd, <2>1, <6>1, LeadersEntry, Zenon
          <6> QED
            BY <3>s, <3>2, <6>2
        <5>3. CASE m = images[s] \cup {loads + 1} /\ x.entry = loads + 1
          BY <5>3
        <5> QED
          BY <3>a, <3>s, <5>1, <5>2, <5>3, Zenon DEF Placed
      <4> QED
        BY <2>1, <3>s, <3>1, <3>6, <4>1, <4>2, Zenon DEF OwnAt
    <3> QED
      BY <3>5, <3>6
  <2> QED
    BY <2>1, <2>2, <2>3, <2>4, Zenon
<1>3. ASSUME NEW p \in Pid, Exec(p), NEW q \in Pid
      PROVE  IF Alive(q)' THEN OwnAt(q)' ELSE ~Has(q)'
  <2>1. /\ Alive(p) /\ spaces + 1 \in Space /\ Alive(p)'
        /\ task'[p].leader = p /\ task'[p].mm = spaces + 1 /\ task'[p].born = task[p].born
        /\ \/ info'[p] = NoInfo /\ UNCHANGED <<keys, images, loads>>
           \/ \E x, u, m, n : /\ Stored(p, spaces + 1, x, u, m, n)
                              /\ Afresh(p, task'[p], info[p], {}, {}, x, u, m, n)
    BY <1>3, ExecStep, Zenon
  <2>q. q # p => \/ task'[q] = NoTask /\ info'[q] = NoInfo
                 \/ task'[q] = task[q] /\ info'[q] = info[q]
    <3>1. \A z \in Pid : z # p =>
            IF Alive(z) /\ task[z].leader = p
            THEN task'[z] = NoTask /\ info'[z] = NoInfo
            ELSE task'[z] = task[z] /\ info'[z] = info[z]
      BY <1>3, ExecStep, Zenon
    <3> QED
      BY <3>1
  <2>2. \A z \in 1 .. spaces : z \in Space /\ z # spaces + 1 /\ images'[z] = images[z]
    <3>1. \A z \in 1 .. spaces : z \in Space /\ z # spaces + 1
      BY TableAssumption DEF Sound, Counters, Space
    <3> QED
      BY <2>1, <3>1, Zenon DEF Stored
  <2>3. CASE q # p /\ task'[q] = NoTask /\ info'[q] = NoInfo
    BY <2>3 DEF Alive, Has
  <2>4. CASE q # p /\ task'[q] = task[q] /\ info'[q] = info[q]
    <3>1. CASE ~Alive(q)
      BY <1>ih, <2>4, <3>1 DEF Alive, Has
    <3>2. CASE Alive(q)
      <4>1. images'[task[q].mm] = images[task[q].mm]
        BY <2>2, <3>2 DEF Sound, Kin
      <4>2. OwnAt(q)'
        BY <1>ih, <2>4, <3>2, <4>1, OwnKept
      <4>3. Alive(q)'
        BY <2>4, <3>2 DEF Alive
      <4> QED
        BY <4>2, <4>3
    <3> QED
      BY <3>1, <3>2
  <2>5. CASE q = p
    <3>1. CASE info'[p] = NoInfo
      BY <2>1, <2>5, <3>1, Zenon DEF OwnAt, Has
    <3>2. ASSUME NEW x, NEW u, NEW m, NEW n, Stored(p, spaces + 1, x, u, m, n),
                 Afresh(p, task'[p], info[p], {}, {}, x, u, m, n)
          PROVE  OwnAt(p)'
      <4>1. info'[p] = x /\ images'[spaces + 1] = m
        BY <3>2 DEF Stored
      <4>2. /\ x.mm = spaces + 1 /\ x.born = task'[p].born
            /\ x.entry = 0 \/ (m = {} \cup {loads + 1} /\ x.entry = loads + 1)
        BY <2>1, <3>2, Zenon DEF Afresh
      <4> QED
        BY <2>1, <4>1, <4>2, Zenon DEF OwnAt
    <3> QED
      BY <2>1, <2>5, <3>1, <3>2, Zenon
  <2> QED
    BY <2>q, <2>3, <2>4, <2>5, Zenon
<1>4. ASSUME NEW p \in Pid, ExecFail(p), NEW q \in Pid
      PROVE  IF Alive(q)' THEN OwnAt(q)' ELSE ~Has(q)'
  <2>1. /\ Alive(p) /\ task' = task /\ (q # p => info'[q] = info[q])
        /\ \/ UNCHANGED <<info, images>>
           \/ \E x, u, m, n :
                /\ Stored(p, task[p].mm, x, u, m, n)
                /\ Afresh(p, task[p], info[p], keys[task[p].mm], images[task[p].mm], x, u, m, n)
    BY <1>4, ExecFailStep
  <2>2. CASE ~Alive(q)
    BY <1>ih, <2>1, <2>2, Zenon DEF Alive, Has
  <2>3. CASE Alive(q) /\ UNCHANGED <<info, images>>
    BY <1>ih, <2>1, <2>3, Zenon DEF Alive, Has, OwnAt
  <2>4. ASSUME Alive(q), NEW x, NEW u, NEW m, NEW n, Stored(p, task[p].mm, x, u, m, n),
               Afresh(p, task[p], info[p], keys[task[p].mm], images[task[p].mm], x, u, m, n)
        PROVE  OwnAt(q)' /\ Alive(q)'
    <3>s. PICK s : s = task[p].mm
      OBVIOUS
    <3>1. /\ info'[p] = x /\ images'[s] = m /\ s \in Space
          /\ \A z \in Space : z # s => images'[z] = images[z]
      BY <2>1, <2>4, <3>s, Typed, Zenon DEF Stored
    <3>2. /\ images[s] \subseteq m /\ x.mm = s /\ x.born = task[p].born
          /\ \/ x.entry = 0
             \/ Has(task[p].leader) /\ x.entry = info[task[p].leader].entry
             \/ m = images[s] \cup {loads + 1} /\ x.entry = loads + 1
      BY <2>4, <3>s, Zenon DEF Afresh
    <3>3. task[q].mm \in Space /\ Alive(q)'
      BY <2>1, <2>4, Typed, Zenon DEF Alive
    <3>4. images[task[q].mm] \subseteq images'[task[q].mm]
      BY <3>1, <3>2, <3>3, Zenon
    <3>5. CASE q # p
      <4>1. OwnAt(q)'
        BY <1>ih, <2>1, <2>4, <3>4, <3>5, OwnKept, Zenon
      <4> QED
        BY <3>3, <4>1
    <3>6. CASE q = p
      <4>1. Has(task[p].leader) /\ x.entry = info[task[p].leader].entry =>
              (x.entry # 0 => x.entry \in images[task[p].mm])
        BY <1>odd, <2>1, LeadersEntry, Zenon
      <4>2. x.entry # 0 => x.entry \in m
        BY <3>s, <3>2, <4>1
      <4> QED
        BY <2>1, <3>s, <3>1, <3>2, <3>3, <3>6, <4>2, Zenon DEF OwnAt
    <3> QED
      BY <3>5, <3>6
  <2> QED
    BY <2>1, <2>2, <2>3, <2>4, Zenon
<1>5. ASSUME NEW p \in Pid, Exit(p) \/ ExitMissed(p), NEW q \in Pid
      PROVE  IF Alive(q)' THEN OwnAt(q)' ELSE ~Has(q)'
  <2>1. /\ task' = [task EXCEPT ![p] = NoTask] /\ images' = images /\ info' = Released({p})
    <3>1. CASE Exit(p)
      BY <3>1 DEF Exit
    <3>2. CASE ExitMissed(p)
      <4>1. "missed_exit" \in odd'
        BY <3>2 DEF ExitMissed
      <4> QED
        BY <4>1
    <3> QED
      BY <1>5, <3>1, <3>2
  <2>2. /\ task'[p] = NoTask /\ info'[p] = NoInfo
        /\ q # p => task'[q] = task[q] /\ info'[q] = info[q]
    <3>1. DOMAIN task = Pid
      BY DEF Sound, TypeOK
    <3> QED
      BY <2>1, <3>1 DEF Released
  <2> QED
    BY <1>ih, <2>1, <2>2 DEF Alive, Has, OwnAt
<1> QED
  BY <1>0, <1>1, <1>2, <1>3, <1>4, <1>5 DEF Next

LEMMA OwnInit == Init => OwnInv
  BY DEF Init, OwnInv, Buried, InfoIsOwn, EntryIsMapped, Live, Has

(* As long as every exit is seen and only group leaders call execve, the   *)
(* nod_proc_info that __find_proc_info returns for a thread was made for   *)
(* it, and in the address space it is in.                                  *)
THEOREM InfoIsTheThreads == Spec => []InfoIsOwn
<1>1. OwnInv => InfoIsOwn
  BY DEF OwnInv
<1>2. Sound /\ OwnInv /\ [Next]_vars => Sound' /\ OwnInv'
  BY SoundStep, OwnStep
<1> QED
  BY <1>1, <1>2, SoundInit, OwnInit, PTL DEF Spec

(* On the same condition, an entry address that keeps nod_load_monitor     *)
(* from loading the monitor is one at which the address space has it.      *)
THEOREM EntriesAreMapped == Spec => []EntryIsMapped
<1>1. OwnInv => EntryIsMapped
  BY DEF OwnInv
<1>2. Sound /\ OwnInv /\ [Next]_vars => Sound' /\ OwnInv'
  BY SoundStep, OwnStep
<1> QED
  BY <1>1, <1>2, SoundInit, OwnInit, PTL DEF Spec

------------------------------------------------------------------------------
(* Two threads of an address space that use the same key are of one        *)
(* process, and its group leader, while it lives, uses this key: a thread  *)
(* that takes the leader's key and frees its own takes it from nobody.     *)
SameKey(p, q) ==
  p # q /\ task[p].mm = task[q].mm /\ info[p].key = info[q].key /\ info[p].key # 0

KeyKin ==
  odd = {} => \A p, q \in Pid : Live(p) /\ Live(q) /\ SameKey(p, q) =>
    /\ task[p].leader = task[q].leader
    /\ Alive(task[p].leader) => /\ Has(task[p].leader)
                                /\ info[task[p].leader].key = info[p].key

KeyInv == KeyAllocated /\ KeyKin

(* What is to be shown of a state in which nothing unusual happened.       *)
KeyAt(p) == Live(p) /\ info[p].key # 0 => info[p].key \in keys[task[p].mm]

KinAt(p, q) ==
  Live(p) /\ Live(q) /\ SameKey(p, q) =>
    /\ task[p].leader = task[q].leader
    /\ Alive(task[p].leader) => /\ Has(task[p].leader)
                                /\ info[task[p].leader].key = info[p].key

LEMMA KeyIs ==
  KeyInv <=> (odd = {} => /\ \A p \in Pid : KeyAt(p)
                          /\ \A p, q \in Pid : KinAt(p, q))
  BY DEF KeyInv, KeyAllocated, KeyKin, KeyAt, KinAt

(* A pair that a step leaves alone, with its leader.                       *)
LEMMA KinKept ==
  ASSUME NEW p \in Pid, NEW q \in Pid, KinAt(p, q), Live(p), Live(q),
         task'[p].leader = task[p].leader, task'[q].leader = task[q].leader,
         task'[p].mm = task[p].mm, task'[q].mm = task[q].mm,
         info'[p].key = info[p].key, info'[q].key = info[q].key,
         NEW l, l = task[p].leader,
         task'[l] # NoTask => Alive(l) /\ (Has(l) => info'[l] = info[l])
  PROVE  KinAt(p, q)'
<1> SUFFICES ASSUME SameKey(p, q)'
             PROVE  /\ task'[p].leader = task'[q].leader
                    /\ (task'[task'[p].leader] # NoTask) =>
                         /\ info'[task'[p].leader] # NoInfo
                         /\ info'[task'[p].leader].key = info'[p].key
  BY Zenon DEF KinAt, Alive, Has
<1>1. SameKey(p, q)
  BY Zenon DEF SameKey
<1>3. task[q].leader = l /\ (task[l] # NoTask => info[l] # NoInfo /\ info[l].key = info[p].key)
  BY <1>1 DEF KinAt, Alive, Has
<1>4. task'[l] # NoTask => task[l] # NoTask /\ (info[l] # NoInfo => info'[l] = info[l])
  BY DEF Alive, Has
<1> QED
  BY <1>3, <1>4, Zenon

(* A system call of p, by where its key comes from.                        *)
LEMMA KeyCall ==
  ASSUME Sound, OwnInv, KeyInv, odd = {}, NEW p \in Pid, CloneReturns(p) \/ Syscall(p),
         NEW x, NEW u, NEW m, NEW n, Stored(p, task[p].mm, x, u, m, n), Amended(p, x, u, m, n)
  PROVE  (\A a \in Pid : KeyAt(a)') /\ (\A a, b \in Pid : KinAt(a, b)')
<1>s. PICK s : s = task[p].mm
  OBVIOUS
<1>l. PICK l : l = task[p].leader
  OBVIOUS
<1>ih. (\A a \in Pid : KeyAt(a)) /\ (\A a, b \in Pid : KinAt(a, b))
  BY KeyIs
<1>t. /\ Alive(p)
      /\ \A q \in Pid : /\ Alive(q)' <=> Alive(q)
                        /\ task'[q].leader = task[q].leader /\ task'[q].mm = task[q].mm
                        /\ q # p => info'[q] = info[q]
  BY CallStep, Zenon
<1>u. /\ info'[p] = x /\ keys'[s] = u /\ s \in Space /\ l \in Pid /\ keys[s] \in SUBSET Key
      /\ \A z \in Space : z # s => keys'[z] = keys[z]
  BY <1>s, <1>l, <1>t, Typed, Zenon DEF Stored
<1>kin. \A a \in Pid : Alive(a) =>
          /\ task[a].leader \in Pid /\ task[a].mm \in Space
          /\ Alive(task[a].leader) => /\ task[task[a].leader].leader = task[a].leader
                                      /\ task[task[a].leader].mm = task[a].mm
  BY Typed, Zenon DEF Sound, Kin
<1>dead. \A a \in Pid : Has(a) => Alive(a)
  BY DEF OwnInv, Buried
<1>live. \A a \in Pid : a # p => (Live(a)' <=> Live(a))
  BY <1>t DEF Live, Has
<1>1. CASE Has(p) /\ x.key = info[p].key /\ u = keys[s]
  <2>1. \A a \in Pid : info'[a].key = info[a].key
    BY <1>t, <1>u, <1>1
  <2>2. \A z \in Space : keys'[z] = keys[z]
    BY <1>u, <1>1
  <2>3. \A a \in Pid : Live(a)' => Live(a)
    BY <1>live, <1>1, <1>t, Zenon DEF Live
  <2>4. \A a \in Pid : KeyAt(a)'
    <3> SUFFICES ASSUME NEW a \in Pid, Live(a)', info'[a].key # 0
                 PROVE  info'[a].key \in keys'[task'[a].mm]
      BY Zenon DEF KeyAt
    <3>1. Live(a) /\ Alive(a)
      BY <2>3, Zenon DEF Live
    <3>2. info[a].key \in keys[task[a].mm]
      BY <1>ih, <2>1, <3>1, Zenon DEF KeyAt
    <3>3. task'[a].mm = task[a].mm /\ task[a].mm \in Space
      BY <1>t, <1>kin, <3>1, Zenon
    <3> QED
      BY <2>1, <2>2, <3>2, <3>3, Zenon
  <2>5. ASSUME NEW a \in Pid, NEW b \in Pid PROVE KinAt(a, b)'
    <3> SUFFICES ASSUME Live(a)', Live(b)', SameKey(a, b)'
                 PROVE  /\ task'[a].leader = task'[b].leader
                        /\ (task'[task'[a].leader] # NoTask) =>
                             /\ info'[task'[a].leader] # NoInfo
                             /\ info'[task'[a].leader].key = info'[a].key
      BY Zenon DEF KinAt, Alive, Has
    <3>1. Live(a) /\ Live(b) /\ Alive(a) /\ SameKey(a, b)
      BY <1>t, <2>1, <2>3, Zenon DEF SameKey, Live
    <3>2. PICK k : k = task[a].leader
      OBVIOUS
    <3>3. k \in Pid /\ task[b].leader = k /\ (Alive(k) => Has(k) /\ info[k].key = info[a].key)
      BY <1>ih, <1>kin, <3>1, <3>2, Zenon DEF KinAt
    <3>4. task'[k] # NoTask => Alive(k)
      BY <1>t, <3>3, Zenon DEF Alive
    <3>5. Has(k) => info'[k] # NoInfo
      <4>1. Has(p)'
        <5>1. x.status # "none"
          BY DEF Amended
        <5> QED
          BY <1>u, <5>1, BlankFields DEF Has
      <4> QED
        BY <1>t, <3>3, <4>1, Zenon DEF Has
    <3>6. task'[a].leader = k /\ task'[b].leader = k
      BY <1>t, <3>2, <3>3, Zenon
    <3>7. info'[k].key = info[k].key /\ info'[a].key = info[a].key
      BY <2>1, <3>3, Zenon
    <3> QED
      BY <3>3, <3>4, <3>5, <3>6, <3>7, Zenon
  <2> QED
    BY <2>4, <2>5
<1>2. CASE ~Has(p) /\ (x.key = 0 \/ x.key \in Key \ keys[s]) /\ u = keys[s] \cup ({x.key} \ {0})
  <2>1. \A a \in Pid : KeyAt(a)'
    <3> SUFFICES ASSUME NEW a \in Pid, Live(a)', info'[a].key # 0
                 PROVE  info'[a].key \in keys'[task'[a].mm]
      BY DEF KeyAt
    <3>1. CASE a = p
      BY <1>s, <1>t, <1>u, <1>2, <3>1, Zenon
    <3>2. CASE a # p
      <4>1. Live(a) /\ Alive(a)
        BY <1>live, <3>2, Zenon DEF Live
      <4>2. info[a].key \in keys[task[a].mm] /\ task[a].mm \in Space
        BY <1>t, <1>ih, <1>kin, <3>2, <4>1, Zenon DEF KeyAt
      <4>3. keys[s] \subseteq keys'[s]
        BY <1>u, <1>2, Zenon
      <4> QED
        BY <1>t, <1>u, <3>2, <4>2, <4>3, Zenon
    <3> QED
      BY <3>1, <3>2
  <2>2. ASSUME NEW b \in Pid PROVE KinAt(p, b)'
    <3> SUFFICES ASSUME Live(b)', SameKey(p, b)' PROVE FALSE
      BY Zenon DEF KinAt
    <3>1. b # p /\ task[b].mm = s /\ info[b].key = x.key /\ x.key # 0
      BY <1>s, <1>t, <1>u, Zenon DEF SameKey
    <3>2. Live(b)
      BY <1>live, <3>1
    <3>3. info[b].key \in keys[s]
      BY <1>ih, <3>1, <3>2 DEF KeyAt
    <3> QED
      BY <1>2, <3>1, <3>3
  <2>3. ASSUME NEW a \in Pid, NEW b \in Pid, a # p, b # p PROVE KinAt(a, b)'
    <3> SUFFICES ASSUME Live(a)', Live(b)' PROVE KinAt(a, b)'
      BY Zenon DEF KinAt
    <3>1. Live(a) /\ Live(b) /\ Alive(a)
      BY <1>live, <2>3 DEF Live
    <3>2. PICK k : k = task[a].leader
      OBVIOUS
    <3>3. k \in Pid
      BY <1>kin, <3>1, <3>2, Zenon
    <3>4. task'[k] # NoTask => Alive(k) /\ (Has(k) => info'[k] = info[k])
      BY <1>t, <1>2, <3>3 DEF Alive
    <3>5. info'[a].key = info[a].key /\ info'[b].key = info[b].key
      BY <1>t, <2>3, Zenon
    <3> QED
      BY <1>t, <1>ih, <3>1, <3>2, <3>4, <3>5, KinKept, Zenon
  <2>4. ASSUME NEW a \in Pid PROVE KinAt(a, p)'
    BY <2>2 DEF KinAt, SameKey
  <2> QED
    BY <2>1, <2>2, <2>3, <2>4
<1>3. CASE /\ Has(p) /\ Leads(p) /\ x.key = info[l].key
           /\ u = keys[s] \/ (info[p].key # x.key /\ u = keys[s] \ {info[p].key})
  <2>l. /\ l # p /\ Has(l) /\ Alive(l) /\ Live(l) /\ task[l].leader = l /\ task[l].mm = s
        /\ info'[l] = info[l] /\ Live(p)
    <3>1. l # p /\ Has(l) /\ Alive(l)
      BY <1>l, <1>u, <1>dead, <1>3, Zenon DEF Leads
    <3> QED
      BY <1>s, <1>l, <1>t, <1>u, <1>kin, <1>3, <3>1, Zenon DEF Live
  <2>1. \A a \in Pid : KeyAt(a)'
    <3> SUFFICES ASSUME NEW a \in Pid, Live(a)', info'[a].key # 0
                 PROVE  info'[a].key \in keys'[task'[a].mm]
      BY DEF KeyAt
    <3>1. CASE a = p
      <4>1. info[l].key \in keys[s]
        BY <1>ih, <1>u, <1>3, <2>l, <3>1, Zenon DEF KeyAt
      <4> QED
        BY <1>s, <1>t, <1>u, <1>3, <3>1, <4>1, Zenon
    <3>2. CASE a # p
      <4>1. Live(a) /\ Alive(a) /\ info'[a].key = info[a].key
        BY <1>t, <1>live, <3>2, Zenon DEF Live
      <4>2. info[a].key \in keys[task[a].mm] /\ task[a].mm \in Space
        BY <1>ih, <1>kin, <4>1, Zenon DEF KeyAt
      <4>3. CASE task[a].mm # s
        BY <1>t, <1>u, <4>1, <4>2, <4>3, Zenon
      <4>4. CASE task[a].mm = s /\ u = keys[s]
        BY <1>t, <1>u, <4>1, <4>2, <4>4, Zenon
      <4>5. CASE task[a].mm = s /\ info[p].key # x.key /\ u = keys[s] \ {info[p].key}
        <5>1. info[a].key # info[p].key
          <6> SUFFICES ASSUME info[a].key = info[p].key PROVE FALSE
            OBVIOUS
          <6>1. SameKey(p, a)
            BY <1>s, <3>2, <4>1, <4>5, Zenon DEF SameKey
          <6>2. info[l].key = info[p].key
            BY <1>ih, <1>l, <2>l, <4>1, <6>1, Zenon DEF KinAt
          <6> QED
            BY <1>3, <4>5, <6>2, Zenon
        <5> QED
          BY <1>t, <1>u, <4>1, <4>2, <4>5, <5>1, Zenon
      <4> QED
        BY <1>3, <4>3, <4>4, <4>5, Zenon
    <3> QED
      BY <3>1, <3>2
  <2>2. ASSUME NEW b \in Pid PROVE KinAt(p, b)'
    <3> SUFFICES ASSUME Live(b)', SameKey(p, b)'
                 PROVE  /\ task'[p].leader = task'[b].leader
                        /\ info'[task'[p].leader] # NoInfo
                        /\ info'[task'[p].leader].key = info'[p].key
      BY Zenon DEF KinAt, Has
    <3>1. b # p /\ task[b].mm = s /\ info[b].key = info[l].key /\ info[l].key # 0
      BY <1>s, <1>t, <1>u, <1>3, Zenon DEF SameKey
    <3>2. Live(b)
      BY <1>live, <3>1, Zenon
    <3>3. task[b].leader = l
      <4>1. CASE b = l
        BY <2>l, <4>1, Zenon
      <4>2. CASE b # l
        <5>1. SameKey(l, b)
          BY <2>l, <3>1, <4>2, Zenon DEF SameKey
        <5> QED
          BY <1>ih, <1>u, <2>l, <3>2, <5>1, Zenon DEF KinAt
      <4> QED
        BY <4>1, <4>2
    <3>4. task'[p].leader = l /\ task'[b].leader = l /\ info'[l] # NoInfo /\ info'[l].key = info'[p].key
      BY <1>l, <1>t, <1>u, <1>3, <2>l, <3>3, Zenon DEF Has
    <3> QED
      BY <3>4, Zenon
  <2>3. ASSUME NEW a \in Pid, NEW b \in Pid, a # p, b # p PROVE KinAt(a, b)'
    <3> SUFFICES ASSUME Live(a)', Live(b)' PROVE KinAt(a, b)'
      BY Zenon DEF KinAt
    <3>1. Live(a) /\ Live(b) /\ Alive(a)
      BY <1>live, <2>3 DEF Live
    <3>2. PICK k : k = task[a].leader
      OBVIOUS
    <3>3. k \in Pid /\ k # p
      BY <1>l, <1>t, <1>kin, <2>l, <3>1, <3>2, Zenon
    <3>4. task'[k] # NoTask => Alive(k) /\ (Has(k) => info'[k] = info[k])
      BY <1>t, <3>3, Zenon DEF Alive
    <3>5. info'[a].key = info[a].key /\ info'[b].key = info[b].key
      BY <1>t, <2>3, Zenon
    <3> QED
      BY <1>t, <1>ih, <3>1, <3>2, <3>4, <3>5, KinKept, Zenon
  <2>4. ASSUME NEW a \in Pid PROVE KinAt(a, p)'
    BY <2>2 DEF KinAt, SameKey
  <2> QED
    BY <2>1, <2>2, <2>3, <2>4
<1>4. Keyed(p, x, u)
  BY DEF Amended
<1> QED
  BY <1>s, <1>l, <1>1, <1>2, <1>3, <1>4, Zenon DEF Keyed

(* A thread that a step leaves alone keeps a key that stays allocated.     *)
LEMMA KeyKept ==
  ASSUME NEW a \in Pid, KeyAt(a), Live(a), info'[a] = info[a],
         task'[a].mm = task[a].mm, keys'[task[a].mm] = keys[task[a].mm]
  PROVE  KeyAt(a)'
  BY DEF KeyAt

LEMMA KeyStep ==
  ASSUME Sound, OwnInv, KeyInv, [Next]_vars
  PROVE  KeyInv'
<1> SUFFICES ASSUME odd' = {}
             PROVE  (\A a \in Pid : KeyAt(a)') /\ (\A a, b \in Pid : KinAt(a, b)')
  BY Zenon DEF KeyInv, KeyAllocated, KeyKin, KeyAt, KinAt
<1>odd. odd = {}
  BY OddGrows
<1>ih. (\A a \in Pid : KeyAt(a)) /\ (\A a, b \in Pid : KinAt(a, b))
  BY <1>odd, KeyIs
<1>kin. \A a \in Pid : Alive(a) =>
          /\ task[a].leader \in Pid /\ task[a].mm \in Space /\ task[a].mm \in 1 .. spaces
          /\ Alive(task[a].leader) => task[task[a].leader].leader = task[a].leader
  BY Typed DEF Sound, Kin
<1>dead. \A a \in Pid : Has(a) => Alive(a)
  BY <1>odd DEF OwnInv, Buried
(* In all steps but a system call, a thread that is there after the step   *)
(* was there before, unchanged, and so was its leader.                     *)
<1>new. ASSUME NEW z \in Pid, \A a \in Pid : KeyAt(z)' /\ KinAt(z, a)' /\ KinAt(a, z)',
               \A a \in Pid : a # z /\ Live(a)' =>
                 /\ Live(a) /\ task'[a] = task[a] /\ info'[a] = info[a]
                 /\ keys'[task[a].mm] = keys[task[a].mm]
                 /\ task'[task[a].leader] # NoTask =>
                      /\ Alive(task[a].leader)
                      /\ Has(task[a].leader) => info'[task[a].leader] = info[task[a].leader]
        PROVE  (\A a \in Pid : KeyAt(a)') /\ (\A a, b \in Pid : KinAt(a, b)')
  <2>1. ASSUME NEW a \in Pid PROVE KeyAt(a)'
    <3>1. CASE a = z
      BY <1>new, <3>1
    <3>2. CASE a # z /\ Live(a)'
      BY <1>ih, <1>new, <3>2, KeyKept
    <3>3. CASE ~Live(a)'
      BY <3>3 DEF KeyAt
    <3> QED
      BY <3>1, <3>2, <3>3
  <2>2. ASSUME NEW a \in Pid, NEW b \in Pid PROVE KinAt(a, b)'
    <3>1. CASE a = z \/ b = z
      BY <1>new, <3>1, Zenon
    <3>2. CASE ~(Live(a)' /\ Live(b)')
      BY <3>2 DEF KinAt
    <3>3. CASE a # z /\ b # z /\ Live(a)' /\ Live(b)'
      <4>1. PICK l : l = task[a].leader
        OBVIOUS
      <4>2. /\ Live(a) /\ Live(b) /\ task'[a] = task[a] /\ task'[b] = task[b]
            /\ info'[a] = info[a] /\ info'[b] = info[b]
            /\ task'[l] # NoTask => Alive(l) /\ (Has(l) => info'[l] = info[l])
        BY <1>new, <3>3, <4>1, Zenon
      <4>3. KinAt(a, b)
        BY <1>ih
      <4> QED
        BY <4>1, <4>2, <4>3, KinKept, Zenon
    <3> QED
      BY <3>1, <3>2, <3>3
  <2> QED
    BY <2>1, <2>2
<1>gone. ASSUME NEW z \in Pid, ~Live(z)'
         PROVE  \A a \in Pid : KeyAt(z)' /\ KinAt(z, a)' /\ KinAt(a, z)'
  <2>1. KeyAt(z)'
    BY <1>gone, Zenon DEF KeyAt
  <2>2. ASSUME NEW a \in Pid PROVE KinAt(z, a)' /\ KinAt(a, z)'
    <3>1. KinAt(z, a)'
      BY <1>gone, Zenon DEF KinAt
    <3>2. KinAt(a, z)'
      BY <1>gone, Zenon DEF KinAt
    <3> QED
      BY <3>1, <3>2
  <2> QED
    BY <2>1, <2>2
<1>0. CASE UNCHANGED vars
  BY <1>0, <1>ih, Zenon DEF vars, KeyAt, KinAt, SameKey, Live, Alive, Has
<1>1. ASSUME NEW p \in Pid, NEW c \in Pid, NEW b \in Birth, Fork(p, c, b)
      PROVE  (\A a \in Pid : KeyAt(a)') /\ (\A a, e \in Pid : KinAt(a, e)')
  <2>1. /\ ~Alive(c) /\ info' = info
        /\ \A a \in Pid : task[a].leader # c /\ (a # c => task'[a] = task[a])
        /\ \A s \in 1 .. spaces : keys'[s] = keys[s]
    <3>0. Fork(p, c, b)
      BY <1>1
    <3>1. /\ ~Alive(c) /\ task[p].mm \in Space /\ UNCHANGED <<info, odd, loads>>
          /\ \A z \in Pid : task[z].leader # c /\ (z # c => task'[z] = task[z])
          /\ \A z \in 1 .. spaces : keys'[z] = keys[z] /\ images'[z] = images[z]
          /\ \A z \in Space : images'[z] = images[z] \/ images'[z] = images[task[p].mm]
      BY <3>0, ForkStep, Zenon
    <3> QED
      BY <3>1
  <2>2. ~Live(c)'
    BY <1>dead, <2>1 DEF Live, Has
  <2>3. ASSUME NEW a \in Pid, a # c, Live(a)'
        PROVE  /\ Live(a) /\ task'[a] = task[a] /\ info'[a] = info[a]
               /\ keys'[task[a].mm] = keys[task[a].mm]
               /\ task'[task[a].leader] # NoTask =>
                    /\ Alive(task[a].leader)
                    /\ Has(task[a].leader) => info'[task[a].leader] = info[task[a].leader]
    <3>1. task'[a] = task[a] /\ info'[a] = info[a] /\ Live(a) /\ Alive(a)
      BY <2>1, <2>3 DEF Live, Alive, Has
    <3>2. task[a].leader \in Pid /\ task[a].leader # c /\ task[a].mm \in 1 .. spaces
      BY <1>kin, <2>1, <3>1
    <3> QED
      BY <2>1, <3>1, <3>2 DEF Alive
  <2> QED
    BY <1>new, <1>gone, <2>2, <2>3, Zenon
<1>2. ASSUME NEW p \in Pid, CloneReturns(p) \/ Syscall(p)
      PROVE  (\A a \in Pid : KeyAt(a)') /\ (\A a, b \in Pid : KinAt(a, b)')
  <2>1. /\ \A q \in Pid : /\ Alive(q)' <=> Alive(q)
                          /\ task'[q].leader = task[q].leader /\ task'[q].mm = task[q].mm
        /\ \/ UNCHANGED <<info, keys, images, loads>>
           \/ \E x, u, m, n : Stored(p, task[p].mm, x, u, m, n) /\ Amended(p, x, u, m, n)
    BY <1>2, CallStep, Zenon
  <2>2. CASE UNCHANGED <<info, keys, images, loads>>
    <3>1. \A a \in Pid : Live(a)' <=> Live(a)
      BY <2>1, <2>2, Zenon DEF Live, Has
    <3>2. \A a \in Pid : KeyAt(a)'
      BY <1>ih, <2>1, <2>2, <3>1, Zenon DEF KeyAt
    <3>3. ASSUME NEW a \in Pid, NEW b \in Pid PROVE KinAt(a, b)'
      <4>1. CASE ~(Live(a)' /\ Live(b)')
        BY <4>1 DEF KinAt
      <4>2. CASE Live(a)' /\ Live(b)'
        <5>1. Live(a) /\ Live(b) /\ Alive(a) /\ KinAt(a, b)
          BY <1>ih, <3>1, <4>2 DEF Live
        <5>2. PICK l : l = task[a].leader
          OBVIOUS
        <5>3. l \in Pid
          BY <1>kin, <5>1, <5>2
        <5>4. task'[l] # NoTask => Alive(l) /\ (Has(l) => info'[l] = info[l])
          BY <2>1, <2>2, <5>3, Zenon DEF Alive
        <5>5. info'[a].key = info[a].key /\ info'[b].key = info[b].key
          BY <2>2
        <5> QED
          BY <2>1, <5>1, <5>2, <5>4, <5>5, KinKept, Zenon
      <4> QED
        BY <4>1, <4>2
    <3> QED
      BY <3>2, <3>3
  <2>3. ASSUME NEW x, NEW u, NEW m, NEW n, Stored(p, task[p].mm, x, u, m, n), Amended(p, x, u, m, n)
        PROVE  (\A a \in Pid : KeyAt(a)') /\ (\A a, b \in Pid : KinAt(a, b)')
    BY <1>odd, <1>2, <2>3, KeyCall
  <2> QED
    BY <2>1, <2>2, <2>3, Zenon
<1>3. ASSUME NEW p \in Pid, Exec(p)
      PROVE  (\A a \in Pid : KeyAt(a)') /\ (\A a, b \in Pid : KinAt(a, b)')
  <2>1. /\ Alive(p) /\ task[p].leader = p /\ spaces + 1 \in Space
        /\ task'[p].leader = p /\ task'[p].mm = spaces + 1
        /\ \A q \in Pid : q # p =>
             IF Alive(q) /\ task[q].leader = p
             THEN task'[q] = NoTask /\ info'[q] = NoInfo
             ELSE task'[q] = task[q] /\ info'[q] = info[q]
        /\ \/ info'[p] = NoInfo /\ UNCHANGED <<keys, images, loads>>
           \/ \E x, u, m, n : /\ Stored(p, spaces + 1, x, u, m, n)
                              /\ Afresh(p, task'[p], info[p], {}, {}, x, u, m, n)
    BY <1>3, ExecStep, Zenon
  <2>2. \A s \in 1 .. spaces : s \in Space /\ s # spaces + 1 /\ keys'[s] = keys[s]
    <3>1. \A s \in 1 .. spaces : s \in Space /\ s # spaces + 1
      BY TableAssumption DEF Sound, Counters, Space
    <3> QED
      BY <2>1, <3>1, Zenon DEF Stored
  <2>3. ASSUME NEW a \in Pid, a # p, Live(a)'
        PROVE  /\ Live(a) /\ task'[a] = task[a] /\ info'[a] = info[a] /\ task[a].mm # spaces + 1
               /\ keys'[task[a].mm] = keys[task[a].mm]
               /\ task'[task[a].leader] # NoTask =>
                    /\ Alive(task[a].leader)
                    /\ Has(task[a].leader) => info'[task[a].leader] = info[task[a].leader]
    <3>1. task'[a] # NoTask
      BY <2>3 DEF Live, Alive
    <3>2. task'[a] = task[a] /\ info'[a] = info[a] /\ ~(Alive(a) /\ task[a].leader = p)
      BY <2>1, <2>3, <3>1, Zenon
    <3>3. Live(a) /\ Alive(a)
      BY <2>3, <3>2 DEF Live, Alive, Has
    <3>4. task[a].mm # spaces + 1 /\ keys'[task[a].mm] = keys[task[a].mm]
      BY <1>kin, <2>2, <3>3
    <3>5. PICK l : l = task[a].leader
      OBVIOUS
    <3>6. l \in Pid /\ l # p /\ (Alive(l) => task[l].leader = l)
      BY <1>kin, <3>2, <3>3, <3>5
    <3>7. task'[l] = task[l] /\ info'[l] = info[l]
      BY <2>1, <3>6, Zenon
    <3> QED
      BY <3>2, <3>3, <3>4, <3>5, <3>7, Zenon DEF Alive
  <2>4. ASSUME NEW a \in Pid PROVE KeyAt(p)' /\ KinAt(p, a)' /\ KinAt(a, p)'
    <3>1. KeyAt(p)'
      <4>1. CASE info'[p] = NoInfo
        BY <4>1 DEF KeyAt, Live, Has
      <4>2. ASSUME NEW x, NEW u, NEW m, NEW n, Stored(p, spaces + 1, x, u, m, n),
                   Afresh(p, task'[p], info[p], {}, {}, x, u, m, n)
            PROVE  KeyAt(p)'
        <5>1. info'[p] = x /\ keys'[spaces + 1] = u /\ (x.key = 0 \/ x.key \in u)
          BY <2>1, <4>2, Zenon DEF Stored, Afresh
        <5> QED
          BY <2>1, <5>1, Zenon DEF KeyAt
      <4> QED
        BY <2>1, <4>1, <4>2, Zenon
    <3>2. ~(Live(a)' /\ SameKey(p, a)') /\ ~(Live(a)' /\ SameKey(a, p)')
      BY <2>1, <2>3, Zenon DEF SameKey
    <3> QED
      BY <3>1, <3>2 DEF KinAt
  <2> QED
    BY <1>new, <2>3, <2>4
<1>4. ASSUME NEW p \in Pid, ExecFail(p) \/ ExitMissed(p) PROVE FALSE
  <2>1. "exec_failed" \in odd' \/ "missed_exit" \in odd'
    BY <1>4, Zenon DEF ExecFail, ExitMissed
  <2> QED
    BY <2>1
<1>5. ASSUME NEW p \in Pid, Exit(p)
      PROVE  (\A a \in Pid : KeyAt(a)') /\ (\A a, b \in Pid : KinAt(a, b)')
  <2>1. task' = [task EXCEPT ![p] = NoTask] /\ keys' = keys /\ info' = Released({p})
    BY <1>5 DEF Exit
  <2>2. /\ task'[p] = NoTask /\ info'[p] = NoInfo
        /\ \A a \in Pid : a # p => task'[a] = task[a] /\ info'[a] = info[a]
    <3>1. DOMAIN task = Pid
      BY DEF Sound, TypeOK
    <3> QED
      BY <2>1, <3>1 DEF Released
  <2>3. ASSUME NEW a \in Pid, a # p, Live(a)'
        PROVE  /\ Live(a) /\ task'[a] = task[a] /\ info'[a] = info[a]
               /\ keys'[task[a].mm] = keys[task[a].mm]
               /\ task'[task[a].leader] # NoTask =>
                    /\ Alive(task[a].leader)
                    /\ Has(task[a].leader) => info'[task[a].leader] = info[task[a].leader]
    <3>1. task'[a] = task[a] /\ info'[a] = info[a] /\ Live(a) /\ Alive(a)
      BY <2>2, <2>3 DEF Live, Alive, Has
    <3>2. task[a].leader \in Pid
      BY <1>kin, <3>1
    <3>3. CASE task[a].leader = p
      BY <2>1, <2>2, <3>1, <3>3, Zenon
    <3>4. CASE task[a].leader # p
      BY <2>1, <2>2, <3>1, <3>2, <3>4 DEF Alive
    <3> QED
      BY <3>3, <3>4, Zenon
  <2>4. ~Live(p)'
    BY <2>2 DEF Live, Has
  <2> QED
    BY <1>new, <1>gone, <2>3, <2>4, Zenon
<1> QED
  BY <1>0, <1>1, <1>2, <1>3, <1>4, <1>5 DEF Next

LEMMA KeyInit == Init => KeyInv
  BY DEF Init, KeyInv, KeyAllocated, KeyKin, Live, Has

(* If nothing unusual happens, the protection key of every thread is       *)
(* allocated in its address space: nod_share_procinfo, which frees the key *)
(* of the thread that calls it, never frees one that another thread uses.  *)
THEOREM KeysStayAllocated == Spec => []KeyAllocated
<1>1. KeyInv => KeyAllocated
  BY DEF KeyInv
<1>2. Sound /\ OwnInv /\ KeyInv /\ [Next]_vars => Sound' /\ OwnInv' /\ KeyInv'
  BY SoundStep, OwnStep, KeyStep
<1> QED
  BY <1>1, <1>2, SoundInit, OwnInit, KeyInit, PTL DEF Spec

------------------------------------------------------------------------------
(* A child that has not returned from clone has no nod_proc_info yet, and  *)
(* a thread that is marked has not had the monitor loaded.                 *)
Unborn == odd = {} => \A p \in Pid : task[p].call \in {"clone_null", "clone_stack"} => ~Has(p)

Unused == odd = {} => \A p \in Pid : info[p].status # "OUT" => info[p].stack = 0

GoneInv == Unborn /\ Unused /\ ResetMeansGoneElse

(* The three for one pid.                                                  *)
GoneAt(p) ==
  /\ task[p].call \in {"clone_null", "clone_stack"} => ~Has(p)
  /\ info[p].status # "OUT" => info[p].stack = 0
  /\ Live(p) /\ info[p].entry = 0 => info[p].stack \notin images[task[p].mm]

(* A pid without a nod_proc_info meets them.                               *)
LEMMA GoneBlank ==
  ASSUME NEW p \in Pid, ~Has(p)
  PROVE  GoneAt(p)
  BY BlankFields, Zenon DEF GoneAt, Has, Live

(* A thread that a step leaves alone meets them if no image comes to its   *)
(* address space but one loaded in the step.                               *)
LEMMA GoneKept ==
  ASSUME Sound, Stacks, NEW p \in Pid, GoneAt(p), info'[p] = info[p],
         task'[p] = task[p], Alive(p),
         images'[task[p].mm] \subseteq images[task[p].mm] \cup {loads + 1}
  PROVE  GoneAt(p)'
<1>1. info[p].stack <= loads /\ info[p].stack \in Nat /\ loads \in Nat
  <2>1. info[p] \in InfoType /\ loads \in 0 .. MaxImage
    BY Typed, Zenon
  <2>2. info[p].stack \in 0 .. MaxImage
    BY <2>1 DEF InfoType
  <2>3. info[p].stack <= loads
    BY DEF Stacks
  <2> QED
    BY <2>1, <2>2, <2>3, TableAssumption
<1>2. info[p].stack # loads + 1
  BY <1>1
<1>3. Live(p)' => Live(p)
  BY DEF Live, Alive, Has
<1>4. Live(p)' /\ info'[p].entry = 0 => info'[p].stack \notin images'[task'[p].mm]
  BY <1>2, <1>3 DEF GoneAt
<1> QED
  BY <1>4 DEF GoneAt, Has

LEMMA GoneStep ==
  ASSUME Sound, Stacks, OwnInv, GoneInv, [Next]_vars
  PROVE  GoneInv'
<1> SUFFICES ASSUME odd' = {}
             PROVE  \A q \in Pid : GoneAt(q)'
  BY DEF GoneInv, Unborn, Unused, ResetMeansGoneElse, ResetMeansGone, GoneAt
<1>odd. odd = {}
  BY OddGrows
<1>ih. \A q \in Pid : GoneAt(q)
  BY <1>odd DEF GoneInv, Unborn, Unused, ResetMeansGoneElse, ResetMeansGone, GoneAt
<1>dead. \A q \in Pid : Has(q) => Alive(q)
  BY <1>odd DEF OwnInv, Buried
<1>blank. ASSUME NEW q \in Pid, info'[q] = NoInfo PROVE GoneAt(q)'
  BY <1>blank, BlankFields, Zenon DEF GoneAt, Has, Live
<1>zero. \A s \in Space : 0 \notin images[s]
  BY TableAssumption DEF Sound, TypeOK
<1>low. \A s \in 1 .. spaces : s \in Space /\ s # spaces + 1
  BY TableAssumption DEF Sound, Counters, Space
<1>0. CASE UNCHANGED vars
  BY <1>0, <1>ih DEF vars, GoneAt, Live, Alive, Has
<1>1. ASSUME NEW p \in Pid, NEW c \in Pid, NEW b \in Birth, Fork(p, c, b), NEW q \in Pid
      PROVE  GoneAt(q)'
  <2>1. /\ ~Alive(c) /\ info' = info /\ (q # c => task'[q] = task[q])
        /\ \A z \in 1 .. spaces : images'[z] = images[z]
    <3>0. Fork(p, c, b)
      BY <1>1
    <3>1. /\ ~Alive(c) /\ task[p].mm \in Space /\ UNCHANGED <<info, odd, loads>>
          /\ \A z \in Pid : task[z].leader # c /\ (z # c => task'[z] = task[z])
          /\ \A z \in 1 .. spaces : keys'[z] = keys[z] /\ images'[z] = images[z]
          /\ \A z \in Space : images'[z] = images[z] \/ images'[z] = images[task[p].mm]
      BY <3>0, ForkStep, Zenon
    <3> QED
      BY <3>1
  <2>2. CASE ~Has(q)
    BY <1>blank, <2>1, <2>2 DEF Has
  <2>3. CASE Has(q)
    <3>1. Alive(q) /\ task'[q] = task[q] /\ info'[q] = info[q]
      BY <1>dead, <2>1, <2>3
    <3>2. images'[task[q].mm] = images[task[q].mm]
      BY <2>1, <3>1, Zenon DEF Sound, Kin
    <3> QED
      BY <1>ih, <3>1, <3>2, GoneKept
  <2> QED
    BY <2>2, <2>3
<1>2. ASSUME NEW p \in Pid, CloneReturns(p) \/ Syscall(p), NEW q \in Pid
      PROVE  GoneAt(q)'
  <2>1. /\ Alive(p) /\ task'[p].call = "ran" /\ task'[p].mm = task[p].mm
        /\ (q # p => task'[q] = task[q] /\ info'[q] = info[q])
        /\ \/ UNCHANGED <<info, images>>
           \/ \E x, u, m, n : Stored(p, task[p].mm, x, u, m, n) /\ Amended(p, x, u, m, n)
    BY <1>2, CallStep, Zenon
  <2>s. task[p].mm \in Space
    BY <2>1, Typed, Zenon
  <2>a. ~Has(p) => info[p].stack = 0
    BY BlankFields, Zenon DEF Has
  <2>2. CASE q # p /\ ~Has(q)
    BY <1>blank, <2>1, <2>2 DEF Has
  <2>3. CASE q # p /\ Has(q)
    <3>1. Alive(q) /\ task'[q] = task[q] /\ info'[q] = info[q]
      BY <1>dead, <2>1, <2>3, Zenon
    <3>2. images'[task[q].mm] \subseteq images[task[q].mm] \cup {loads + 1}
      <4>1. CASE UNCHANGED <<info, images>>
        BY <4>1
      <4>2. ASSUME NEW x, NEW u, NEW m, NEW n,
                   Stored(p, task[p].mm, x, u, m, n), Amended(p, x, u, m, n)
            PROVE  images'[task[q].mm] \subseteq images[task[q].mm] \cup {loads + 1}
        <5>1. PICK s : s = task[p].mm
          OBVIOUS
        <5>2. images'[s] = m /\ \A z \in Space : z # s => images'[z] = images[z]
          BY <4>2, <5>1 DEF Stored
        <5>3. m \subseteq images[s] \cup {loads + 1}
          BY <4>2, <5>1, Zenon DEF Amended, Placed
        <5>4. task[q].mm \in Space
          BY <3>1, Typed
        <5> QED
          BY <5>2, <5>3, <5>4
      <4> QED
        BY <2>1, <4>1, <4>2, Zenon
    <3> QED
      BY <1>ih, <3>1, <3>2, GoneKept
  <2>4. CASE q = p /\ UNCHANGED <<info, images>>
    <3>1. info'[p].status # "OUT" => info'[p].stack = 0
      BY <1>ih, <2>4 DEF GoneAt
    <3>2. Live(p)' => Live(p)
      BY <2>1, <2>4 DEF Live, Has
    <3>3. Live(p)' /\ info'[p].entry = 0 => info'[p].stack \notin images'[task'[p].mm]
      BY <1>ih, <2>1, <2>4, <3>2, Zenon DEF GoneAt
    <3> QED
      BY <2>1, <2>4, <3>1, <3>3, Zenon DEF GoneAt
  <2>5. ASSUME NEW x, NEW u, NEW m, NEW n, Stored(p, task[p].mm, x, u, m, n), Amended(p, x, u, m, n)
        PROVE  GoneAt(p)'
    <3>1. PICK s : s = task[p].mm
      OBVIOUS
    <3>a. /\ Placed(p, x, m, n)
          /\ \/ x.status = "OUT" \/ x.status = info[p].status
             \/ task[p].call \in {"clone_null", "clone_stack"}
      BY <2>5, Zenon DEF Amended
    <3>2. info'[p] = x /\ images'[s] = m /\ task'[p].mm = s
      BY <2>1, <2>5, <3>1, Zenon DEF Stored
    <3>3. CASE m = images[s] /\ x.stack = info[p].stack
      <4>1. x.status # "OUT" => x.stack = 0
        BY <1>ih, <3>a, <2>a, <3>3 DEF GoneAt
      <4>2. x.entry = 0 => x.stack \notin m
        <5>1. CASE x.stack = 0
          BY <1>zero, <2>s, <3>1, <3>3, <5>1
        <5>2. CASE x.stack # 0
          <6>1. Has(p) /\ Live(p) /\ info[p].status = "OUT"
            BY <1>ih, <2>1, <2>a, <3>3, <5>2, Zenon DEF GoneAt, Live
          <6>2. x.entry = info[p].entry \/ x.entry = loads + 1
            BY <3>a, <6>1 DEF Placed
          <6>3. loads + 1 # 0
            BY TableAssumption DEF Sound, Counters
          <6> QED
            BY <1>ih, <3>1, <3>3, <6>1, <6>2, <6>3 DEF GoneAt
        <5> QED
          BY <5>1, <5>2
      <4> QED
        BY <2>1, <3>2, <4>1, <4>2, Zenon DEF GoneAt
    <3>4. CASE x.entry = loads + 1 /\ x.status = "OUT"
      <4>1. loads + 1 # 0
        BY TableAssumption DEF Sound, Counters
      <4> QED
        BY <2>1, <3>2, <3>4, <4>1, Zenon DEF GoneAt
    <3> QED
      BY <3>a, <3>1, <3>3, <3>4, Zenon DEF Placed
  <2> QED
    BY <2>1, <2>2, <2>3, <2>4, <2>5, Zenon
<1>3. ASSUME NEW p \in Pid, Exec(p), NEW q \in Pid
      PROVE  GoneAt(q)'
  <2>1. /\ Alive(p) /\ spaces + 1 \in Space /\ task'[p].mm = spaces + 1 /\ task'[p].call = "ran"
        /\ task'[p].leader = p
        /\ q # p => info'[q] = NoInfo \/ (task'[q] = task[q] /\ info'[q] = info[q])
        /\ \/ info'[p] = NoInfo /\ UNCHANGED <<keys, images, loads>>
           \/ \E x, u, m, n : /\ Stored(p, spaces + 1, x, u, m, n)
                              /\ Afresh(p, task'[p], info[p], {}, {}, x, u, m, n)
    BY <1>3, ExecStep, Zenon
  <2>2. CASE info'[q] = NoInfo
    BY <1>blank, <2>2
  <2>3. CASE q # p /\ info'[q] # NoInfo
    <3>1. task'[q] = task[q] /\ info'[q] = info[q] /\ Alive(q)
      BY <1>dead, <2>1, <2>3, Zenon DEF Has
    <3>2. task[q].mm \in 1 .. spaces
      BY <3>1 DEF Sound, Kin
    <3>3. images'[task[q].mm] = images[task[q].mm]
      BY <1>low, <2>1, <3>2, Zenon DEF Stored
    <3> QED
      BY <1>ih, <3>1, <3>3, GoneKept, Zenon
  <2>4. ASSUME NEW x, NEW u, NEW m, NEW n, Stored(p, spaces + 1, x, u, m, n),
               Afresh(p, task'[p], info[p], {}, {}, x, u, m, n)
        PROVE  GoneAt(p)'
    <3>1. info'[p] = x /\ images'[spaces + 1] = m
      BY <2>4 DEF Stored
    <3>2. loads + 1 # 0
      BY TableAssumption DEF Sound, Counters
    <3>3. /\ x.status # "OUT" => x.stack = 0
          /\ m = {} \/ x.entry # 0
      BY <1>ih, <2>4, <3>2, Zenon DEF Afresh, GoneAt
    <3> QED
      BY <2>1, <3>1, <3>3, Zenon DEF GoneAt
  <2> QED
    BY <2>1, <2>2, <2>3, <2>4, Zenon
<1>4. ASSUME NEW p \in Pid, ExecFail(p) \/ ExitMissed(p) PROVE FALSE
  <2>1. "exec_failed" \in odd' \/ "missed_exit" \in odd'
    BY <1>4, Zenon DEF ExecFail, ExitMissed
  <2> QED
    BY <2>1
<1>5. ASSUME NEW p \in Pid, Exit(p), NEW q \in Pid PROVE GoneAt(q)'
  <2>1. task' = [task EXCEPT ![p] = NoTask] /\ images' = images /\ info' = Released({p})
    BY <1>5 DEF Exit
  <2>2. info'[p] = NoInfo /\ (q # p => task'[q] = task[q] /\ info'[q] = info[q])
    <3>1. DOMAIN task = Pid
      BY DEF Sound, TypeOK
    <3> QED
      BY <2>1, <3>1 DEF Released
  <2>3. CASE info'[q] = NoInfo
    BY <1>blank, <2>3
  <2>4. CASE info'[q] # NoInfo
    <3>1. task'[q] = task[q] /\ info'[q] = info[q] /\ Alive(q)
      BY <1>dead, <2>2, <2>4 DEF Has
    <3> QED
      BY <1>ih, <2>1, <3>1, GoneKept
  <2> QED
    BY <2>3, <2>4
<1> QED
  BY <1>0, <1>1, <1>2, <1>3, <1>4, <1>5 DEF Next

LEMMA GoneInit == Init => GoneInv
<1> SUFFICES ASSUME Init PROVE GoneInv
  OBVIOUS
<1>1. \A q \in Pid : info[q] = NoInfo
  BY Zenon DEF Init
<1>2. \A q \in Pid : GoneAt(q)
  BY <1>1, GoneBlank, Zenon DEF Has
<1> QED
  BY <1>2 DEF GoneInv, Unborn, Unused, ResetMeansGoneElse, ResetMeansGone, GoneAt

(* If nothing unusual happens, a thread whose entry is reset has no        *)
(* monitor of its own in its address space, as the comment in the exec     *)
(* branch of syscall_exit_probe says: none is lost there.                  *)
THEOREM ResetLosesNothing == Spec => []ResetMeansGoneElse
<1>1. GoneInv => ResetMeansGoneElse
  BY DEF GoneInv
<1>2. Sound /\ Stacks /\ StackExclusive /\ OwnInv /\ GoneInv /\ [Next]_vars =>
        Sound' /\ Stacks' /\ StackExclusive' /\ OwnInv' /\ GoneInv'
  BY SoundStep, StackStep, OwnStep, GoneStep
<1> QED
  BY <1>1, <1>2, SoundInit, StackInit, OwnInit, GoneInit, PTL DEF Spec
==============================================================================
