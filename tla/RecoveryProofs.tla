---------------------------- MODULE RecoveryProofs ----------------------------
(***************************************************************************)
(* Proofs about the parts of the console that take something back or carry *)
(* it on after an interruption: the undo of an interface change, the       *)
(* migrations of the schema and the restore of a backup.                   *)
(***************************************************************************)
EXTENDS Console, SequenceTheorems, FiniteSetTheorems, TLAPS

Addrs == {r.addr : r \in Rows}
Gateways == {r.gw : r \in Rows} \cup {"none"}
Mtus == {r.mtu : r \in Rows}
Conf == [addr : Addrs, gw : Gateways, mtu : Mtus]
Snap == [id : Nat, addr : Addrs, gw : Gateways]
Req == [op : {"update", "rollback"}, seen : Snap]
Stages == {"address", "gateway", "ping", "restore", "mtu"}
Apply == [stage : Stages, new : Conf, old : Conf, depth : Nat, undone : BOOLEAN,
          alone : BOOLEAN]

IfaceType ==
    /\ row \in Conf /\ nic \in Conf /\ good \in [row : Conf, nic : Conf]
    /\ snaps \in Seq(Snap)
    /\ made \in Nat /\ depth \in Nat
    /\ reqs \in [Clerks -> {NoReq} \cup Req]
    /\ applies \in [Appliers -> {NoApply} \cup Apply]

\* An apply that no other overlapped is the only one under way.
AloneInv ==
    \A a, b \in Appliers :
        applies[a] \in Apply /\ applies[a].alone /\ b # a => applies[b] = NoApply

\* The interface while nothing has gone wrong: as the last success left it, or on
\* its way from there, so that what the apply goes back to is that success.
NicInv ==
    ~broken =>
        /\ (\A a \in Appliers : applies[a] = NoApply) => nic = good.nic
        /\ \A a \in Appliers : applies[a] \in Apply =>
              /\ applies[a].alone /\ applies[a].old = good.nic
              /\ applies[a].stage = "address" => nic = applies[a].old
              /\ applies[a].stage \in {"gateway", "ping", "restore"} =>
                    nic.mtu = applies[a].old.mtu

\* The row r, with the snapshots s, as k rollbacks would leave it, but for its MTU.
Back(r, s, k) == IF k = 0 THEN r ELSE s[Len(s) - k + 1]

\* Undoing what was done since the last success leads back to it; undoing what was
\* done since an apply under way read the row leads back to what it read.
UndoInv ==
    ~astray => /\ depth =< Len(snaps)
               /\ Same(Back(row, snaps, depth), good.row)
               /\ \A a \in Appliers : applies[a] \in Apply /\ ~applies[a].undone =>
                     /\ applies[a].depth =< depth
                     /\ Same(Back(row, snaps, depth - applies[a].depth), applies[a].new)

IfaceInv == IfaceType /\ AloneInv /\ NicInv /\ UndoInv
-----------------------------------------------------------------------------
\* Every stored row is a configuration the interface can be given.
LEMMA RowsAreConf == Rows \subseteq Conf
BY InterfaceAssumption DEF Conf, Addrs, Gateways, Mtus

\* No apply under way is a record of its own, at no stage of an apply, and no request
\* one that does nothing.
LEMMA NoApplyStage ==
  NoApply.stage = "idle" /\ NoApply \notin Apply /\ NoReq.op = "none" /\ NoReq \notin Req
BY DEF NoApply, Apply, Stages, NoReq, Req

\* The steps of the administrator's requests leave the interface and the commands
\* of the applies alone.
LEMMA NicKept ==
  ASSUME AloneInv, NicInv, IfaceType, UNCHANGED <<nic, good, broken>>,
         \A a \in Appliers :
            \/ applies'[a] = applies[a]
            \/ applies[a] \in Apply /\ applies'[a] = [applies[a] EXCEPT !.undone = TRUE]
  PROVE  AloneInv' /\ NicInv'
<1>1. ASSUME NEW a \in Appliers
      PROVE  /\ applies'[a] = NoApply <=> applies[a] = NoApply
             /\ applies'[a] \in Apply <=> applies[a] \in Apply
             /\ applies[a] \in Apply => /\ applies'[a].stage = applies[a].stage
                                        /\ applies'[a].old = applies[a].old
                                        /\ applies'[a].alone = applies[a].alone
  <2>1. CASE applies'[a] = applies[a]
    BY <2>1
  <2>2. CASE applies[a] \in Apply /\ applies'[a] = [applies[a] EXCEPT !.undone = TRUE]
    <3>1. /\ applies'[a] \in Apply /\ applies'[a].stage = applies[a].stage
          /\ applies'[a].old = applies[a].old /\ applies'[a].alone = applies[a].alone
      BY <2>2 DEF Apply
    <3>2. QED
      BY <2>2, <3>1, NoApplyStage
  <2>3. QED
    BY <2>1, <2>2
<1>2. AloneInv'
  BY <1>1 DEF AloneInv
<1>3. NicInv'
  BY <1>1 DEF NicInv
<1>4. QED
  BY <1>2, <1>3

\* A request reads.
LEMMA ReadKeeps ==
  ASSUME IfaceInv, NEW c \in Clerks, ReadRow(c) \/ ReadSnapshot(c)
  PROVE  IfaceInv'
<1>1. /\ UNCHANGED <<row, snaps, made, nic, applies, good, depth, astray, broken>>
      /\ IfaceType /\ AloneInv /\ NicInv /\ UndoInv
  BY DEF ReadRow, ReadSnapshot, IfaceInv
<1>2. PICK r \in Req : reqs' = [reqs EXCEPT ![c] = r]
  <2>1. CASE ReadRow(c)
    <3>1. [op |-> "update", seen |-> [id |-> 0, addr |-> row.addr, gw |-> row.gw]] \in Req
      BY <1>1 DEF Req, Snap, IfaceType, Conf
    <3>2. QED
      BY <2>1, <3>1 DEF ReadRow
  <2>2. CASE ReadSnapshot(c)
    <3>1. PICK i \in DOMAIN snaps :
              reqs' = [reqs EXCEPT ![c] = [op |-> "rollback", seen |-> snaps[i]]]
      BY <2>2 DEF ReadSnapshot
    <3>2. snaps[i] \in Snap
      BY <1>1, <3>1, ElementOfSeq, LenProperties DEF IfaceType
    <3>3. [op |-> "rollback", seen |-> snaps[i]] \in Req
      BY <3>2 DEF Req
    <3>4. QED
      BY <3>1, <3>3
  <2>3. QED
    BY <2>1, <2>2
<1>3. IfaceType'
  BY <1>1, <1>2 DEF IfaceType
<1>4. QED
  BY <1>1, <1>3 DEF IfaceInv, AloneInv, NicInv, UndoInv

\* A change of the row: one snapshot more, one undo more.
LEMMA UpdateKeeps ==
  ASSUME IfaceInv, NEW c \in Clerks, NEW new \in Rows, UpdateInterface(c, new)
  PROVE  IfaceInv'
<1>1. snaps \in Seq(Snap) /\ Len(snaps) \in Nat /\ new \in Conf /\ row \in Conf
  BY LenProperties, RowsAreConf DEF IfaceInv, IfaceType
<1> DEFINE e == [reqs[c].seen EXCEPT !.id = made + 1]
<1>2. e \in Snap /\ (Same(reqs[c].seen, row) => Same(e, row))
  <2>1. reqs[c].op = "update" /\ made \in Nat /\ reqs[c] \in {NoReq} \cup Req
    BY DEF UpdateInterface, IfaceInv, IfaceType
  <2>2. reqs[c].seen \in Snap
    BY <2>1, NoApplyStage DEF Req
  <2>3. QED
    BY <2>1, <2>2 DEF Snap, Same
<1>3. /\ snaps' = Append(snaps, e)
      /\ row' = new /\ depth' = depth + 1 /\ made' = made + 1
      /\ reqs' = [reqs EXCEPT ![c] = NoReq]
      /\ astray' = (astray \/ ~Same(reqs[c].seen, row))
      /\ UNCHANGED <<nic, applies, good, broken>>
  BY DEF UpdateInterface
<1> HIDE DEF e
<1>4. /\ snaps' \in Seq(Snap) /\ Len(snaps') = Len(snaps) + 1
      /\ snaps'[Len(snaps) + 1] = e
      /\ \A j \in 1..Len(snaps) : snaps'[j] = snaps[j]
  BY <1>1, <1>2, <1>3, AppendProperties
<1>6. IfaceType'
  BY <1>1, <1>3, <1>4 DEF IfaceInv, IfaceType
<1>7. AloneInv' /\ NicInv'
  BY <1>3, NicKept DEF IfaceInv
<1>8. UndoInv'
  <2> SUFFICES ASSUME ~astray, Same(e, row) PROVE UndoInv'
    BY <1>2, <1>3 DEF UndoInv
  <2>0. depth \in Nat /\ depth =< Len(snaps) /\ Same(Back(row, snaps, depth), good.row)
    BY DEF IfaceInv, IfaceType, UndoInv
  <2>3. ASSUME NEW k \in Nat, k =< Len(snaps), NEW r, Same(Back(row, snaps, k), r)
        PROVE  Same(Back(new, snaps', k + 1), r)
    <3>1. CASE k = 0
      <4>1. Back(new, snaps', k + 1) = e /\ Back(row, snaps, k) = row
        BY <1>1, <1>4, <3>1 DEF Back
      <4>2. QED
        BY <2>3, <4>1 DEF Same
    <3>2. CASE k # 0
      <4>1. Back(new, snaps', k + 1) = Back(row, snaps, k)
        BY <1>1, <1>4, <2>3, <3>2 DEF Back
      <4>2. QED
        BY <2>3, <4>1
    <3>3. QED
      BY <3>1, <3>2
  <2>4. depth' =< Len(snaps') /\ Same(Back(row', snaps', depth'), good.row)
    BY <1>1, <1>3, <1>4, <2>0, <2>3
  <2>5. ASSUME NEW a \in Appliers, applies[a] \in Apply, ~applies[a].undone
        PROVE  /\ applies[a].depth =< depth'
               /\ Same(Back(row', snaps', depth' - applies[a].depth), applies[a].new)
    <3>1. /\ applies[a].depth \in Nat /\ applies[a].depth =< depth
          /\ Same(Back(row, snaps, depth - applies[a].depth), applies[a].new)
      BY <2>5 DEF IfaceInv, UndoInv, Apply
    <3>2. /\ depth - applies[a].depth \in Nat
          /\ depth' - applies[a].depth = (depth - applies[a].depth) + 1
          /\ depth - applies[a].depth =< Len(snaps) /\ applies[a].depth =< depth'
      BY <1>1, <1>3, <2>0, <3>1
    <3>3. Same(Back(new, snaps', (depth - applies[a].depth) + 1), applies[a].new)
      BY <2>3, <3>1, <3>2
    <3>4. QED
      BY <1>3, <3>2, <3>3
  <2>6. QED
    BY <1>3, <2>4, <2>5 DEF UndoInv
<1>9. QED
  BY <1>6, <1>7, <1>8 DEF IfaceInv

\* A sequence without its i-th element.
LEMMA WithoutOne ==
  ASSUME NEW S, NEW s \in Seq(S), NEW i \in 1..Len(s), NEW t,
         t = [j \in 1..Len(s) - 1 |-> s[IF j < i THEN j ELSE j + 1]]
  PROVE  /\ t \in Seq(S) /\ Len(t) = Len(s) - 1
         /\ \A j \in 1..Len(s) - 1 : t[j] = s[IF j < i THEN j ELSE j + 1]
<1>1. Len(s) \in Nat /\ Len(s) - 1 \in Nat
  BY LenProperties
<1>2. \A j \in 1..Len(s) - 1 : (IF j < i THEN j ELSE j + 1) \in 1..Len(s)
  BY <1>1
<1>3. \A j \in 1..Len(s) - 1 : s[IF j < i THEN j ELSE j + 1] \in S
  BY <1>2, ElementOfSeq
<1>4. t \in [1..Len(s) - 1 -> S]
  BY <1>3
<1>5. t \in Seq(S)
  BY <1>1, <1>4, SeqDef
<1>6. DOMAIN t = 1..Len(s) - 1 /\ DOMAIN t = 1..Len(t) /\ Len(t) \in Nat
  BY <1>4, <1>5, LenProperties
<1>7. Len(t) = Len(s) - 1
  BY <1>1, <1>6
<1>8. QED
  BY <1>5, <1>7

\* A rollback: if the snapshot is still the last one, one undo is taken off.
LEMMA RollbackKeeps ==
  ASSUME IfaceInv, NEW c \in Clerks, RollbackInterface(c)
  PROVE  IfaceInv'
<1> DEFINE s == reqs[c].seen
<1>1. /\ row' = [row EXCEPT !.addr = s.addr, !.gw = s.gw]
      /\ \/ \E i \in DOMAIN snaps :
               /\ snaps[i] = s
               /\ snaps' = [j \in 1..Len(snaps) - 1 |-> snaps[IF j < i THEN j ELSE j + 1]]
               /\ astray' = (astray \/ depth = 0 \/ ~Latest(i))
         \/ snaps' = snaps /\ astray'
      /\ depth' = IF depth = 0 THEN 0 ELSE depth - 1
      /\ applies' = [a \in Appliers |-> Undone(applies[a])]
      /\ reqs' = [reqs EXCEPT ![c] = NoReq]
      /\ UNCHANGED <<made, nic, good, broken>>
      /\ reqs[c].op = "rollback"
  BY DEF RollbackInterface
<1>2. /\ snaps \in Seq(Snap) /\ Len(snaps) \in Nat /\ DOMAIN snaps = 1..Len(snaps)
      /\ row \in Conf /\ depth \in Nat /\ made \in Nat
      /\ reqs \in [Clerks -> {NoReq} \cup Req]
      /\ \A a \in Appliers : applies[a] = NoApply \/ applies[a] \in Apply
  BY LenProperties DEF IfaceInv, IfaceType
<1>3. s \in Snap
  <2>1. reqs[c] \in Req
    BY <1>1, <1>2, NoApplyStage
  <2>2. QED
    BY <2>1 DEF Req
<1> HIDE DEF s
<1>4. row' \in Conf /\ Same(row', s)
  BY <1>1, <1>2, <1>3 DEF Conf, Snap, Same
<1>5. ASSUME NEW a \in Appliers
      PROVE  \/ applies'[a] = applies[a] /\ (applies[a] \in Apply => applies[a].depth < depth)
             \/ applies[a] \in Apply /\ applies'[a] = [applies[a] EXCEPT !.undone = TRUE]
  <2>1. applies'[a] = Undone(applies[a])
    BY <1>1
  <2>2. CASE applies[a] = NoApply
    BY <2>1, <2>2, NoApplyStage DEF Undone
  <2>3. CASE applies[a] \in Apply
    <3>1. applies[a].stage # "idle" /\ applies[a].depth \in Nat
      BY <2>3 DEF Apply, Stages
    <3>2. QED
      BY <1>2, <2>1, <2>3, <3>1 DEF Undone
  <2>4. QED
    BY <1>2, <2>2, <2>3
<1>6. IfaceType'
  <2>1. applies' \in [Appliers -> {NoApply} \cup Apply]
    <3>1. ASSUME NEW a \in Appliers PROVE applies'[a] \in {NoApply} \cup Apply
      <4>1. applies[a] \in Apply => [applies[a] EXCEPT !.undone = TRUE] \in Apply
        BY DEF Apply
      <4>2. QED
        BY <1>2, <1>5, <4>1
    <3>2. QED
      BY <1>1, <3>1
  <2>2. depth' \in Nat
    BY <1>1, <1>2
  <2>3. snaps' \in Seq(Snap)
    BY <1>1, <1>2, WithoutOne
  <2>4. reqs' \in [Clerks -> {NoReq} \cup Req]
    BY <1>1, <1>2
  <2>5. QED
    BY <1>1, <1>4, <2>1, <2>2, <2>3, <2>4 DEF IfaceInv, IfaceType
<1>7. AloneInv' /\ NicInv'
  BY <1>1, <1>5, NicKept DEF IfaceInv
<1>8. UndoInv'
  <2> SUFFICES ASSUME ~astray' PROVE UndoInv'
    BY DEF UndoInv
  <2>1. PICK i \in DOMAIN snaps :
           /\ snaps[i] = s
           /\ snaps' = [j \in 1..Len(snaps) - 1 |-> snaps[IF j < i THEN j ELSE j + 1]]
           /\ ~astray /\ depth # 0 /\ Latest(i)
    BY <1>1
  <2>2. i = Len(snaps) /\ i \in 1..Len(snaps)
    BY <1>2, <2>1 DEF Latest
  <2>3. /\ Len(snaps') = Len(snaps) - 1
        /\ \A j \in 1..Len(snaps) - 1 : snaps'[j] = snaps[IF j < i THEN j ELSE j + 1]
    BY <1>2, <2>1, <2>2, WithoutOne
  <2>4. \A j \in 1..Len(snaps) - 1 : j \in 1..Len(snaps) /\ snaps'[j] = snaps[j]
    BY <1>2, <2>2, <2>3
  <2>0. /\ depth \in Nat \ {0} /\ depth =< Len(snaps)
        /\ Same(Back(row, snaps, depth), good.row)
    BY <1>2, <2>1 DEF IfaceInv, UndoInv
  <2>5. ASSUME NEW k \in 1..Len(snaps), NEW r, Same(Back(row, snaps, k), r)
        PROVE  Same(Back(row', snaps', k - 1), r)
    <3>1. CASE k = 1
      <4>1. Back(row', snaps', k - 1) = row' /\ Back(row, snaps, k) = s
        BY <1>2, <2>1, <2>2, <3>1 DEF Back
      <4>2. QED
        BY <1>4, <2>5, <4>1 DEF Same
    <3>2. CASE k # 1
      <4>1. Back(row', snaps', k - 1) = Back(row, snaps, k)
        BY <1>2, <2>3, <2>4, <3>2 DEF Back
      <4>2. QED
        BY <2>5, <4>1
    <3>3. QED
      BY <3>1, <3>2
  <2>6. /\ depth' = depth - 1 /\ depth' =< Len(snaps')
        /\ Same(Back(row', snaps', depth'), good.row)
    BY <1>1, <1>2, <2>0, <2>3, <2>5
  <2>7. ASSUME NEW a \in Appliers, applies'[a] \in Apply, ~applies'[a].undone
        PROVE  /\ applies'[a].depth =< depth'
               /\ Same(Back(row', snaps', depth' - applies'[a].depth), applies'[a].new)
    <3>1. applies'[a] = applies[a] /\ applies[a] \in Apply /\ applies[a].depth < depth
      <4>1. applies[a] \in Apply => [applies[a] EXCEPT !.undone = TRUE].undone
        BY DEF Apply
      <4>2. QED
        BY <1>5, <2>7, <4>1
    <3>2. /\ applies[a].depth \in Nat
          /\ Same(Back(row, snaps, depth - applies[a].depth), applies[a].new)
      BY <2>1, <2>7, <3>1 DEF Apply, IfaceInv, UndoInv
    <3>3. depth - applies[a].depth \in 1..Len(snaps)
      BY <1>2, <2>0, <3>1, <3>2
    <3>4. Same(Back(row', snaps', (depth - applies[a].depth) - 1), applies[a].new)
      BY <2>5, <3>2, <3>3
    <3>5. (depth - applies[a].depth) - 1 = depth' - applies[a].depth /\ applies[a].depth =< depth'
      BY <1>2, <2>0, <2>6, <3>1, <3>2
    <3>6. QED
      BY <3>1, <3>4, <3>5
  <2>8. QED
    BY <1>1, <2>6, <2>7 DEF UndoInv
<1>9. QED
  BY <1>6, <1>7, <1>8 DEF IfaceInv

\* A command of an apply goes on with it or ends it; what it read, whether it was
\* undone and whether it is alone stay.
LEMMA CommandKeeps ==
  ASSUME IfaceInv, NEW a \in Appliers, applies[a] \in Apply,
         NEW n \in {NoApply} \cup Apply, applies' = [applies EXCEPT ![a] = n],
         n \in Apply => /\ n.new = applies[a].new /\ n.depth = applies[a].depth
                        /\ n.undone = applies[a].undone /\ n.alone = applies[a].alone,
         UNCHANGED <<row, snaps, made, reqs, good, depth, astray>>
  PROVE  /\ applies' \in [Appliers -> {NoApply} \cup Apply]
         /\ AloneInv' /\ UndoInv'
<1>1. /\ applies \in [Appliers -> {NoApply} \cup Apply] /\ AloneInv /\ UndoInv
      /\ applies[a] # NoApply
  BY NoApplyStage DEF IfaceInv, IfaceType
<1>2. applies'[a] = n /\ \A b \in Appliers \ {a} : applies'[b] = applies[b]
  BY <1>1
<1>3. AloneInv'
  BY <1>1, <1>2, NoApplyStage DEF AloneInv
<1>4. UndoInv'
  BY <1>1, <1>2, NoApplyStage DEF UndoInv
<1>5. QED
  BY <1>1, <1>3, <1>4

\* The commands of an apply.
LEMMA ApplyKeeps ==
  ASSUME IfaceInv, NEW a \in Appliers,
         \/ \E failed \in {"none", "inet", "up"} : SetAddress(a, failed)
         \/ \E ok \in BOOLEAN : SetGateway(a, ok) \/ Ping(a, ok)
         \/ \E addrOk, gwOk \in BOOLEAN : RestoreOld(a, addrOk, gwOk)
         \/ CutShort(a)
  PROVE  IfaceInv'
<1> DEFINE p == applies[a]
<1>1. /\ p.stage # "idle" /\ UNCHANGED <<row, snaps, made, reqs, good, depth, astray>>
      /\ IfaceType /\ NicInv
  BY DEF SetAddress, SetGateway, Ping, RestoreOld, CutShort, IfaceInv
<1>2. /\ p \in Apply /\ p # NoApply /\ p.new \in Conf /\ p.old \in Conf /\ nic \in Conf
  BY <1>1, NoApplyStage DEF IfaceType, Apply
<1>3. ASSUME ~broken
      PROVE  /\ p.alone /\ p.old = good.nic
             /\ \A b \in Appliers \ {a} : applies[b] = NoApply
             /\ p.stage = "address" => nic = p.old
             /\ p.stage \in {"gateway", "ping", "restore"} => nic.mtu = p.old.mtu
  BY <1>1, <1>2, <1>3 DEF NicInv, AloneInv, IfaceInv
<1>4. ASSUME NEW stage \in Stages, GoOn(a, stage), nic' \in Conf,
             ~broken' => ~broken /\ (stage # "mtu" => nic'.mtu = nic.mtu),
             stage # "address", stage # "mtu" => p.stage # "mtu"
      PROVE  IfaceInv'
  <2> DEFINE n == [p EXCEPT !.stage = stage]
  <2>1. /\ n \in Apply /\ n.stage = stage /\ n.new = p.new /\ n.old = p.old
        /\ n.undone = p.undone /\ n.depth = p.depth /\ n.alone = p.alone
    BY <1>2 DEF Apply
  <2>2. applies' = [applies EXCEPT ![a] = n]
    BY <1>4 DEF GoOn
  <2> HIDE DEF n
  <2>3. applies' \in [Appliers -> {NoApply} \cup Apply] /\ AloneInv' /\ UndoInv'
    BY <1>1, <1>2, <2>1, <2>2, CommandKeeps
  <2>4. applies'[a] = n /\ \A b \in Appliers \ {a} : applies'[b] = applies[b]
    BY <1>1, <2>2 DEF IfaceType
  <2>5. NicInv'
    <3> SUFFICES ASSUME ~broken' PROVE NicInv'
      BY DEF NicInv
    <3>1. /\ p.alone /\ p.old = good.nic
          /\ \A b \in Appliers \ {a} : applies[b] = NoApply
          /\ p.stage = "address" => nic = p.old
          /\ p.stage \in {"gateway", "ping", "restore"} => nic.mtu = p.old.mtu
      BY <1>3, <1>4
    <3>2. stage # "mtu" => nic'.mtu = p.old.mtu
      <4>1. p.stage \in Stages
        BY <1>2 DEF Apply
      <4>2. QED
        BY <1>4, <3>1, <4>1 DEF Stages
    <3>3. n # NoApply
      BY <2>1, NoApplyStage
    <3>4. QED
      BY <1>1, <1>4, <2>1, <2>4, <3>1, <3>2, <3>3, NoApplyStage DEF NicInv
  <2>6. QED
    BY <1>1, <1>4, <2>3, <2>5 DEF IfaceInv, IfaceType
<1>5. ASSUME EndApply(a), nic' \in Conf, ~broken' => ~broken /\ nic' = p.old
      PROVE  IfaceInv'
  <2>1. applies' = [applies EXCEPT ![a] = NoApply]
    BY <1>5 DEF EndApply
  <2>2. applies' \in [Appliers -> {NoApply} \cup Apply] /\ AloneInv' /\ UndoInv'
    BY <1>1, <1>2, <2>1, CommandKeeps, NoApplyStage
  <2>3. applies'[a] = NoApply /\ \A b \in Appliers \ {a} : applies'[b] = applies[b]
    BY <1>1, <2>1 DEF IfaceType
  <2>4. NicInv'
    <3> SUFFICES ASSUME ~broken' PROVE NicInv'
      BY DEF NicInv
    <3>1. nic' = good.nic /\ \A b \in Appliers : applies'[b] = NoApply
      BY <1>3, <1>5, <2>3
    <3>2. QED
      BY <1>1, <3>1, NoApplyStage DEF NicInv
  <2>5. QED
    BY <1>1, <1>5, <2>2, <2>4 DEF IfaceInv, IfaceType
<1>6. ASSUME NEW failed \in {"none", "inet", "up"}, SetAddress(a, failed) PROVE IfaceInv'
  <2>1. nic' \in Conf /\ nic'.mtu = nic.mtu
    BY <1>2, <1>6 DEF SetAddress, Conf
  <2>2. CASE failed = "none"
    <3>1. PICK stage \in {"gateway", "mtu"} : GoOn(a, stage)
      BY <1>6, <2>2 DEF SetAddress
    <3>2. stage \in Stages /\ p.stage = "address" /\ (~broken' => ~broken)
      BY <1>6, <2>2, <3>1 DEF SetAddress, Stages
    <3> HIDE DEF p
    <3>3. QED
      BY <1>4, <2>1, <3>1, <3>2
  <2>3. CASE failed # "none"
    BY <1>5, <1>6, <2>1, <2>3 DEF SetAddress
  <2>4. QED
    BY <2>2, <2>3
<1>7. ASSUME NEW ok \in BOOLEAN, SetGateway(a, ok) \/ Ping(a, ok) PROVE IfaceInv'
  <2>1. nic' \in Conf /\ nic'.mtu = nic.mtu
    BY <1>2, <1>7 DEF SetGateway, Ping, Conf, Gateways
  <2>2. PICK stage \in {"ping", "restore", "mtu"} : GoOn(a, stage)
    BY <1>7 DEF SetGateway, Ping
  <2>3. stage \in Stages /\ p.stage \in {"gateway", "ping"} /\ broken' = broken
    BY <1>7, <2>2 DEF SetGateway, Ping, Stages
  <2> HIDE DEF p
  <2>4. QED
    BY <1>4, <2>1, <2>2, <2>3
<1>8. ASSUME NEW addrOk \in BOOLEAN, NEW gwOk \in BOOLEAN, RestoreOld(a, addrOk, gwOk)
      PROVE  IfaceInv'
  <2>1. EndApply(a) /\ p.stage = "restore"
    BY <1>8 DEF RestoreOld
  <2>2. nic' \in Conf
    BY <1>2, <1>8 DEF RestoreOld, Conf, Gateways
  <2>3. ASSUME ~broken' PROVE ~broken /\ nic' = p.old
    <3>1. ~broken /\ addrOk /\ gwOk
      BY <1>8, <2>3 DEF RestoreOld
    <3>2. nic.mtu = p.old.mtu
      BY <1>3, <2>1, <3>1
    <3>3. nic' = [nic EXCEPT !.addr = p.old.addr, !.gw = p.old.gw]
      BY <1>8, <3>1 DEF RestoreOld
    <3>4. QED
      BY <1>2, <3>1, <3>2, <3>3 DEF Conf
  <2>4. QED
    BY <1>5, <2>1, <2>2, <2>3
<1>9. CASE CutShort(a)
  BY <1>2, <1>5, <1>9 DEF CutShort
<1>10. QED
  BY <1>6, <1>7, <1>8, <1>9

\* An apply begins: if it is alone it goes back to the last success, and what it read
\* is the row.
LEMMA CaptureKeeps ==
  ASSUME IfaceInv, NEW a \in Appliers, Capture(a)
  PROVE  IfaceInv'
<1> DEFINE alone == Applying = {}
           n == [stage |-> "address", new |-> row, old |-> nic, depth |-> depth,
                 undone |-> FALSE, alone |-> alone]
<1>1. /\ applies[a].stage = "idle" /\ broken' = (broken \/ ~alone)
      /\ UNCHANGED <<row, snaps, made, reqs, nic, good, depth, astray>>
      /\ applies' = [b \in Appliers |-> IF b = a THEN n ELSE [applies[b] EXCEPT !.alone = FALSE]]
      /\ IfaceType /\ AloneInv /\ NicInv /\ UndoInv
  BY DEF Capture, IfaceInv
<1>2. n \in Apply /\ alone \in BOOLEAN
  BY <1>1 DEF Apply, Stages, IfaceType
<1>3. /\ n.stage = "address" /\ n.new = row /\ n.old = nic /\ n.depth = depth
      /\ n.alone = alone
  OBVIOUS
<1>4. alone <=> \A b \in Appliers : applies[b] = NoApply
  BY <1>1, NoApplyStage DEF Applying, IfaceType, Apply, Stages
<1> HIDE DEF n, alone
<1>5. ASSUME NEW b \in Appliers \ {a}
      PROVE  /\ applies[b] = NoApply => applies'[b] = NoApply
             /\ applies[b] \in Apply =>
                   /\ applies'[b] \in Apply /\ ~applies'[b].alone
                   /\ applies'[b].undone = applies[b].undone
                   /\ applies'[b].depth = applies[b].depth /\ applies'[b].new = applies[b].new
  <2>1. applies'[b] = [applies[b] EXCEPT !.alone = FALSE]
    BY <1>1
  <2>2. [NoApply EXCEPT !.alone = FALSE] = NoApply
    <3> DEFINE T == [stage : {"idle"}, new : {"none"}, old : {"none"}, depth : {0},
                     undone : {FALSE}, alone : {FALSE}]
    <3>1. ASSUME NEW r \in T PROVE [r EXCEPT !.alone = FALSE] = r
      OBVIOUS
    <3>2. NoApply \in T
      BY DEF NoApply
    <3> HIDE DEF T
    <3>3. QED
      BY <3>1, <3>2
  <2> DEFINE q == [applies[b] EXCEPT !.alone = FALSE]
  <2>3. ASSUME applies[b] \in Apply
        PROVE  /\ q \in Apply /\ ~q.alone /\ q.undone = applies[b].undone
               /\ q.depth = applies[b].depth /\ q.new = applies[b].new
    BY <2>3 DEF Apply
  <2>4. applies[b] = NoApply => q = NoApply
    BY <2>2
  <2> HIDE DEF q
  <2>5. applies'[b] = q
    BY <2>1 DEF q
  <2>6. QED
    BY <2>3, <2>4, <2>5
<1>6. applies'[a] = n
  BY <1>1
<1>7. \A b \in Appliers : applies[b] = NoApply \/ applies[b] \in Apply
  BY <1>1 DEF IfaceType
<1>8. IfaceType'
  <2>1. \A b \in Appliers : applies'[b] \in {NoApply} \cup Apply
    BY <1>2, <1>5, <1>6, <1>7
  <2>2. applies' \in [Appliers -> {NoApply} \cup Apply]
    BY <1>1, <2>1
  <2>3. QED
    BY <1>1, <2>2 DEF IfaceType
<1>9. AloneInv'
  BY <1>2, <1>3, <1>4, <1>5, <1>6, <1>7, NoApplyStage DEF AloneInv
<1>10. NicInv'
  <2> SUFFICES ASSUME ~broken, alone PROVE NicInv'
    BY <1>1 DEF NicInv
  <2>1. nic = good.nic /\ \A b \in Appliers \ {a} : applies'[b] = NoApply
    BY <1>1, <1>4, <1>5 DEF NicInv
  <2>2. n # NoApply
    BY <1>2, NoApplyStage
  <2>3. QED
    BY <1>1, <1>3, <1>6, <2>1, <2>2, NoApplyStage DEF NicInv
<1>11. UndoInv'
  <2>1. depth - depth = 0 /\ depth =< depth
    BY <1>1 DEF IfaceType
  <2>2. Same(Back(row, snaps, 0), row)
    BY DEF Back, Same
  <2>3. ASSUME NEW b \in Appliers \ {a}, applies'[b] \in Apply
        PROVE  /\ applies[b] \in Apply /\ applies'[b].undone = applies[b].undone
               /\ applies'[b].depth = applies[b].depth /\ applies'[b].new = applies[b].new
    BY <1>5, <1>7, <2>3, NoApplyStage
  <2>4. QED
    BY <1>1, <1>3, <1>6, <2>1, <2>2, <2>3 DEF UndoInv
<1>12. QED
  BY <1>8, <1>9, <1>10, <1>11 DEF IfaceInv

\* An apply succeeds: what it read becomes what an undo leads back to.
LEMMA SetMtuKeeps ==
  ASSUME IfaceInv, NEW a \in Appliers, NEW ok \in BOOLEAN, SetMtu(a, ok)
  PROVE  IfaceInv'
<1> DEFINE p == applies[a]
<1>1. /\ p.stage = "mtu" /\ UNCHANGED <<row, snaps, made, reqs>>
      /\ applies' = [applies EXCEPT ![a] = NoApply]
      /\ nic' = IF ok THEN [nic EXCEPT !.mtu = p.new.mtu] ELSE nic
      /\ good' = [row |-> p.new, nic |-> nic']
      /\ astray' = (astray \/ p.undone \/ ~p.alone)
      /\ broken' = ~p.alone
      /\ depth' = IF depth < p.depth THEN 0 ELSE depth - p.depth
      /\ IfaceType /\ AloneInv /\ UndoInv
  BY DEF SetMtu, EndApply, IfaceInv
<1>2. p \in Apply /\ p # NoApply /\ p.new \in Conf /\ p.depth \in Nat
  BY <1>1, NoApplyStage DEF IfaceType, Apply
<1>3. nic' \in Conf
  BY <1>1, <1>2 DEF IfaceType, Conf
<1>4. good'.row = p.new /\ good'.nic = nic' /\ good' \in [row : Conf, nic : Conf]
  BY <1>1, <1>2, <1>3
<1>5. depth' \in Nat
  BY <1>1, <1>2 DEF IfaceType
<1>6. /\ applies' \in [Appliers -> {NoApply} \cup Apply]
      /\ applies'[a] = NoApply /\ \A b \in Appliers \ {a} : applies'[b] = applies[b]
  BY <1>1 DEF IfaceType
<1>7. IfaceType'
  BY <1>1, <1>3, <1>4, <1>5, <1>6 DEF IfaceType
<1>8. AloneInv'
  BY <1>1, <1>2, <1>6, NoApplyStage DEF AloneInv
<1>9. p.alone => \A b \in Appliers : applies'[b] = NoApply
  BY <1>1, <1>2, <1>6 DEF AloneInv
<1>10. NicInv'
  BY <1>1, <1>4, <1>9, NoApplyStage DEF NicInv
<1>11. UndoInv'
  <2> SUFFICES ASSUME ~astray, ~p.undone, p.alone PROVE UndoInv'
    BY <1>1 DEF UndoInv
  <2>1. /\ depth =< Len(snaps) /\ p.depth =< depth
        /\ Same(Back(row, snaps, depth - p.depth), p.new)
    BY <1>1, <1>2 DEF UndoInv
  <2>2. Len(snaps) \in Nat /\ depth \in Nat
    BY <1>1, LenProperties DEF IfaceType
  <2>3. depth' = depth - p.depth /\ depth' =< Len(snaps)
    BY <1>1, <1>2, <2>1, <2>2
  <2>4. QED
    BY <1>1, <1>4, <1>9, <2>1, <2>3, NoApplyStage DEF UndoInv
<1>12. QED
  BY <1>7, <1>8, <1>10, <1>11 DEF IfaceInv

\* IfaceInv is inductive.
LEMMA IfaceInvInductive ==
  ASSUME IfaceInv, IfaceNext \/ UNCHANGED ifaceVars
  PROVE  IfaceInv'
<1>0. IfaceType /\ AloneInv /\ NicInv /\ UndoInv
  BY DEF IfaceInv
<1>1. ASSUME NEW new \in Rows, SaveElsewhere(new) PROVE IfaceInv'
  <2>1. IfaceType'
    BY <1>0, <1>1, RowsAreConf DEF SaveElsewhere, IfaceType
  <2>2. AloneInv' /\ NicInv'
    BY <1>0, <1>1, NicKept DEF SaveElsewhere
  <2>3. UndoInv'
    BY <1>1 DEF SaveElsewhere, UndoInv
  <2>4. QED
    BY <2>1, <2>2, <2>3 DEF IfaceInv
<1>2. CASE UNCHANGED ifaceVars
  BY <1>0, <1>2 DEF ifaceVars, IfaceInv, IfaceType, AloneInv, NicInv, UndoInv
<1>3. CASE RowStep
  BY <1>1, <1>3, ReadKeeps, UpdateKeeps, RollbackKeeps DEF RowStep
<1>4. ASSUME NEW a \in Appliers, ApplyStep(a) PROVE IfaceInv'
  BY <1>4, ApplyKeeps, CaptureKeeps, SetMtuKeeps DEF ApplyStep
<1>5. QED
  BY <1>2, <1>3, <1>4 DEF IfaceNext

\* Undo restores, for any number of changes, rollbacks and applies in any order:
\* rollback_interface takes the snapshots back in the order they were made, and an
\* apply that is rolled back leaves the interface as the last success did, but for the
\* overlaps and failures that astray and broken name.
THEOREM UndoIsExact == Spec => []UndoRestores
<1>1. Init => IfaceInv
  <2> SUFFICES ASSUME Init PROVE IfaceInv
    OBVIOUS
  <2>1. /\ row \in Rows /\ nic = row /\ snaps = <<>> /\ made = 0
        /\ reqs = [c \in Clerks |-> NoReq] /\ applies = [a \in Appliers |-> NoApply]
        /\ good = [row |-> row, nic |-> row] /\ depth = 0
    BY DEF Init, IfaceInit
  <2>2. row \in Conf
    BY <2>1, RowsAreConf
  <2>3. snaps \in Seq(Snap) /\ Len(snaps) = 0
    BY <2>1, EmptySeq
  <2>4. IfaceType /\ good.nic = row /\ good.row = row /\ \A a \in Appliers : applies[a] = NoApply
    BY <2>1, <2>2, <2>3 DEF IfaceType
  <2>5. AloneInv /\ NicInv
    BY <2>1, <2>4, NoApplyStage DEF AloneInv, NicInv
  <2>6. UndoInv
    BY <2>1, <2>3, <2>4, NoApplyStage DEF UndoInv, Back, Same
  <2>7. QED
    BY <2>4, <2>5, <2>6 DEF IfaceInv
<1>2. IfaceInv /\ [Next]_consoleVars => IfaceInv'
  <2>1. [Next]_consoleVars => IfaceNext \/ UNCHANGED ifaceVars
    BY DEF Next, DeskStep, IdsBlockStep, SocBlockStep, AccessStep, IfaceStep,
           MigStep, SnapStep, consoleVars
  <2>2. QED
    BY <2>1, IfaceInvInductive
<1>3. IfaceInv => UndoRestores
  <2> SUFFICES ASSUME IfaceInv PROVE UndoRestores
    OBVIOUS
  <2>1. Applying = {} => \A a \in Appliers : applies[a] = NoApply
    BY DEF Applying, IfaceInv, IfaceType, Apply, Stages
  <2>2. QED
    BY <2>1 DEF IfaceInv, NicInv, UndoInv, UndoRestores, Back
<1>4. QED
  BY <1>1, <1>2, <1>3, PTL DEF Spec
-----------------------------------------------------------------------------
\* A set of numbers has a least element, and a greatest if it is bounded.
LEMMA Least ==
  ASSUME NEW T \in SUBSET Nat, T # {}
  PROVE  \E x \in T : \A y \in T : x =< y
<1> DEFINE R == OpToRel(<, Nat)
<1>1. IsWellFoundedOn(R, Nat)
  BY NatLessThanWellFounded
<1>2. ASSUME NEW x \in Nat, NEW y \in Nat, <<y, x>> \notin R PROVE x =< y
  BY <1>2 DEF OpToRel
<1> HIDE DEF R
<1>3. \E x \in T : \A y \in T : <<y, x>> \notin R
  BY <1>1, WFMin
<1>4. QED
  BY <1>2, <1>3

\* A nonempty set of integers with an upper bound has a greatest element.
LEMMA Greatest ==
  ASSUME NEW T \in SUBSET Int, T # {}, NEW b \in Int, \A x \in T : x =< b
  PROVE  \E x \in T : \A y \in T : y =< x
<1> DEFINE U == {b - x : x \in T}
<1>1. U \in SUBSET Nat
  <2>1. ASSUME NEW x \in T PROVE b - x \in Nat
    BY <2>1
  <2>2. QED
    BY <2>1
<1>2. U # {}
  OBVIOUS
<1>3. PICK u \in U : \A v \in U : u =< v
  BY <1>1, <1>2, Least
<1>4. PICK x \in T : u = b - x
  OBVIOUS
<1>5. ASSUME NEW y \in T PROVE y =< x
  <2>1. b - y \in U
    OBVIOUS
  <2>2. b - x =< b - y
    BY <1>3, <1>4, <2>1
  <2>3. x \in Int /\ y \in Int
    OBVIOUS
  <2>4. QED
    BY <2>2, <2>3
<1>6. QED
  BY <1>5

\* What Max chooses is that element.
LEMMA MaxIsGreatest ==
  ASSUME NEW T \in SUBSET Int, T # {}, NEW b \in Int, \A x \in T : x =< b
  PROVE  Max(T) \in T /\ \A y \in T : y =< Max(T)
<1>1. \E x \in T : \A y \in T : x >= y
  BY Greatest
<1>2. Max(T) \in T /\ \A y \in T : Max(T) >= y
  BY <1>1, Zenon DEF Max
<1>3. QED
  BY <1>2

\* What Min chooses in a nonempty set of naturals is its least element.
LEMMA MinIsLeast ==
  ASSUME NEW T \in SUBSET Nat, T # {}
  PROVE  Min(T) \in T /\ \A y \in T : Min(T) =< y
<1>1. \E x \in T : \A y \in T : x =< y
  BY Least
<1>2. QED
  BY <1>1, Zenon DEF Min
-----------------------------------------------------------------------------
\* Every statement of migration v is in place.
InPlace(v) == \A j \in DOMAIN Scripts[v] : <<v, j>> \in settled

\* A transaction records no version but that of the migration under way.
OpenType(s) == open[s] # <<>> =>
    /\ 1 \in DOMAIN open[s] /\ DOMAIN open[s][1] = {"stmts", "vs"}
    /\ open[s][1].vs \subseteq {at[s].v}

MigType ==
    /\ versions \in SUBSET (1..Current + 1)
    /\ at \in [Starters -> [v : Nat, i : Nat]]
    /\ open = [s \in Starters |-> open[s]] /\ \A s \in Starters : OpenType(s)

\* Where starter s is in its migrations: the ones below are in place, of the
\* present one all that it has passed is in place or in its transaction, and the
\* version is recorded in a transaction before it is committed.
Progress(s) ==
    IF Running(s)
    THEN /\ at[s].i \in 1..Len(Scripts[at[s].v]) + 2
         /\ \A j \in DOMAIN Scripts[at[s].v] : j < at[s].i =>
               <<at[s].v, j>> \in settled \/ j \in Held(s)
         /\ \A v \in DOMAIN Scripts \ skipped : v < at[s].v => InPlace(v)
         /\ at[s].i = Len(Scripts[at[s].v]) + 2 => open[s] # <<>>
    ELSE open[s] = <<>>

\* Each recorded version, not only the newest, is a promise.
Whole == \A d \in versions : \A v \in DOMAIN Scripts \ skipped : v =< d => InPlace(v)

MigInv == MigType /\ Whole /\ \A s \in Starters : Progress(s)

\* What the assumption on the scripts says of every version's statements.
LEMMA ScriptsType ==
    /\ DOMAIN Scripts = 1..Current /\ Current \in Nat \ {0}
    /\ Bootstrap \in 1..Current /\ DOMAIN Scripts[1] = {}
    /\ \A v \in DOMAIN Scripts :
          Len(Scripts[v]) \in Nat /\ DOMAIN Scripts[v] = 1..Len(Scripts[v])
<1> DEFINE K == Ddls \cup Dmls \cup {"script"}
<1>1. Scripts \in Seq(Seq(K)) /\ Bootstrap \in DOMAIN Scripts /\ Scripts[1] = <<>>
  BY MigrationsAssumption
<1> HIDE DEF K
<1>2. DOMAIN Scripts = 1..Current /\ Current \in Nat
  BY <1>1, LenProperties DEF Current
<1>3. \A v \in DOMAIN Scripts : Scripts[v] \in Seq(K)
  BY <1>1, <1>2, ElementOfSeq DEF Current
<1>4. \A v \in DOMAIN Scripts :
        Len(Scripts[v]) \in Nat /\ DOMAIN Scripts[v] = 1..Len(Scripts[v])
  BY <1>3, LenProperties
<1>5. QED
  BY <1>1, <1>2, <1>4

\* The version of the database is the newest one recorded, 0 for none.
LEMMA DbVersionIsNewest ==
  ASSUME MigType
  PROVE  /\ DbVersion \in versions \cup {0} /\ DbVersion \in Nat
         /\ \A v \in versions : v =< DbVersion
<1>1. versions \cup {0} \in SUBSET Int /\ versions \cup {0} # {}
      /\ Current + 1 \in Int /\ \A x \in versions \cup {0} : x =< Current + 1
  BY ScriptsType DEF MigType
<1>2. DbVersion \in versions \cup {0} /\ \A y \in versions \cup {0} : y =< DbVersion
  BY <1>1, MaxIsGreatest DEF DbVersion
<1>3. versions \cup {0} \subseteq Nat
  BY ScriptsType DEF MigType
<1>4. QED
  BY <1>2, <1>3

\* A step of starter s that leaves the recorded versions alone: what is in place
\* stays in place, so only s itself is to be looked at.
LEMMA OnlyStarter ==
  ASSUME MigInv, NEW s \in Starters, NEW p \in [v : Nat, i : Nat], NEW o,
         at' = [at EXCEPT ![s] = p], open' = [open EXCEPT ![s] = o],
         settled \subseteq settled', UNCHANGED <<versions, skipped>>,
         OpenType(s)', Progress(s)'
  PROVE  MigInv'
<1>1. \A v : InPlace(v) => InPlace(v)'
  BY DEF InPlace
<1>2. MigType'
  <2>1. ASSUME NEW t \in Starters, t # s PROVE OpenType(t)'
    <3>1. at'[t] = at[t] /\ open'[t] = open[t]
      BY <2>1 DEF MigInv, MigType
    <3>2. QED
      BY <3>1 DEF MigInv, MigType, OpenType
  <2>2. QED
    BY <2>1 DEF MigInv, MigType
<1>3. Whole'
  BY <1>1 DEF MigInv, Whole
<1>4. ASSUME NEW t \in Starters, t # s PROVE Progress(t)'
  <2>1. at'[t] = at[t] /\ open'[t] = open[t]
    BY <1>4 DEF MigInv, MigType
  <2>2. Progress(t) /\ (Running(t)' <=> Running(t)) /\ Held(t)' = Held(t)
    BY <2>1 DEF MigInv, Running, Held
  <2>3. QED
    BY <1>1, <2>1, <2>2 DEF Progress
<1>5. QED
  BY <1>2, <1>3, <1>4 DEF MigInv

\* A step to another place n of the migration under way, after which the
\* transaction holds a record o, or nothing.
LEMMA StatementKeeps ==
  ASSUME MigInv, NEW s \in Starters, Running(s),
         NEW n \in 1..Len(Scripts[at[s].v]) + 2, at' = [at EXCEPT ![s].i = n],
         NEW o, open' = [open EXCEPT ![s] = o],
         o # <<>> => /\ 1 \in DOMAIN o /\ DOMAIN o[1] = {"stmts", "vs"}
                     /\ o[1].vs \subseteq {at[s].v},
         n = Len(Scripts[at[s].v]) + 2 => o # <<>>,
         settled \subseteq settled', UNCHANGED <<versions, skipped>>,
         \A j \in DOMAIN Scripts[at[s].v] : j < n =>
            <<at[s].v, j>> \in settled' \/ (o # <<>> /\ j \in o[1].stmts)
  PROVE  MigInv'
<1> DEFINE p == [at[s] EXCEPT !.i = n]
<1>1. p \in [v : Nat, i : Nat] /\ p.v = at[s].v /\ p.i = n
  <2>1. n \in Nat
    BY ScriptsType DEF Running
  <2>2. QED
    BY <2>1 DEF MigInv, MigType
<1>2. at' = [at EXCEPT ![s] = p] /\ at'[s] = p /\ open'[s] = o
  BY DEF MigInv, MigType
<1> HIDE DEF p
<1>3. OpenType(s)'
  BY <1>1, <1>2 DEF OpenType
<1>4. \A v : InPlace(v) => InPlace(v)'
  BY DEF InPlace
<1>5. Progress(s)'
  <2>1. Running(s)'
    BY <1>1, <1>2 DEF Running
  <2>2. Held(s)' = IF o = <<>> THEN {} ELSE o[1].stmts
    BY <1>2 DEF Held
  <2>3. \A v \in DOMAIN Scripts \ skipped : v < at[s].v => InPlace(v)'
    BY <1>4 DEF MigInv, Progress
  <2>4. QED
    BY <1>1, <1>2, <2>1, <2>2, <2>3 DEF Progress
<1>6. QED
  BY <1>1, <1>2, <1>3, <1>5, OnlyStarter

\* init_db records only what is skipped or was a promise before.
LEMMA InitDbKeeps ==
  ASSUME MigInv, NEW s \in Starters, InitDb(s)
  PROVE  MigInv'
<1> DEFINE new == {v \in 2..Bootstrap : v > DbVersion}
<1>1. /\ at[s] = Idle /\ versions' = versions \cup new /\ skipped' = skipped \cup new
      /\ at' = [at EXCEPT ![s] = Initialised] /\ UNCHANGED <<settled, open>>
  BY DEF InitDb
<1>2. /\ DbVersion \in versions \cup {0} /\ DbVersion \in Nat
      /\ \A v \in versions : v =< DbVersion
  BY DbVersionIsNewest DEF MigInv
<1>3. Initialised \in [v : Nat, i : Nat] /\ Initialised.v = 0 /\ Idle.v = 0
  BY DEF Initialised, Idle
<1>4. open[s] = <<>>
  <2>1. 0 \notin DOMAIN Scripts
    BY ScriptsType
  <2>2. ~Running(s)
    BY <1>1, <1>3, <2>1 DEF Running
  <2>3. QED
    BY <2>2 DEF MigInv, Progress
<1>5. new \in SUBSET (1..Current + 1)
  BY ScriptsType
<1>6. MigType'
  <2>1. ASSUME NEW t \in Starters PROVE OpenType(t)'
    <3>1. open'[t] = open[t] /\ (t # s => at'[t] = at[t])
      BY <1>1 DEF MigInv, MigType
    <3>2. CASE t = s
      BY <1>4, <3>1, <3>2 DEF OpenType
    <3>3. CASE t # s
      BY <3>1, <3>3 DEF MigInv, MigType, OpenType
    <3>4. QED
      BY <3>2, <3>3
  <2>2. QED
    BY <1>1, <1>3, <1>5, <2>1 DEF MigInv, MigType
<1>7. \A v : InPlace(v)' <=> InPlace(v)
  BY <1>1 DEF InPlace
<1>8. Whole'
  <2> SUFFICES ASSUME NEW d \in versions', NEW v \in DOMAIN Scripts \ skipped', v =< d
               PROVE  InPlace(v)
    BY <1>7 DEF Whole
  <2>1. CASE d \in versions
    BY <1>1, <2>1 DEF MigInv, Whole
  <2>2. CASE d \in new /\ v = 1
    BY <2>2, ScriptsType DEF InPlace
  <2>3. CASE d \in new /\ v # 1
    <3>1. v \in 2..Bootstrap /\ v \notin new
      BY <1>1, <2>3, ScriptsType
    <3>2. v =< DbVersion /\ DbVersion # 0
      BY <1>2, <3>1, ScriptsType
    <3>3. QED
      BY <1>1, <1>2, <3>2 DEF MigInv, Whole
  <2>4. QED
    BY <1>1, <2>1, <2>2, <2>3
<1>9. ASSUME NEW t \in Starters PROVE Progress(t)'
  <2>1. CASE t = s
    <3>1. at'[t] = Initialised /\ 0 \notin DOMAIN Scripts
      BY <1>1, <2>1, ScriptsType DEF MigInv, MigType
    <3>2. ~Running(t)'
      BY <1>3, <3>1 DEF Running
    <3>3. QED
      BY <1>1, <1>4, <2>1, <3>2 DEF Progress
  <2>2. CASE t # s
    <3>1. at'[t] = at[t] /\ open'[t] = open[t]
      BY <1>1, <2>2 DEF MigInv, MigType
    <3>2. Progress(t) /\ (Running(t)' <=> Running(t)) /\ Held(t)' = Held(t)
      BY <3>1 DEF MigInv, Running, Held
    <3>3. QED
      BY <1>1, <1>7, <3>1, <3>2 DEF Progress
  <2>3. QED
    BY <2>1, <2>2
<1>10. QED
  BY <1>6, <1>8, <1>9 DEF MigInv

\* run_migrations begins with the first migration above the recorded ones.
LEMMA RunMigrationsKeeps ==
  ASSUME MigInv, NEW s \in Starters, RunMigrations(s)
  PROVE  MigInv'
<1>1. /\ at[s] = Initialised /\ UNCHANGED <<settled, versions, open, skipped>>
      /\ at' = [at EXCEPT ![s] =
                  IF DbVersion > Current \/ Pending(DbVersion) = {} THEN Idle
                  ELSE [v |-> Min(Pending(DbVersion)), i |-> 1]]
  BY DEF RunMigrations
<1>2. /\ DbVersion \in versions \cup {0} /\ DbVersion \in Nat
      /\ \A v \in versions : v =< DbVersion
  BY DbVersionIsNewest DEF MigInv
<1>3. /\ Idle \in [v : Nat, i : Nat] /\ Idle.v = 0 /\ Initialised.v = 0
      /\ 0 \notin DOMAIN Scripts
  BY ScriptsType DEF Initialised, Idle
<1>4. open[s] = <<>> /\ open' = [open EXCEPT ![s] = <<>>]
  <2>1. ~Running(s)
    BY <1>1, <1>3 DEF Running
  <2>2. QED
    BY <1>1, <2>1 DEF MigInv, Progress, MigType
<1>5. ASSUME NEW p \in [v : Nat, i : Nat], at' = [at EXCEPT ![s] = p], Progress(s)'
      PROVE  MigInv'
  <2>1. OpenType(s)'
    BY <1>1, <1>4 DEF OpenType
  <2>2. QED
    BY <1>1, <1>4, <1>5, <2>1, OnlyStarter
<1>6. CASE at' = [at EXCEPT ![s] = Idle]
  <2>1. ~Running(s)'
    BY <1>3, <1>6 DEF Running, MigInv, MigType
  <2>2. Progress(s)'
    BY <1>1, <1>4, <2>1 DEF Progress
  <2>3. QED
    BY <1>3, <1>5, <1>6, <2>2
<1>7. CASE /\ Pending(DbVersion) # {}
           /\ at' = [at EXCEPT ![s] = [v |-> Min(Pending(DbVersion)), i |-> 1]]
  <2> DEFINE m == Min(Pending(DbVersion))
             p == [v |-> m, i |-> 1]
  <2>1. Pending(DbVersion) \in SUBSET Nat
    BY ScriptsType DEF Pending
  <2>2. m \in Pending(DbVersion) /\ \A y \in Pending(DbVersion) : m =< y
    BY <1>7, <2>1, MinIsLeast
  <2>3. at' = [at EXCEPT ![s] = p]
    BY <1>7
  <2> HIDE DEF m
  <2>4. m \in DOMAIN Scripts /\ m > DbVersion /\ m \in Nat
    BY <2>1, <2>2 DEF Pending
  <2>5. p \in [v : Nat, i : Nat] /\ p.v = m /\ p.i = 1
    BY <2>4
  <2> HIDE DEF p
  <2>6. at'[s] = p /\ Running(s)'
    <3>1. at'[s] = p
      BY <2>3 DEF MigInv, MigType
    <3>2. QED
      BY <2>4, <2>5, <3>1 DEF Running
  <2>7. \A v \in DOMAIN Scripts \ skipped : v < m => InPlace(v)'
    <3> SUFFICES ASSUME NEW v \in DOMAIN Scripts \ skipped, v < m PROVE InPlace(v)
      BY <1>1 DEF InPlace
    <3>1. v \in Nat \ {0} /\ v =< DbVersion
      BY <1>2, <2>2, <2>4, ScriptsType DEF Pending
    <3>2. DbVersion \in versions
      BY <1>2, <3>1
    <3>3. QED
      BY <3>1, <3>2 DEF MigInv, Whole
  <2>8. /\ Len(Scripts[m]) \in Nat /\ DOMAIN Scripts[m] = 1..Len(Scripts[m])
    BY <2>4, ScriptsType
  <2>9. Progress(s)'
    BY <1>1, <2>5, <2>6, <2>7, <2>8 DEF Progress
  <2>10. QED
    BY <1>5, <2>3, <2>5, <2>9
<1>8. QED
  BY <1>1, <1>6, <1>7

\* What a transaction with the statements X and the versions V looks like.
LEMMA TransactionIs ==
  ASSUME NEW X, NEW V
  PROVE  /\ Transaction(X, V) # <<>> /\ 1 \in DOMAIN Transaction(X, V)
         /\ DOMAIN Transaction(X, V)[1] = {"stmts", "vs"}
         /\ Transaction(X, V)[1].stmts = X /\ Transaction(X, V)[1].vs = V
BY DEF Transaction

\* The statements of a migration, one after the other.
LEMMA StatementsKeep ==
  ASSUME MigInv, NEW s \in Starters,
         Ddl(s) \/ Dml(s) \/ SeedPresent(s) \/ Script(s) \/ Swallow(s)
  PROVE  MigInv'
<1> DEFINE v == at[s].v
           i == at[s].i
<1>1. Running(s) /\ i \in DOMAIN Scripts[v] /\ UNCHANGED <<versions, skipped>>
  BY DEF Ddl, Dml, SeedPresent, Script, Swallow, AtStatement
<1>2. /\ Len(Scripts[v]) \in Nat /\ DOMAIN Scripts[v] = 1..Len(Scripts[v])
      /\ i + 1 \in 1..Len(Scripts[v]) + 2 /\ i + 1 # Len(Scripts[v]) + 2
      /\ \A j \in DOMAIN Scripts[v] : j < i + 1 => j < i \/ j = i
  <2> DEFINE n == Len(Scripts[v])
  <2>1. n \in Nat /\ DOMAIN Scripts[v] = 1..n
    BY <1>1, ScriptsType DEF Running
  <2>2. i \in 1..n
    BY <1>1, <2>1
  <2> HIDE DEF n, i
  <2>3. /\ i + 1 \in 1..n + 2 /\ i + 1 # n + 2
        /\ \A j \in 1..n : j < i + 1 => j < i \/ j = i
    BY <2>1, <2>2
  <2>4. QED
    BY <2>1, <2>3 DEF n
<1>3. \A j \in DOMAIN Scripts[v] : j < i =>
        <<v, j>> \in settled \/ (open[s] # <<>> /\ j \in open[s][1].stmts)
  BY <1>1 DEF MigInv, Progress, Held
<1>4. OpenType(s) /\ open = [t \in Starters |-> open[t]] /\ at \in [Starters -> [v : Nat, i : Nat]]
  BY DEF MigInv, MigType
<1>5. ASSUME NEW o, open' = [open EXCEPT ![s] = o], Step(s), settled \subseteq settled',
             o # <<>> => /\ 1 \in DOMAIN o /\ DOMAIN o[1] = {"stmts", "vs"}
                         /\ o[1].vs \subseteq {v},
             \A j \in DOMAIN Scripts[v] : j < i \/ j = i =>
                <<v, j>> \in settled' \/ (o # <<>> /\ j \in o[1].stmts)
      PROVE  MigInv'
  <2>1. at' = [at EXCEPT ![s].i = i + 1]
    BY <1>5 DEF Step
  <2>2. QED
    BY <1>1, <1>2, <1>5, <2>1, StatementKeeps
<1>6. open' = open => open' = [open EXCEPT ![s] = open[s]]
  BY <1>4
<1>7. CASE Ddl(s)
  <2>1. CASE open[s] = <<>>
    <3>1. Step(s) /\ open' = open /\ settled' = settled \cup ({v} \X {i})
      BY <1>7, <2>1 DEF Ddl, Settle
    <3>2. \A j \in DOMAIN Scripts[v] : j < i \/ j = i => <<v, j>> \in settled'
      BY <1>3, <2>1, <3>1
    <3>3. QED
      BY <1>5, <1>6, <2>1, <3>1, <3>2
  <2>2. CASE open[s] # <<>>
    <3> DEFINE o == [open[s] EXCEPT ![1].stmts = @ \cup {i}]
    <3>1. Step(s) /\ settled' = settled /\ open' = [open EXCEPT ![s] = o]
      BY <1>7, <2>2 DEF Ddl
    <3>2. /\ 1 \in DOMAIN o /\ DOMAIN o[1] = {"stmts", "vs"}
          /\ o[1].vs = open[s][1].vs /\ o[1].stmts = open[s][1].stmts \cup {i}
      BY <1>4, <2>2 DEF OpenType
    <3>3. o # <<>>
      BY <3>2
    <3> HIDE DEF o
    <3>4. o[1].vs \subseteq {v}
      BY <1>4, <2>2, <3>2 DEF OpenType
    <3>5. QED
      BY <1>3, <1>5, <3>1, <3>2, <3>3, <3>4
  <2>3. QED
    BY <2>1, <2>2
<1>8. CASE Dml(s)
  <2> DEFINE X == IF open[s] = <<>> THEN {i} ELSE open[s][1].stmts \cup {i}
             V == IF open[s] = <<>> THEN {} ELSE open[s][1].vs
             o == Transaction(X, V)
  <2>1. Step(s) /\ settled' = settled /\ open' = [open EXCEPT ![s] = o]
    BY <1>8 DEF Dml
  <2>2. /\ o # <<>> /\ 1 \in DOMAIN o /\ DOMAIN o[1] = {"stmts", "vs"}
        /\ o[1].stmts = X /\ o[1].vs = V
    BY TransactionIs
  <2>3. V \subseteq {v}
    BY <1>4 DEF OpenType
  <2>4. \A j \in DOMAIN Scripts[v] : j < i \/ j = i => <<v, j>> \in settled \/ j \in X
    BY <1>3
  <2> HIDE DEF o, X, V
  <2>5. QED
    BY <1>5, <2>1, <2>2, <2>3, <2>4
<1>9. CASE SeedPresent(s)
  <2>1. Step(s) /\ open' = open /\ settled' = settled \cup ({v} \X {i})
    BY <1>9 DEF SeedPresent, Settle
  <2>2. \A j \in DOMAIN Scripts[v] : j < i \/ j = i =>
          <<v, j>> \in settled' \/ (open[s] # <<>> /\ j \in open[s][1].stmts)
    BY <1>3, <2>1
  <2>3. QED
    BY <1>4, <1>5, <1>6, <2>1, <2>2 DEF OpenType
<1>10. CASE Script(s)
  <2>1. /\ Step(s) /\ open' = [open EXCEPT ![s] = <<>>]
        /\ settled' = settled \cup ({v} \X ({i} \cup Held(s)))
    BY <1>10 DEF Script, Settle
  <2>2. \A j \in DOMAIN Scripts[v] : j < i \/ j = i => <<v, j>> \in settled'
    BY <1>3, <2>1 DEF Held
  <2>3. QED
    BY <1>5, <2>1, <2>2
<1>11. CASE Swallow(s)
  <2> DEFINE script == Scripts[v]
             J == {j \in i..Len(script) + 1 : j \in DOMAIN script => script[j] \notin Wrapped}
             past == Min(J)
  <2>1. /\ settled' = settled \cup ({v} \X (i..past - 1))
        /\ at' = [at EXCEPT ![s].i = past] /\ open' = open
    BY <1>11 DEF Swallow, Settle
  <2>2. J \in SUBSET Nat /\ Len(script) + 1 \in J
    <3>1. i \in Nat /\ Len(script) \in Nat /\ DOMAIN script = 1..Len(script)
          /\ i =< Len(script) + 1
      BY <1>1, <1>2
    <3>2. J \subseteq i..Len(script) + 1
      OBVIOUS
    <3>3. i..Len(script) + 1 \subseteq Nat
      BY <3>1
    <3>4. Len(script) + 1 \notin DOMAIN script /\ Len(script) + 1 \in i..Len(script) + 1
      BY <3>1
    <3>5. QED
      BY <3>2, <3>3, <3>4
  <2>3. past \in J
    BY <2>2, MinIsLeast
  <2> HIDE DEF past
  <2>4. /\ past \in i..Len(script) + 1 /\ past \in 1..Len(script) + 2
        /\ past # Len(script) + 2
    BY <1>1, <1>2, <2>3
  <2>5. \A j \in DOMAIN script : j < past => j < i \/ j \in i..past - 1
    BY <1>1, <1>2, <2>4
  <2>6. \A j \in DOMAIN script : j < past =>
          <<v, j>> \in settled' \/ (open[s] # <<>> /\ j \in open[s][1].stmts)
    BY <1>3, <2>1, <2>5
  <2>7. settled \subseteq settled'
    BY <2>1
  <2>8. QED
    BY <1>1, <1>4, <1>6, <2>1, <2>4, <2>6, <2>7, StatementKeeps DEF OpenType
<1>12. QED
  BY <1>7, <1>8, <1>9, <1>10, <1>11

\* The version is written into the transaction of the migration.
LEMMA SetDbVersionKeeps ==
  ASSUME MigInv, NEW s \in Starters, SetDbVersion(s)
  PROVE  MigInv'
<1> DEFINE v == at[s].v
           o == Transaction(Held(s), {v})
<1>1. /\ Running(s) /\ at[s].i = Len(Scripts[v]) + 1
      /\ open' = [open EXCEPT ![s] = o] /\ UNCHANGED <<settled, versions, skipped>>
      /\ at' = [at EXCEPT ![s].i = at[s].i + 1]
  BY DEF SetDbVersion, Step
<1>2. /\ o # <<>> /\ 1 \in DOMAIN o /\ DOMAIN o[1] = {"stmts", "vs"}
      /\ o[1].stmts = Held(s) /\ o[1].vs = {v}
  BY TransactionIs
<1>3. /\ Len(Scripts[v]) \in Nat /\ DOMAIN Scripts[v] = 1..Len(Scripts[v])
  BY <1>1, ScriptsType DEF Running
<1>4. at[s].i + 1 \in 1..Len(Scripts[v]) + 2
  BY <1>1, <1>3
<1>5. \A j \in DOMAIN Scripts[v] : <<v, j>> \in settled \/ j \in Held(s)
  BY <1>1, <1>3 DEF MigInv, Progress
<1> HIDE DEF o
<1> DEFINE n == at[s].i + 1
<1>6. n # Len(Scripts[v]) + 2 \/ o # <<>>
  BY <1>2
<1>7. o[1].vs \subseteq {v} /\ settled \subseteq settled'
  BY <1>1, <1>2
<1>8. \A j \in DOMAIN Scripts[v] : j < n =>
        <<v, j>> \in settled' \/ (o # <<>> /\ j \in o[1].stmts)
  BY <1>1, <1>2, <1>5
<1>9. n \in 1..Len(Scripts[v]) + 2 /\ at' = [at EXCEPT ![s].i = n]
  BY <1>1, <1>4
<1> HIDE DEF n
<1>10. QED
  BY <1>1, <1>2, <1>6, <1>7, <1>8, <1>9, StatementKeeps

\* The commit: the migration is in place with its version, and the next begins.
LEMMA CommitKeeps ==
  ASSUME MigInv, NEW s \in Starters, Commit(s)
  PROVE  MigInv'
<1> SUFFICES ASSUME NEW v, v = at[s].v PROVE MigInv'
  OBVIOUS
<1>1. /\ Running(s) /\ at[s].i = Len(Scripts[v]) + 2
      /\ settled' = settled \cup ({v} \X Held(s))
      /\ versions' = versions \cup open[s][1].vs
      /\ open' = [open EXCEPT ![s] = <<>>]
      /\ at' = [at EXCEPT ![s] = IF v = Current THEN Idle ELSE [v |-> v + 1, i |-> 1]]
      /\ skipped' = skipped
  BY DEF Commit, Settle
<1>2. /\ v \in 1..Current /\ Len(Scripts[v]) \in Nat
      /\ DOMAIN Scripts[v] = 1..Len(Scripts[v]) /\ v \in DOMAIN Scripts
  BY <1>1, ScriptsType DEF Running
<1>3. open[s] # <<>> /\ open[s][1].vs \subseteq {v}
  BY <1>1 DEF MigInv, MigType, OpenType, Progress
<1>4. \A w : InPlace(w) => InPlace(w)'
  BY <1>1 DEF InPlace
<1>5. InPlace(v)'
  <2>1. \A j \in DOMAIN Scripts[v] : <<v, j>> \in settled \/ j \in Held(s)
    BY <1>1, <1>2 DEF MigInv, Progress
  <2>2. QED
    BY <1>1, <2>1 DEF InPlace
<1>6. \A w \in DOMAIN Scripts \ skipped : w =< v => InPlace(w)'
  <2>1. \A w \in DOMAIN Scripts \ skipped : w < v => InPlace(w)
    BY <1>1 DEF MigInv, Progress
  <2>2. \A w \in DOMAIN Scripts : w =< v => w < v \/ w = v
    BY <1>2, ScriptsType
  <2>3. QED
    BY <1>4, <1>5, <2>1, <2>2
<1>7. Whole'
  <2> SUFFICES ASSUME NEW d \in versions', NEW w \in DOMAIN Scripts \ skipped, w =< d
               PROVE  InPlace(w)'
    BY <1>1 DEF Whole
  <2>1. CASE d \in versions
    BY <1>4, <2>1 DEF MigInv, Whole
  <2>2. CASE d = v
    BY <1>6, <2>2
  <2>3. QED
    BY <1>1, <1>3, <2>1, <2>2
<1> DEFINE p == IF v = Current THEN Idle ELSE [v |-> v + 1, i |-> 1]
<1>8. p \in [v : Nat, i : Nat]
  BY <1>2, ScriptsType DEF Idle
<1>9. v = Current \/ v + 1 \in DOMAIN Scripts
  BY <1>2, ScriptsType
<1>10. at' = [at EXCEPT ![s] = p] /\ at'[s] = p
  BY <1>1 DEF MigInv, MigType
<1>11. v = Current => p.v = 0
  BY DEF Idle
<1>12. v # Current => p.v = v + 1 /\ p.i = 1
  OBVIOUS
<1> HIDE DEF p
<1>13. MigType'
  <2>1. ASSUME NEW t \in Starters PROVE OpenType(t)'
    <3>1. CASE t = s
      BY <1>1, <3>1 DEF OpenType, MigInv, MigType
    <3>2. CASE t # s
      <4>1. open'[t] = open[t] /\ at'[t] = at[t]
        BY <1>1, <3>2 DEF MigInv, MigType
      <4>2. QED
        BY <4>1 DEF MigInv, MigType, OpenType
    <3>3. QED
      BY <3>1, <3>2
  <2>2. versions' \in SUBSET (1..Current + 1)
    <3>1. v \in 1..Current + 1 /\ versions \in SUBSET (1..Current + 1)
      BY <1>2, ScriptsType DEF MigInv, MigType
    <3>2. open[s][1].vs \subseteq {v}
      BY <1>3
    <3>3. QED
      BY <1>1, <3>1, <3>2
  <2>3. QED
    BY <1>1, <1>8, <1>10, <2>1, <2>2 DEF MigInv, MigType
<1>14. ASSUME NEW t \in Starters PROVE Progress(t)'
  <2>1. CASE t = s
    <3>1. CASE v = Current
      <4>1. ~Running(t)'
        BY <1>10, <1>11, <2>1, <3>1, ScriptsType DEF Running
      <4>2. QED
        BY <1>1, <2>1, <4>1 DEF Progress, MigInv, MigType
    <3>2. CASE v # Current
      <4>1. Running(t)' /\ at'[t].v = v + 1 /\ at'[t].i = 1
        BY <1>9, <1>10, <1>12, <2>1, <3>2 DEF Running
      <4>2. Len(Scripts[v + 1]) \in Nat /\ DOMAIN Scripts[v + 1] = 1..Len(Scripts[v + 1])
        BY <1>9, <3>2, ScriptsType
      <4>3. \A w \in DOMAIN Scripts \ skipped : w < v + 1 => InPlace(w)'
        BY <1>2, <1>6, ScriptsType
      <4>4. QED
        BY <1>1, <4>1, <4>2, <4>3 DEF Progress
    <3>3. QED
      BY <3>1, <3>2
  <2>2. CASE t # s
    <3>1. at'[t] = at[t] /\ open'[t] = open[t]
      BY <1>1, <2>2 DEF MigInv, MigType
    <3>2. Progress(t) /\ (Running(t)' <=> Running(t)) /\ Held(t)' = Held(t)
      BY <3>1 DEF MigInv, Running, Held
    <3>3. settled \subseteq settled' /\ skipped' = skipped
      BY <1>1
    <3>4. QED
      BY <1>4, <3>1, <3>2, <3>3 DEF Progress
  <2>3. QED
    BY <2>1, <2>2
<1>15. QED
  BY <1>7, <1>13, <1>14 DEF MigInv

\* A failed statement or a kill loses the transaction and nothing else.
LEMMA FailKeeps ==
  ASSUME MigInv, NEW s \in Starters, Fail(s)
  PROVE  MigInv'
<1>1. /\ open' = [open EXCEPT ![s] = <<>>] /\ at' = [at EXCEPT ![s] = Idle]
      /\ UNCHANGED <<settled, versions, skipped>>
  BY DEF Fail
<1>2. Idle \in [v : Nat, i : Nat] /\ Idle.v = 0 /\ 0 \notin DOMAIN Scripts
  BY ScriptsType DEF Idle
<1>3. open'[s] = <<>> /\ at'[s] = Idle
  BY <1>1 DEF MigInv, MigType
<1>4. OpenType(s)' /\ Progress(s)'
  BY <1>2, <1>3 DEF OpenType, Progress, Running
<1>5. QED
  BY <1>1, <1>2, <1>4, OnlyStarter

\* No step of any starting process breaks the invariant.
LEMMA MigInvInductive ==
  ASSUME MigInv, MigNext \/ UNCHANGED migVars
  PROVE  MigInv'
<1>1. CASE UNCHANGED migVars
  <2>1. UNCHANGED <<settled, versions, open, at, skipped>>
    BY <1>1 DEF migVars
  <2>2. \A v : InPlace(v)' <=> InPlace(v)
    BY <2>1 DEF InPlace
  <2>3. MigType' /\ Whole'
    BY <2>1, <2>2 DEF MigInv, MigType, Whole, OpenType
  <2>4. ASSUME NEW s \in Starters PROVE Progress(s)'
    <3>1. Progress(s) /\ (Running(s)' <=> Running(s)) /\ Held(s)' = Held(s)
      BY <2>1 DEF MigInv, Running, Held
    <3>2. QED
      BY <2>1, <2>2, <3>1 DEF Progress
  <2>5. QED
    BY <2>3, <2>4 DEF MigInv
<1>2. ASSUME NEW s \in Starters,
             \/ InitDb(s) \/ RunMigrations(s) \/ Ddl(s) \/ Dml(s) \/ SeedPresent(s)
             \/ Script(s) \/ Swallow(s) \/ SetDbVersion(s) \/ Commit(s) \/ Fail(s)
      PROVE  MigInv'
  BY <1>2, InitDbKeeps, RunMigrationsKeeps, StatementsKeep, SetDbVersionKeeps,
     CommitKeeps, FailKeeps
<1>3. QED
  BY <1>1, <1>2 DEF MigNext

\* A database of any age is complete to its version, and nobody has started.
LEMMA MigInvInit ==
  ASSUME MigInit
  PROVE  MigInv
<1>1. PICK d \in Ages :
        /\ versions = 2..d
        /\ settled = UNION {Statements(v) : v \in 1..d \cap DOMAIN Scripts}
        /\ open = [s \in Starters |-> <<>>] /\ at = [s \in Starters |-> Idle]
  BY DEF MigInit
<1>2. d \in {0} \cup 2..Current + 1
  BY MigrationsAssumption DEF Current
<1>3. Idle \in [v : Nat, i : Nat] /\ Idle.v = 0 /\ 0 \notin DOMAIN Scripts
  BY ScriptsType DEF Idle
<1>4. MigType
  <2>1. versions \in SUBSET (1..Current + 1)
    BY <1>1, <1>2, ScriptsType
  <2>2. QED
    BY <1>1, <1>3, <2>1 DEF MigType, OpenType
<1>5. Whole
  <2> SUFFICES ASSUME NEW e \in versions, NEW v \in DOMAIN Scripts, v =< e
               PROVE  InPlace(v)
    BY DEF Whole
  <2>1. v \in 1..d \cap DOMAIN Scripts
    BY <1>1, <1>2, ScriptsType
  <2>2. Statements(v) \subseteq settled
    BY <1>1, <2>1
  <2>3. QED
    BY <2>2 DEF Statements, InPlace
<1>6. \A s \in Starters : Progress(s)
  BY <1>1, <1>3 DEF Progress, Running
<1>7. QED
  BY <1>4, <1>5, <1>6 DEF MigInv

\* The version a database records is a promise that holds after every kill, every
\* failed statement and every other process that migrates at the same time.
THEOREM SchemaIsWhole == Spec => []SchemaComplete
<1>1. Init => MigInv
  BY MigInvInit DEF Init
<1>2. MigInv /\ [Next]_consoleVars => MigInv'
  <2> SUFFICES ASSUME MigInv, [Next]_consoleVars PROVE MigInv'
    OBVIOUS
  <2>1. MigNext \/ UNCHANGED migVars
    BY DEF Next, DeskStep, IdsBlockStep, SocBlockStep, AccessStep, IfaceStep,
           MigStep, SnapStep, consoleVars
  <2>2. QED
    BY <2>1, MigInvInductive
<1>3. MigInv => SchemaComplete
  <2> SUFFICES ASSUME MigInv, NEW v \in DOMAIN Scripts \ skipped, v =< DbVersion
               PROVE  Statements(v) \subseteq settled
    BY DEF SchemaComplete
  <2>1. DbVersion \in versions
    BY DbVersionIsNewest, ScriptsType DEF MigInv
  <2>2. InPlace(v)
    BY <2>1 DEF MigInv, Whole
  <2>3. QED
    BY <2>2 DEF InPlace, Statements
<1>4. QED
  BY <1>1, <1>2, <1>3, PTL DEF Spec
-----------------------------------------------------------------------------
(***************************************************************************)
(* Restoring a backup.  The claims about a path are stated for a piece of  *)
(* work w, the disk dk, the paths st that could not be removed and the     *)
(* disk bf before the restore, so that they can be taken over a step.      *)
(***************************************************************************)
Holds(dk, st, p, c) == dk[p] = c \/ (c = Gone /\ p \in st)

\* The components of a backup that carry p, and those already written.
Cover(parts, p) == {i \in DOMAIN parts \cap DOMAIN Definitions : p \in Definitions[i].paths}
Behind(w, p) == {i \in Cover(w.parts, p) : i < w.next}

\* The directory at hand has been emptied and p is below it.
InHand(w, p) == w.emptied = TRUE /\ p \in Definitions[w.next].paths

\* A path holds what the last component written says of it, a path of the directory
\* at hand what the backup says once its turn has come, and in a restore a path
\* nothing was written to is as it was.
Written(w, dk, st, bf, p) ==
    /\ ~InHand(w, p) =>
         /\ \A c \in Behind(w, p) : (\A j \in Behind(w, p) : j =< c) =>
               Holds(dk, st, p, w.parts[c][p])
         /\ w.phase = "restore" /\ Behind(w, p) = {} => Holds(dk, st, p, bf[p])
    /\ InHand(w, p) /\ p \notin w.left => Holds(dk, st, p, w.parts[w.next][p])

\* What has been read of the untouched paths is what they held before.
ReadBack(g, n, bf, tch) ==
    \A k \in 1..n : \A p \in Definitions[k].paths \ tch : g[k][p] = bf[p]

Fields == {"phase", "next", "emptied", "left", "parts", "bad", "got", "masked"}

\* What is known of a piece of work.
WorkOk(w, dk, vd, ws, bf, tch, st) ==
    /\ DOMAIN w = Fields
    /\ w.phase \in {"idle", "backup", "snapshot", "restore", "rollback"}
    /\ w.next \in 1..Len(Definitions) + 1 /\ w.emptied \in BOOLEAN
    /\ w.emptied = TRUE => w.next \in DOMAIN Definitions /\ w.next \in DOMAIN w.parts
    /\ IF w.emptied = TRUE THEN w.left \subseteq Definitions[w.next].paths ELSE w.left = {}
    /\ \E S : w.got \in Seq(S)
    /\ w.phase \notin {"idle", "backup"} => vd = "none"
    /\ w.phase = "snapshot" =>
         /\ Len(w.got) = w.next - 1 /\ w.emptied = FALSE /\ w.parts = ws
         /\ ReadBack(w.got, w.next - 1, bf, tch)
         /\ \A p \in Paths \ tch : dk[p] = bf[p]
    /\ w.phase = "restore" =>
         /\ Len(w.got) = Len(Definitions) /\ w.parts = ws
         /\ ReadBack(w.got, Len(Definitions), bf, tch)
    /\ w.phase = "rollback" =>
         /\ DOMAIN w.parts = DOMAIN Definitions
         /\ ReadBack(w.parts, Len(Definitions), bf, tch)
    /\ w.phase \in {"restore", "rollback"} =>
         \A p \in Paths \ tch : Written(w, dk, st, bf, p)

\* What the administrator was told is true at all times, not only between requests.
Due(p) == CASE verdict = "restored" -> Promised(p)
            [] verdict \in {"rolled_back", "refused"} -> before[p]
            [] OTHER -> disk[p]
Told == \A p \in Paths \ touched : Holds(disk, stuck, p, Due(p))

SnapInv ==
    /\ disk = [p \in Paths |-> disk[p]]
    /\ WorkOk(work, disk, verdict, wished, before, touched, stuck)
    /\ Told

\* The components are numbered and their paths are among Paths.
LEMMA DefinitionsType ==
    /\ Len(Definitions) \in Nat /\ DOMAIN Definitions = 1..Len(Definitions)
    /\ \A i \in DOMAIN Definitions : Definitions[i].paths \subseteq Paths
    /\ \A p \in Paths : \E i \in DOMAIN Definitions : p \in Definitions[i].paths
<1>1. Len(Definitions) \in Nat /\ DOMAIN Definitions = 1..Len(Definitions)
  BY SnapshotAssumption, LenProperties
<1>2. QED
  BY <1>1 DEF Paths

\* The next component is done: p holds what the backup says if the component
\* carries it, and is as it was if not.
LEMMA AdvanceWrites ==
  ASSUME NEW w, NEW e, NEW dk, NEW dkn, NEW st, NEW bf, NEW p,
         w.next \in DOMAIN Definitions,
         e.next = w.next + 1, e.parts = w.parts, e.phase = w.phase, e.emptied = FALSE,
         \/ w.next \in Cover(w.parts, p) /\ Holds(dkn, st, p, w.parts[w.next][p])
         \/ /\ w.next \notin Cover(w.parts, p) /\ ~InHand(w, p) /\ dkn[p] = dk[p]
            /\ Written(w, dk, st, bf, p)
  PROVE  Written(e, dkn, st, bf, p)
<1>1. ~InHand(e, p)
  BY DEF InHand
<1>2. \A i \in Cover(w.parts, p) : i \in Nat
  BY DefinitionsType DEF Cover
<1>3. w.next \in Nat
  BY DefinitionsType
<1>4. CASE w.next \in Cover(w.parts, p) /\ Holds(dkn, st, p, w.parts[w.next][p])
  <2>1. w.next \in Behind(e, p) /\ \A i \in Behind(e, p) : i \in Nat /\ i =< w.next
    BY <1>2, <1>3, <1>4 DEF Behind
  <2>2. \A c \in Behind(e, p) : (\A j \in Behind(e, p) : j =< c) => c = w.next
    BY <1>3, <2>1
  <2>3. QED
    BY <1>1, <1>4, <2>1, <2>2 DEF Written
<1>5. CASE /\ w.next \notin Cover(w.parts, p) /\ ~InHand(w, p) /\ dkn[p] = dk[p]
           /\ Written(w, dk, st, bf, p)
  <2>1. Behind(e, p) = Behind(w, p)
    BY <1>2, <1>3, <1>5 DEF Behind
  <2>2. QED
    BY <1>1, <1>5, <2>1 DEF Written, Holds
<1>6. QED
  BY <1>4, <1>5

\* A step after which p and the work on it are the same keeps the claim about p.
LEMMA SameWritten ==
  ASSUME NEW w, NEW dk, NEW dkn, NEW st, NEW stn, NEW bf, NEW p,
         dkn[p] = dk[p], st \subseteq stn, Written(w, dk, st, bf, p)
  PROVE  Written(w, dkn, stn, bf, p)
BY DEF Written, Holds

\* Nothing is claimed of the work while none is under way.
LEMMA IdleOk ==
  ASSUME NEW dk, NEW vd, NEW ws, NEW bf, NEW tch, NEW st
  PROVE  WorkOk(NoWork, dk, vd, ws, bf, tch, st)
<1>1. /\ NoWork.phase = "idle" /\ NoWork.next = 1 /\ NoWork.emptied = FALSE
      /\ NoWork.left = {} /\ NoWork.parts = <<>> /\ NoWork.bad = 0
      /\ NoWork.got = <<>> /\ NoWork.masked = FALSE
  BY DEF NoWork
<1>2. DOMAIN NoWork = Fields
  BY DEF Fields, NoWork
<1>3. NoWork.got \in Seq({})
  BY <1>1
<1>4. \E S : NoWork.got \in Seq(S)
  BY <1>3
<1>5. 1 \in 1..Len(Definitions) + 1
  BY DefinitionsType
<1>6. QED
  BY <1>1, <1>2, <1>4, <1>5 DEF WorkOk

\* What was told stays true when nothing it speaks of changes, and nothing is told
\* while a restore is under way.
LEMMA ToldStays ==
  ASSUME Told, UNCHANGED <<disk, verdict, wished, before, touched, stuck>>
  PROVE  Told'
BY DEF Told, Due, Promised, Carriers, Holds

\* An answer that is none of the three verdicts promises nothing.
LEMMA ToldNothing ==
  ASSUME verdict' \notin {"restored", "rolled_back", "refused"}
  PROVE  Told'
BY DEF Told, Due, Holds

\* The work ends, or none begins.
LEMMA NoWorkKeeps ==
  ASSUME SnapInv, work' = NoWork,
         UNCHANGED <<disk, verdict, wished, before, touched, stuck>>
  PROVE  SnapInv'
<1>1. WorkOk(work', disk', verdict', wished', before', touched', stuck')
  BY IdleOk
<1>2. Told'
  BY ToldStays DEF SnapInv
<1>3. disk' = [p \in Paths |-> disk'[p]]
  BY DEF SnapInv
<1>4. QED
  BY <1>1, <1>2, <1>3 DEF SnapInv

\* A backup begins.
LEMMA DownloadKeeps ==
  ASSUME SnapInv, NEW mask, Download(mask)
  PROVE  SnapInv'
<1> DEFINE e == [NoWork EXCEPT !.phase = "backup", !.masked = mask]
<1>1. work' = e /\ UNCHANGED <<disk, verdict, wished, before, touched, stuck>>
  BY DEF Download, histVars
<1>2. /\ e.phase = "backup" /\ e.next = 1 /\ e.emptied = FALSE /\ e.left = {}
      /\ e.got = <<>>
  BY DEF NoWork
<1>3. DOMAIN e = Fields
  BY DEF Fields, NoWork
<1> HIDE DEF e
<1>4. \E S : e.got \in Seq(S)
  <2>1. e.got \in Seq({})
    BY <1>2
  <2>2. QED
    BY <2>1
<1>5. 1 \in 1..Len(Definitions) + 1
  BY DefinitionsType
<1>6. WorkOk(e, disk, verdict, wished, before, touched, stuck)
  BY <1>2, <1>3, <1>4, <1>5 DEF WorkOk
<1>7. Told' /\ disk' = [p \in Paths |-> disk'[p]]
  BY <1>1, ToldStays DEF SnapInv
<1>8. QED
  BY <1>1, <1>6, <1>7 DEF SnapInv

\* Appending to a sequence of anything.
LEMMA AppendIs ==
  ASSUME NEW g, \E S : g \in Seq(S), NEW x
  PROVE  /\ \E S : Append(g, x) \in Seq(S)
         /\ Len(g) \in Nat /\ Len(Append(g, x)) = Len(g) + 1
         /\ Append(g, x)[Len(g) + 1] = x
         /\ \A k \in 1..Len(g) : Append(g, x)[k] = g[k]
<1>1. PICK S : g \in Seq(S)
  OBVIOUS
<1> DEFINE T == S \cup {x}
<1>2. g \in Seq(T) /\ x \in T
  BY <1>1
<1> HIDE DEF T
<1>3. QED
  BY <1>2, AppendProperties, LenProperties

\* The next component is read into the backup or the rollback snapshot.
LEMMA ReadComponentKeeps ==
  ASSUME SnapInv, ReadComponent
  PROVE  SnapInv'
<1> DEFINE x == [p \in Component.paths |-> disk[p]]
           e == Advance([work EXCEPT !.got = Append(work.got, x)])
<1>1. /\ work' = e /\ work.phase \in {"backup", "snapshot"} /\ work.next =< Len(Definitions)
      /\ UNCHANGED <<disk, verdict, wished, before, touched, stuck>>
  BY DEF ReadComponent, histVars, More
<1>2. WorkOk(work, disk, verdict, wished, before, touched, stuck)
  BY DEF SnapInv
<1>3. DOMAIN work = Fields
  BY <1>2 DEF WorkOk
<1>4. /\ e.phase = work.phase /\ e.next = work.next + 1 /\ e.emptied = FALSE /\ e.left = {}
      /\ e.parts = work.parts /\ e.got = Append(work.got, x)
  BY <1>3 DEF Advance, Fields
<1>5. DOMAIN e = Fields
  BY <1>3 DEF Fields, Advance
<1>6. /\ work.next \in 1..Len(Definitions) /\ work.next + 1 \in 1..Len(Definitions) + 1
      /\ work.next \in DOMAIN Definitions
  BY <1>1, <1>2, DefinitionsType DEF WorkOk
<1>7. \A p \in Definitions[work.next].paths : x[p] = disk[p]
  BY DEF Component
<1> HIDE DEF e, x
<1>8. /\ \E S : e.got \in Seq(S)
      /\ Len(work.got) \in Nat /\ Len(e.got) = Len(work.got) + 1
      /\ e.got[Len(work.got) + 1] = x
      /\ \A k \in 1..Len(work.got) : e.got[k] = work.got[k]
  <2>1. \E S : work.got \in Seq(S)
    BY <1>2 DEF WorkOk
  <2>2. /\ \E S : Append(work.got, x) \in Seq(S)
        /\ Len(work.got) \in Nat /\ Len(Append(work.got, x)) = Len(work.got) + 1
        /\ Append(work.got, x)[Len(work.got) + 1] = x
        /\ \A k \in 1..Len(work.got) : Append(work.got, x)[k] = work.got[k]
    BY <2>1, AppendIs, Zenon
  <2>3. e.got = Append(work.got, x)
    BY <1>4
  <2>4. QED
    BY <2>2, <2>3, Zenon
<1>9. ASSUME e.phase = "snapshot"
      PROVE  /\ Len(e.got) = e.next - 1 /\ e.parts = wished
             /\ ReadBack(e.got, e.next - 1, before, touched)
             /\ \A p \in Paths \ touched : disk[p] = before[p]
  <2>1. /\ Len(work.got) = work.next - 1 /\ work.parts = wished
        /\ ReadBack(work.got, work.next - 1, before, touched)
        /\ \A p \in Paths \ touched : disk[p] = before[p]
    BY <1>2, <1>4, <1>9 DEF WorkOk
  <2>2. ReadBack(e.got, work.next, before, touched)
    <3> SUFFICES ASSUME NEW k \in 1..work.next, NEW p \in Definitions[k].paths \ touched
                 PROVE  e.got[k][p] = before[p]
      BY DEF ReadBack
    <3>1. CASE k \in 1..work.next - 1
      <4>1. work.got[k][p] = before[p]
        BY <2>1, <3>1 DEF ReadBack
      <4>2. QED
        BY <1>8, <2>1, <3>1, <4>1
    <3>2. CASE k = work.next
      <4>1. e.got[k] = x
        BY <1>6, <1>8, <2>1, <3>2
      <4>2. p \in Paths \ touched
        BY <1>6, <3>2, DefinitionsType
      <4>3. QED
        BY <1>7, <2>1, <3>2, <4>1, <4>2
    <3>3. QED
      BY <1>6, <3>1, <3>2
  <2>3. e.next - 1 = work.next /\ Len(e.got) = work.next
    BY <1>4, <1>6, <1>8, <2>1
  <2>4. QED
    BY <1>4, <2>1, <2>2, <2>3
<1>10. e.phase = "snapshot" => verdict = "none"
  BY <1>2, <1>4 DEF WorkOk
<1>11. e.next \in 1..Len(Definitions) + 1 /\ e.phase \in {"backup", "snapshot"}
  BY <1>1, <1>4, <1>6
<1>12. \E S : e.got \in Seq(S)
  BY <1>8
<1>13. WorkOk(e, disk, verdict, wished, before, touched, stuck)
  BY <1>4, <1>5, <1>9, <1>10, <1>11, <1>12 DEF WorkOk
<1>14. Told' /\ disk' = [p \in Paths |-> disk'[p]]
  BY <1>1, ToldStays DEF SnapInv
<1>15. QED
  BY <1>1, <1>13, <1>14 DEF SnapInv

\* A restore is refused with nothing changed, or begins with its snapshot.
LEMMA RestoreKeeps ==
  ASSUME SnapInv, NEW b, Restore(b)
  PROVE  SnapInv'
<1>1. /\ disk' = disk /\ before' = disk /\ wished' = b.parts /\ stuck' = {} /\ touched' = {}
      /\ verdict' = IF Refused(b) THEN "refused" ELSE "none"
      /\ work' = IF Refused(b) THEN NoWork
                 ELSE [NoWork EXCEPT !.phase = "snapshot", !.parts = b.parts, !.bad = b.bad]
  BY DEF Restore
<1>2. disk' = [p \in Paths |-> disk'[p]]
  BY <1>1 DEF SnapInv
<1>3. CASE Refused(b)
  <2>1. WorkOk(work', disk', verdict', wished', before', touched', stuck')
    BY <1>1, <1>3, IdleOk
  <2>2. Told'
    BY <1>1, <1>3 DEF Told, Due, Holds
  <2>3. QED
    BY <1>2, <2>1, <2>2 DEF SnapInv
<1>4. CASE ~Refused(b)
  <2> DEFINE e == [NoWork EXCEPT !.phase = "snapshot", !.parts = b.parts, !.bad = b.bad]
  <2>1. work' = e /\ verdict' = "none"
    BY <1>1, <1>4
  <2>2. /\ e.phase = "snapshot" /\ e.next = 1 /\ e.emptied = FALSE /\ e.left = {}
        /\ e.got = <<>> /\ e.parts = b.parts
    BY DEF NoWork
  <2>3. DOMAIN e = Fields
    BY DEF NoWork, Fields
  <2> HIDE DEF e
  <2>4. \E S : e.got \in Seq(S)
    <3>1. e.got \in Seq({})
      BY <2>2
    <3>2. QED
      BY <3>1
  <2>5. 1 \in 1..Len(Definitions) + 1 /\ Len(e.got) = e.next - 1
    BY <2>2, DefinitionsType
  <2>6. ReadBack(e.got, e.next - 1, before', touched')
    BY <2>2 DEF ReadBack
  <2>7. WorkOk(e, disk', verdict', wished', before', touched', stuck')
    BY <1>1, <2>1, <2>2, <2>3, <2>4, <2>5, <2>6 DEF WorkOk
  <2>8. Told'
    BY <2>1, ToldNothing
  <2>9. QED
    BY <1>2, <2>1, <2>7, <2>8 DEF SnapInv
<1>5. QED
  BY <1>3, <1>4

\* The rollback snapshot is complete: nothing is written yet.
LEMMA BeginWritingKeeps ==
  ASSUME SnapInv, NEW safety, BeginWriting(safety)
  PROVE  SnapInv'
<1> DEFINE e == [work EXCEPT !.phase = "restore", !.next = 1]
<1>1. /\ work' = e /\ work.phase = "snapshot" /\ ~(work.next =< Len(Definitions))
      /\ UNCHANGED <<disk, verdict, wished, before, touched, stuck>>
  BY DEF BeginWriting, histVars, More
<1>2. WorkOk(work, disk, verdict, wished, before, touched, stuck)
  BY DEF SnapInv
<1>3. DOMAIN work = Fields
  BY <1>2 DEF WorkOk
<1>4. /\ e.phase = "restore" /\ e.next = 1 /\ e.emptied = work.emptied /\ e.left = work.left
      /\ e.parts = work.parts /\ e.got = work.got /\ DOMAIN e = Fields
  BY <1>3 DEF Fields
<1> HIDE DEF e
<1>5. /\ Len(work.got) = work.next - 1 /\ work.emptied = FALSE /\ work.parts = wished
      /\ ReadBack(work.got, work.next - 1, before, touched)
      /\ \A p \in Paths \ touched : disk[p] = before[p]
  BY <1>1, <1>2 DEF WorkOk
<1>6. work.next - 1 = Len(Definitions) /\ 1 \in 1..Len(Definitions) + 1
  BY <1>1, <1>2, DefinitionsType DEF WorkOk
<1>7. ASSUME NEW p \in Paths \ touched PROVE Written(e, disk, stuck, before, p)
  <2>1. Behind(e, p) = {}
    BY <1>4, DefinitionsType DEF Behind, Cover
  <2>2. ~InHand(e, p)
    BY <1>4, <1>5 DEF InHand
  <2>3. disk[p] = before[p]
    BY <1>5, <1>7
  <2>4. QED
    BY <2>1, <2>2, <2>3 DEF Written, Holds
<1>8. /\ \E S : e.got \in Seq(S)
      /\ verdict = "none" /\ e.left = {}
  BY <1>1, <1>2, <1>4, <1>5 DEF WorkOk
<1>9. /\ Len(e.got) = Len(Definitions) /\ e.parts = wished
      /\ ReadBack(e.got, Len(Definitions), before, touched)
  BY <1>4, <1>5, <1>6
<1>10. WorkOk(e, disk, verdict, wished, before, touched, stuck)
  BY <1>4, <1>5, <1>6, <1>7, <1>8, <1>9 DEF WorkOk
<1>11. Told' /\ disk' = [p \in Paths |-> disk'[p]]
  BY <1>1, ToldStays DEF SnapInv
<1>12. QED
  BY <1>1, <1>10, <1>11 DEF SnapInv

\* A step of the writing of a restore or of its rollback to another place.
LEMMA WritingKeeps ==
  ASSUME SnapInv, Writing, NEW e, work' = e,
         DOMAIN e = Fields, e.phase = work.phase, e.parts = work.parts, e.got = work.got,
         e.next \in 1..Len(Definitions) + 1, e.emptied \in BOOLEAN,
         e.emptied = TRUE => e.next \in DOMAIN Definitions /\ e.next \in DOMAIN e.parts,
         IF e.emptied = TRUE THEN e.left \subseteq Definitions[e.next].paths ELSE e.left = {},
         UNCHANGED <<verdict, wished, before, touched>>,
         disk' = [p \in Paths |-> disk'[p]],
         \A p \in Paths \ touched : Written(e, disk', stuck', before, p)
  PROVE  SnapInv'
<1>1. WorkOk(work, disk, verdict, wished, before, touched, stuck)
  BY DEF SnapInv
<1>2. e.phase \in {"restore", "rollback"} /\ verdict = "none"
  BY <1>1 DEF WorkOk, Writing
<1>3. \E S : e.got \in Seq(S)
  BY <1>1 DEF WorkOk
<1>4. e.phase = "restore" =>
         /\ Len(e.got) = Len(Definitions) /\ e.parts = wished
         /\ ReadBack(e.got, Len(Definitions), before, touched)
  BY <1>1 DEF WorkOk
<1>5. e.phase = "rollback" =>
         /\ DOMAIN e.parts = DOMAIN Definitions
         /\ ReadBack(e.parts, Len(Definitions), before, touched)
  BY <1>1 DEF WorkOk
<1>6. WorkOk(e, disk', verdict, wished, before, touched, stuck')
  BY <1>2, <1>3, <1>4, <1>5 DEF WorkOk
<1>7. Told'
  BY <1>2, ToldNothing
<1>8. QED
  BY <1>6, <1>7 DEF SnapInv

\* The component at hand is done.
LEMMA AdvanceKeeps ==
  ASSUME SnapInv, Writing, More, work' = Advance(work),
         UNCHANGED <<verdict, wished, before, touched, stuck>>,
         disk' = [p \in Paths |-> disk'[p]],
         \A p \in Paths \ touched :
            \/ /\ work.next \in Cover(work.parts, p)
               /\ Holds(disk', stuck, p, work.parts[work.next][p])
            \/ /\ work.next \notin Cover(work.parts, p) /\ ~InHand(work, p)
               /\ disk'[p] = disk[p]
  PROVE  SnapInv'
<1> DEFINE e == Advance(work)
<1>1. WorkOk(work, disk, verdict, wished, before, touched, stuck)
  BY DEF SnapInv
<1>2. DOMAIN work = Fields
  BY <1>1 DEF WorkOk
<1>3. /\ e.phase = work.phase /\ e.next = work.next + 1 /\ e.emptied = FALSE /\ e.left = {}
      /\ e.parts = work.parts /\ e.got = work.got /\ DOMAIN e = Fields
  BY <1>2 DEF Advance, Fields
<1>4. work' = e
  OBVIOUS
<1> HIDE DEF e
<1>5. work.next \in DOMAIN Definitions /\ work.next + 1 \in 1..Len(Definitions) + 1
  BY <1>1, DefinitionsType DEF WorkOk, More
<1>6. ASSUME NEW p \in Paths \ touched PROVE Written(e, disk', stuck', before, p)
  <2>1. Written(work, disk, stuck, before, p)
    BY <1>1, <1>6 DEF WorkOk, Writing
  <2>2. QED
    BY <1>3, <1>5, <1>6, <2>1, AdvanceWrites
<1>7. QED
  BY <1>3, <1>4, <1>5, <1>6, WritingKeeps

\* A component the backup does not carry is passed over.
LEMMA PassOverKeeps ==
  ASSUME SnapInv, PassOver
  PROVE  SnapInv'
<1>1. /\ Writing /\ More /\ work.next \notin DOMAIN work.parts /\ work' = Advance(work)
      /\ UNCHANGED <<disk, verdict, wished, before, touched, stuck>>
  BY DEF PassOver, histVars
<1>2. work.emptied # TRUE
  BY <1>1 DEF SnapInv, WorkOk
<1>3. \A p : work.next \notin Cover(work.parts, p) /\ ~InHand(work, p)
  BY <1>1, <1>2 DEF Cover, InHand
<1>4. disk' = [p \in Paths |-> disk'[p]] /\ \A p : disk'[p] = disk[p]
  BY <1>1 DEF SnapInv
<1>5. QED
  BY <1>1, <1>3, <1>4, AdvanceKeeps

\* A file is replaced or removed in one go.
LEMMA RestoreFileKeeps ==
  ASSUME SnapInv, RestoreFile
  PROVE  SnapInv'
<1> DEFINE P == Definitions[work.next].paths
<1>1. /\ Writing /\ More /\ work.next \in DOMAIN work.parts /\ work' = Advance(work)
      /\ disk' = [p \in Paths |-> IF p \in P THEN work.parts[work.next][p] ELSE disk[p]]
      /\ UNCHANGED <<verdict, wished, before, touched, stuck>>
  BY DEF RestoreFile, Carried, Component, FileTarget, Wanted, histVars
<1>2. work.next \in DOMAIN Definitions
  BY <1>1, DefinitionsType DEF SnapInv, WorkOk, More
<1>3. disk' = [p \in Paths |-> disk'[p]]
  BY <1>1
<1>4. ASSUME NEW p \in Paths \ touched
      PROVE  \/ /\ work.next \in Cover(work.parts, p)
                /\ Holds(disk', stuck, p, work.parts[work.next][p])
             \/ /\ work.next \notin Cover(work.parts, p) /\ ~InHand(work, p)
                /\ disk'[p] = disk[p]
  <2>1. disk'[p] = IF p \in P THEN work.parts[work.next][p] ELSE disk[p]
    BY <1>1, <1>4
  <2>2. QED
    BY <1>1, <1>2, <2>1 DEF Cover, InHand, Holds
<1>5. QED
  BY <1>1, <1>3, <1>4, AdvanceKeeps

\* A directory is complete.
LEMMA DirectoryDoneKeeps ==
  ASSUME SnapInv, DirectoryDone
  PROVE  SnapInv'
<1>1. /\ Writing /\ More /\ work.emptied /\ work.left = {} /\ work' = Advance(work)
      /\ UNCHANGED <<disk, verdict, wished, before, touched, stuck>>
  BY DEF DirectoryDone, histVars
<1>2. work.emptied \in BOOLEAN
  BY DEF SnapInv, WorkOk
<1>3. work.emptied = TRUE
  BY <1>1, <1>2, Zenon
<1>4. work.next \in DOMAIN Definitions /\ work.next \in DOMAIN work.parts
  BY <1>3 DEF SnapInv, WorkOk
<1>5. disk' = [p \in Paths |-> disk'[p]] /\ \A p : disk'[p] = disk[p]
  BY <1>1 DEF SnapInv
<1>6. ASSUME NEW p \in Paths \ touched
      PROVE  \/ /\ work.next \in Cover(work.parts, p)
                /\ Holds(disk', stuck, p, work.parts[work.next][p])
             \/ /\ work.next \notin Cover(work.parts, p) /\ ~InHand(work, p)
                /\ disk'[p] = disk[p]
  <2>1. Written(work, disk, stuck, before, p)
    BY <1>1, <1>6 DEF SnapInv, WorkOk, Writing
  <2>2. CASE p \in Definitions[work.next].paths
    <3>1. Holds(disk, stuck, p, work.parts[work.next][p])
      BY <1>1, <1>3, <2>1, <2>2 DEF Written, InHand
    <3>2. QED
      BY <1>4, <1>5, <2>2, <3>1 DEF Cover, Holds
  <2>3. CASE p \notin Definitions[work.next].paths
    BY <1>5, <2>3 DEF Cover, InHand
  <2>4. QED
    BY <2>2, <2>3
<1>7. QED
  BY <1>1, <1>5, <1>6, AdvanceKeeps

\* A directory is emptied, but for what could not be removed.
LEMMA EmptyDirectoryKeeps ==
  ASSUME SnapInv, NEW kept, EmptyDirectory(kept)
  PROVE  SnapInv'
<1> DEFINE P == Definitions[work.next].paths
           L == {p \in P : work.parts[work.next][p] # Gone}
           e == [work EXCEPT !.emptied = TRUE, !.left = L]
<1>1. /\ Writing /\ More /\ work.next \in DOMAIN work.parts /\ ~work.emptied
      /\ disk' = [p \in Paths |-> IF p \in P \ kept THEN Gone ELSE disk[p]]
      /\ stuck' = stuck \cup kept /\ work' = e
      /\ UNCHANGED <<verdict, wished, before, touched>>
  BY DEF EmptyDirectory, Carried, Component, Wanted
<1>2. WorkOk(work, disk, verdict, wished, before, touched, stuck)
  BY DEF SnapInv
<1>3. DOMAIN work = Fields /\ work.emptied \in BOOLEAN
  BY <1>2 DEF WorkOk
<1>4. work.emptied # TRUE
  BY <1>1, <1>3, Zenon
<1>5. /\ e.phase = work.phase /\ e.next = work.next /\ e.emptied = TRUE /\ e.left = L
      /\ e.parts = work.parts /\ e.got = work.got /\ DOMAIN e = Fields
  BY <1>3 DEF Fields
<1>6. /\ work.next \in DOMAIN Definitions /\ work.next \in 1..Len(Definitions) + 1
  BY <1>1, <1>2, DefinitionsType DEF WorkOk, More
<1>7. L \subseteq P /\ \A p \in P \ L : work.parts[work.next][p] = Gone
  OBVIOUS
<1> HIDE DEF e, L
<1>8. disk' = [p \in Paths |-> disk'[p]]
  BY <1>1
<1>9. ASSUME NEW p \in Paths \ touched PROVE Written(e, disk', stuck', before, p)
  <2>1. Written(work, disk, stuck, before, p)
    BY <1>1, <1>2, <1>9 DEF WorkOk, Writing
  <2>2. CASE p \in P
    <3>1. InHand(e, p)
      BY <1>5, <2>2 DEF InHand
    <3>2. p \notin L => Holds(disk', stuck', p, e.parts[e.next][p])
      BY <1>1, <1>5, <1>7, <1>9, <2>2 DEF Holds
    <3>3. QED
      BY <1>5, <3>1, <3>2 DEF Written
  <2>3. CASE p \notin P
    <3>1. ~InHand(e, p) /\ ~InHand(work, p)
      BY <1>5, <2>3 DEF InHand
    <3>2. disk'[p] = disk[p] /\ stuck \subseteq stuck'
      BY <1>1, <1>9, <2>3
    <3>3. Behind(e, p) = Behind(work, p)
      BY <1>5 DEF Behind
    <3>4. QED
      BY <1>5, <2>1, <3>1, <3>2, <3>3 DEF Written, Holds
  <2>4. QED
    BY <2>2, <2>3
<1>10. QED
  BY <1>1, <1>5, <1>6, <1>7, <1>8, <1>9, WritingKeeps

\* One entry of the directory is written.
LEMMA RestoreEntryKeeps ==
  ASSUME SnapInv, NEW q \in Paths, RestoreEntry(q)
  PROVE  SnapInv'
<1> DEFINE e == [work EXCEPT !.left = work.left \ {q}]
<1>1. /\ Writing /\ More /\ q \in work.left /\ work' = e
      /\ disk' = [disk EXCEPT ![q] = work.parts[work.next][q]]
      /\ UNCHANGED <<verdict, wished, before, touched, stuck>>
  BY DEF RestoreEntry, Wanted, histVars
<1>2. WorkOk(work, disk, verdict, wished, before, touched, stuck)
      /\ disk = [p \in Paths |-> disk[p]]
  BY DEF SnapInv
<1>3. DOMAIN work = Fields
  BY <1>2 DEF WorkOk
<1>4. /\ work.emptied = TRUE /\ work.left \subseteq Definitions[work.next].paths
      /\ work.next \in DOMAIN Definitions /\ work.next \in DOMAIN work.parts
      /\ work.next \in 1..Len(Definitions) + 1
  BY <1>1, <1>2 DEF WorkOk
<1>5. /\ e.phase = work.phase /\ e.next = work.next /\ e.emptied = TRUE
      /\ e.left = work.left \ {q} /\ e.parts = work.parts /\ e.got = work.got
      /\ DOMAIN e = Fields
  BY <1>3, <1>4 DEF Fields
<1> HIDE DEF e
<1>6. /\ disk' = [p \in Paths |-> disk'[p]] /\ disk'[q] = work.parts[work.next][q]
      /\ \A p \in Paths : p # q => disk'[p] = disk[p]
  BY <1>1, <1>2
<1>7. ASSUME NEW p \in Paths \ touched PROVE Written(e, disk', stuck', before, p)
  <2>1. Written(work, disk, stuck, before, p)
    BY <1>1, <1>2, <1>7 DEF WorkOk, Writing
  <2>2. InHand(e, p) <=> InHand(work, p)
    BY <1>4, <1>5 DEF InHand
  <2>3. CASE p = q
    <3>1. InHand(e, p)
      BY <1>1, <1>4, <1>5, <2>3 DEF InHand
    <3>2. QED
      BY <1>5, <1>6, <2>3, <3>1 DEF Written, Holds
  <2>4. CASE p # q
    <3>1. disk'[p] = disk[p] /\ Behind(e, p) = Behind(work, p)
      BY <1>5, <1>6, <1>7, <2>4 DEF Behind
    <3>2. p \in e.left <=> p \in work.left
      BY <1>5, <2>4
    <3>3. QED
      BY <1>1, <1>5, <2>1, <2>2, <3>1, <3>2 DEF Written, Holds
  <2>5. QED
    BY <2>3, <2>4
<1>8. QED
  BY <1>1, <1>4, <1>5, <1>6, <1>7, WritingKeeps

\* An error of the restore starts the rollback, which has written nothing yet; one
\* of the rollback ends the request with nothing promised.
LEMMA RestoreFailsKeeps ==
  ASSUME SnapInv, RestoreFails
  PROVE  SnapInv'
<1>1. /\ Writing /\ UNCHANGED <<disk, wished, before, touched, stuck>>
      /\ IF work.phase = "restore" THEN work' = RollBack /\ verdict' = verdict
         ELSE work' = NoWork /\ verdict' = "rollback_failed"
  BY DEF RestoreFails, histVars
<1>2. WorkOk(work, disk, verdict, wished, before, touched, stuck)
  BY DEF SnapInv
<1>3. disk' = [p \in Paths |-> disk'[p]]
  BY <1>1 DEF SnapInv
<1>4. CASE work.phase # "restore"
  <2>1. WorkOk(work', disk', verdict', wished', before', touched', stuck')
    BY <1>1, <1>4, IdleOk
  <2>2. Told'
    BY <1>1, <1>4, ToldNothing
  <2>3. QED
    BY <1>3, <2>1, <2>2 DEF SnapInv
<1>5. CASE work.phase = "restore"
  <2> DEFINE e == RollBack
  <2>1. /\ e.phase = "rollback" /\ e.next = 1 /\ e.emptied = FALSE /\ e.left = {}
        /\ e.parts = work.got /\ e.got = <<>> /\ DOMAIN e = Fields
    BY DEF RollBack, NoWork, Fields
  <2>2. work' = e /\ verdict' = verdict /\ verdict = "none"
    BY <1>1, <1>2, <1>5 DEF WorkOk
  <2> HIDE DEF e
  <2>3. \E S : e.got \in Seq(S)
    <3>1. e.got \in Seq({})
      BY <2>1
    <3>2. QED
      BY <3>1
  <2>4. DOMAIN e.parts = DOMAIN Definitions
        /\ ReadBack(e.parts, Len(Definitions), before, touched)
    <3>1. /\ Len(work.got) = Len(Definitions)
          /\ ReadBack(work.got, Len(Definitions), before, touched)
      BY <1>2, <1>5 DEF WorkOk
    <3>2. PICK S : work.got \in Seq(S)
      BY <1>2 DEF WorkOk
    <3>3. DOMAIN work.got = 1..Len(work.got)
      BY <3>2, LenProperties
    <3>4. QED
      BY <2>1, <3>1, <3>3, DefinitionsType
  <2>5. ASSUME NEW p \in Paths \ touched PROVE Written(e, disk, stuck, before, p)
    <3>1. Behind(e, p) = {}
      BY <2>1, DefinitionsType DEF Behind, Cover
    <3>2. ~InHand(e, p)
      BY <2>1 DEF InHand
    <3>3. QED
      BY <2>1, <3>1, <3>2 DEF Written
  <2>6. 1 \in 1..Len(Definitions) + 1
    BY DefinitionsType
  <2>7. WorkOk(e, disk, verdict, wished, before, touched, stuck)
    BY <2>1, <2>2, <2>3, <2>4, <2>5, <2>6 DEF WorkOk
  <2>8. Told'
    BY <2>2, ToldNothing
  <2>9. QED
    BY <1>1, <1>3, <2>2, <2>7, <2>8 DEF SnapInv
<1>6. QED
  BY <1>4, <1>5

\* What the administrator is told at the end is true: the last component that
\* carries a path has been written, and in a rollback each says what was there.
LEMMA RestoreDoneKeeps ==
  ASSUME SnapInv, RestoreDone
  PROVE  SnapInv'
<1>1. /\ Writing /\ ~(work.next =< Len(Definitions)) /\ work' = NoWork
      /\ verdict' = IF work.phase = "restore" THEN "restored" ELSE "rolled_back"
      /\ UNCHANGED <<disk, wished, before, touched, stuck>>
  BY DEF RestoreDone, More, histVars
<1>2. WorkOk(work, disk, verdict, wished, before, touched, stuck)
  BY DEF SnapInv
<1>3. work.next = Len(Definitions) + 1 /\ work.next \notin DOMAIN Definitions
  BY <1>1, <1>2, DefinitionsType DEF WorkOk
<1>4. \A p : ~InHand(work, p)
  BY <1>2, <1>3 DEF WorkOk, InHand
<1>5. \A p : Behind(work, p) = Cover(work.parts, p)
  BY <1>3, DefinitionsType DEF Behind, Cover
<1>6. ASSUME NEW p, Cover(work.parts, p) # {}
      PROVE  \E c \in Cover(work.parts, p) : \A j \in Cover(work.parts, p) : j =< c
  <2>1. Cover(work.parts, p) \in SUBSET Int /\ Len(Definitions) \in Int
        /\ \A i \in Cover(work.parts, p) : i =< Len(Definitions)
    BY DefinitionsType DEF Cover
  <2>2. QED
    BY <1>6, <2>1, Greatest
<1>7. \A p \in Paths \ touched : Written(work, disk, stuck, before, p)
  BY <1>1, <1>2 DEF WorkOk, Writing
<1>8. CASE work.phase = "restore"
  <2>1. work.parts = wished /\ verdict' = "restored"
    BY <1>1, <1>2, <1>8 DEF WorkOk
  <2>2. ASSUME NEW p \in Paths \ touched PROVE Holds(disk, stuck, p, Promised(p))
    <3>1. Carriers(p) = Behind(work, p)
      BY <1>5, <2>1 DEF Carriers, Cover
    <3>2. CASE Carriers(p) = {}
      BY <1>4, <1>7, <1>8, <2>2, <3>1, <3>2 DEF Written, Promised
    <3>3. CASE Carriers(p) # {}
      <4> DEFINE c == CHOOSE i \in Carriers(p) : \A j \in Carriers(p) : j =< i
      <4>1. \E i \in Carriers(p) : \A j \in Carriers(p) : j =< i
        BY <1>5, <1>6, <3>1, <3>3
      <4>2. c \in Carriers(p) /\ \A j \in Carriers(p) : j =< c
        BY <4>1, Zenon
      <4>3. Promised(p) = wished[c][p]
        BY <3>3 DEF Promised
      <4> HIDE DEF c
      <4>4. Holds(disk, stuck, p, work.parts[c][p])
        BY <1>4, <1>7, <2>2, <3>1, <4>2 DEF Written
      <4>5. QED
        BY <2>1, <4>3, <4>4
    <3>4. QED
      BY <3>2, <3>3
  <2>3. \A p : Promised(p)' = Promised(p)
    BY <1>1 DEF Promised, Carriers
  <2>4. \A p : Due(p)' = Promised(p)
    BY <2>1, <2>3 DEF Due
  <2>5. QED
    <3>1. Told'
      BY <1>1, <2>2, <2>4 DEF Told
    <3>2. WorkOk(work', disk', verdict', wished', before', touched', stuck')
      BY <1>1, IdleOk
    <3>3. disk' = [p \in Paths |-> disk'[p]]
      BY <1>1 DEF SnapInv
    <3>4. QED
      BY <3>1, <3>2, <3>3 DEF SnapInv
<1>9. CASE work.phase # "restore"
  <2>1. work.phase = "rollback" /\ verdict' = "rolled_back"
    BY <1>1, <1>9 DEF Writing
  <2>2. /\ DOMAIN work.parts = DOMAIN Definitions
        /\ ReadBack(work.parts, Len(Definitions), before, touched)
    BY <1>2, <2>1 DEF WorkOk
  <2>3. ASSUME NEW p \in Paths \ touched PROVE Holds(disk, stuck, p, before[p])
    <3>1. Cover(work.parts, p) # {}
      BY <2>2, <2>3, DefinitionsType DEF Cover
    <3>2. PICK c \in Cover(work.parts, p) : \A j \in Cover(work.parts, p) : j =< c
      BY <1>6, <3>1
    <3>3. Holds(disk, stuck, p, work.parts[c][p])
      BY <1>4, <1>5, <1>7, <2>3, <3>2 DEF Written
    <3>4. work.parts[c][p] = before[p]
      BY <2>2, <2>3, <3>2, DefinitionsType DEF Cover, ReadBack
    <3>5. QED
      BY <3>3, <3>4
  <2>4. \A p : Due(p)' = before[p]
    BY <1>1, <2>1 DEF Due
  <2>5. QED
    <3>1. Told'
      BY <1>1, <2>3, <2>4 DEF Told
    <3>2. WorkOk(work', disk', verdict', wished', before', touched', stuck')
      BY <1>1, IdleOk
    <3>3. disk' = [p \in Paths |-> disk'[p]]
      BY <1>1 DEF SnapInv
    <3>4. QED
      BY <3>1, <3>2, <3>3 DEF SnapInv
<1>10. QED
  BY <1>8, <1>9

\* Another writer takes its path out of what is claimed, and leaves the others alone.
LEMMA TouchKeeps ==
  ASSUME SnapInv, NEW q \in Paths, NEW c, Touch(q, c)
  PROVE  SnapInv'
<1>1. /\ disk' = [disk EXCEPT ![q] = c] /\ touched' = touched \cup {q}
      /\ UNCHANGED <<work, verdict, wished, before, stuck>>
  BY DEF Touch
<1>2. WorkOk(work, disk, verdict, wished, before, touched, stuck)
      /\ disk = [p \in Paths |-> disk[p]]
  BY DEF SnapInv
<1>3. /\ disk' = [p \in Paths |-> disk'[p]]
      /\ \A p \in Paths \ touched' : p \in Paths \ touched /\ disk'[p] = disk[p]
  BY <1>1, <1>2
<1>4. \A g, n : ReadBack(g, n, before, touched) => ReadBack(g, n, before, touched')
  BY <1>1 DEF ReadBack
<1>5. \A p \in Paths \ touched' :
        Written(work, disk, stuck, before, p) => Written(work, disk', stuck, before, p)
  BY <1>3, SameWritten
<1>6. WorkOk(work, disk', verdict, wished, before, touched', stuck)
  BY <1>2, <1>3, <1>4, <1>5 DEF WorkOk
<1>7. Told'
  <2> SUFFICES ASSUME NEW p \in Paths \ touched' PROVE Holds(disk', stuck', p, Due(p)')
    BY DEF Told
  <2>1. p \in Paths \ touched /\ disk'[p] = disk[p] /\ stuck' = stuck
    BY <1>1, <1>3
  <2>2. Promised(p)' = Promised(p)
    BY <1>1 DEF Promised, Carriers
  <2>3. Due(p)' = Due(p)
    BY <1>1, <2>1, <2>2 DEF Due
  <2>4. Holds(disk, stuck, p, Due(p))
    BY <2>1 DEF SnapInv, Told
  <2>5. QED
    BY <2>1, <2>3, <2>4 DEF Holds
<1>8. QED
  BY <1>1, <1>3, <1>6, <1>7 DEF SnapInv

\* No step of a backup, of a restore or of another writer breaks the invariant.
LEMMA SnapInvInductive ==
  ASSUME SnapInv, SnapNext \/ UNCHANGED snapVars
  PROVE  SnapInv'
<1>1. CASE UNCHANGED snapVars
  <2>1. UNCHANGED <<work, disk, verdict, wished, before, touched, stuck>>
    BY <1>1 DEF snapVars
  <2>2. Told'
    BY <2>1, ToldStays DEF SnapInv
  <2>3. QED
    BY <2>1, <2>2 DEF SnapInv
<1>2. CASE ReadFails \/ SaveBackup \/ Killed
  BY <1>2, NoWorkKeeps DEF ReadFails, SaveBackup, Killed, histVars
<1>3. CASE \/ \E mask \in BOOLEAN : Download(mask)
           \/ \E b \in shelf \cup Uploads : Restore(b)
           \/ \E safety \in BOOLEAN : BeginWriting(safety)
           \/ \E kept \in SUBSET Paths : EmptyDirectory(kept)
           \/ \E p \in Paths : RestoreEntry(p)
           \/ \E p \in Paths, c \in Contents \cup {Gone} : Touch(p, c)
  BY <1>3, DownloadKeeps, RestoreKeeps, BeginWritingKeeps, EmptyDirectoryKeeps,
     RestoreEntryKeeps, TouchKeeps
<1>4. CASE \/ ReadComponent \/ PassOver \/ RestoreFile \/ DirectoryDone
           \/ RestoreFails \/ RestoreDone
  BY <1>4, ReadComponentKeeps, PassOverKeeps, RestoreFileKeeps, DirectoryDoneKeeps,
     RestoreFailsKeeps, RestoreDoneKeeps
<1>5. QED
  BY <1>1, <1>2, <1>3, <1>4 DEF SnapNext

\* What the administrator is told of a restore is true of every path nobody else
\* wrote, whatever failed, stuck or was killed on the way.
THEOREM RestoreIsHonest == Spec => []RestoreToldTruth
<1>1. Init => SnapInv
  <2> SUFFICES ASSUME Init PROVE SnapInv
    OBVIOUS
  <2>1. disk \in InitialDisks /\ work = NoWork /\ verdict = "none"
    BY DEF Init, SnapInit
  <2>2. disk = [p \in Paths |-> disk[p]]
    BY <2>1 DEF InitialDisks
  <2>3. WorkOk(work, disk, verdict, wished, before, touched, stuck)
    BY <2>1, IdleOk
  <2>4. Told
    BY <2>1 DEF Told, Due, Holds
  <2>5. QED
    BY <2>2, <2>3, <2>4 DEF SnapInv
<1>2. SnapInv /\ [Next]_consoleVars => SnapInv'
  <2> SUFFICES ASSUME SnapInv, [Next]_consoleVars PROVE SnapInv'
    OBVIOUS
  <2>1. SnapNext \/ UNCHANGED snapVars
    BY DEF Next, DeskStep, IdsBlockStep, SocBlockStep, AccessStep, IfaceStep,
           MigStep, SnapStep, consoleVars
  <2>2. QED
    BY <2>1, SnapInvInductive
<1>3. SnapInv => RestoreToldTruth
  BY DEF SnapInv, Told, Due, Holds, RestoreToldTruth
<1>4. QED
  BY <1>1, <1>2, <1>3, PTL DEF Spec
=============================================================================
