--------------------------- MODULE InterfaceChange ---------------------------
(***************************************************************************)
(* The address of one static interface: the configured row, the snapshots  *)
(* an administrator may undo it with, and the interface itself, on which   *)
(* an apply sets address and gateway, tests them and goes back if the test *)
(* fails.  Each request reads before its transaction begins, and no lock   *)
(* keeps requests or applies apart.                                        *)
(***************************************************************************)
EXTENDS Naturals, Sequences

CONSTANTS
    Rows,       \* configurations: address, gateway ("none" for an empty field), MTU
    Clerks,     \* the requests that change the row
    Appliers,   \* the requests that apply it
    MaxSnaps    \* bound on the snapshots ever made

ASSUME InterfaceAssumption ==
    /\ \A r \in Rows : r = [addr |-> r.addr, gw |-> r.gw, mtu |-> r.mtu]
    /\ MaxSnaps \in Nat

VARIABLES
    row,        \* lan_config or wan_config
    snaps,      \* pending_interface_changes, oldest row first
    made,       \* its AUTOINCREMENT counter
    reqs,       \* what each request has read and not yet acted on
    nic,        \* the live interface and default route
    applies,    \* how far each apply is
    good,       \* history: row and interface at the last apply that succeeded
    depth,      \* history: changes of the row since then that are not undone
    astray,     \* history: the row was changed in a way undo does not know of
    broken      \* history: the interface may be half changed

ifaceVars == <<row, snaps, made, reqs, nic, applies, good, depth,
               astray, broken>>

NoReq == [op |-> "none", seen |-> [id |-> 0, addr |-> "none", gw |-> "none"]]
NoApply == [stage |-> "idle", new |-> "none", old |-> "none", depth |-> 0,
            undone |-> FALSE, alone |-> FALSE]

Same(r, s) == r.addr = s.addr /\ r.gw = s.gw
-----------------------------------------------------------------------------
\* update_interface reads the row before sqlite3 begins its transaction.
ReadRow(c) ==
    /\ reqs[c].op = "none"
    /\ reqs' = [reqs EXCEPT ![c] = [op |-> "update",
                                    seen |-> [id |-> 0, addr |-> row.addr, gw |-> row.gw]]]
    /\ UNCHANGED <<row, snaps, made, nic, applies, good, depth, astray, broken>>

\* The snapshot of what it read, and the update, in one transaction.  A snapshot of a
\* row that has changed meanwhile misleads a later undo.
UpdateInterface(c, new) ==
    /\ reqs[c].op = "update" /\ made < MaxSnaps
    /\ snaps' = Append(snaps, [reqs[c].seen EXCEPT !.id = made + 1])
    /\ made' = made + 1
    /\ row' = new
    /\ reqs' = [reqs EXCEPT ![c] = NoReq]
    /\ depth' = depth + 1
    /\ astray' = (astray \/ ~Same(reqs[c].seen, row))
    /\ UNCHANGED <<nic, applies, good, broken>>

\* Mutant: the earliest snapshot.
LatestEarliest(i) == i = 1

\* ORDER BY applied_at DESC LIMIT 1, read off idx_pending_iface_type backwards: of
\* rows in the same second the one inserted last comes first.  The clock is not set
\* back here, and confirm_interface_apply's mark is not read.
Latest(i) == i = Len(snaps)

ReadSnapshot(c) ==
    /\ reqs[c].op = "none"
    /\ \E i \in DOMAIN snaps :
          /\ Latest(i)
          /\ reqs' = [reqs EXCEPT ![c] = [op |-> "rollback", seen |-> snaps[i]]]
    /\ UNCHANGED <<row, snaps, made, nic, applies, good, depth, astray, broken>>

\* A rollback takes back what the applies under way read, if it undoes that.
Undone(a) == IF a.stage # "idle" /\ depth =< a.depth THEN [a EXCEPT !.undone = TRUE] ELSE a

\* rollback_interface puts address and gateway back, and nothing else of the row,
\* and deletes the snapshot it read, which another request may have restored before;
\* the live interface is left alone.
RollbackInterface(c) ==
    /\ reqs[c].op = "rollback"
    /\ LET s == reqs[c].seen
       IN  /\ row' = [row EXCEPT !.addr = s.addr, !.gw = s.gw]
           /\ \/ \E i \in DOMAIN snaps :
                    /\ snaps[i] = s
                    /\ snaps' = [j \in 1..Len(snaps) - 1 |-> snaps[IF j < i THEN j ELSE j + 1]]
                    /\ astray' = (astray \/ depth = 0 \/ ~Latest(i))
              \/ /\ \A i \in DOMAIN snaps : snaps[i] # s
                 /\ snaps' = snaps
                 /\ astray' = TRUE
    /\ depth' = IF depth = 0 THEN 0 ELSE depth - 1
    /\ applies' = [a \in Appliers |-> Undone(applies[a])]
    /\ reqs' = [reqs EXCEPT ![c] = NoReq]
    /\ UNCHANGED <<made, nic, good, broken>>

\* Other pages save the row without a snapshot.
SaveElsewhere(new) ==
    /\ row' = new
    /\ astray' = TRUE
    /\ UNCHANGED <<snaps, made, reqs, nic, applies, good, depth, broken>>
-----------------------------------------------------------------------------
Applying == {a \in Appliers : applies[a].stage # "idle"}

GoOn(a, stage) == applies' = [applies EXCEPT ![a].stage = stage]
EndApply(a) == applies' = [applies EXCEPT ![a] = NoApply]

\* apply_interface_with_rollback: the row apply_interface_config read, and the state
\* to go back to; of applies that overlap, one may take the middle of another for it.
Capture(a) ==
    /\ applies[a].stage = "idle"
    /\ LET alone == Applying = {}
       IN  /\ applies' = [b \in Appliers |->
                  IF b = a
                  THEN [stage |-> "address", new |-> row, old |-> nic, depth |-> depth,
                        undone |-> FALSE, alone |-> alone]
                  ELSE [applies[b] EXCEPT !.alone = FALSE]]
           /\ broken' = (broken \/ ~alone)
    /\ UNCHANGED <<row, snaps, made, reqs, nic, good, depth, astray>>

\* Two commands; when one fails the apply ends and nothing is undone.
SetAddress(a, failed) ==
    /\ applies[a].stage = "address"
    /\ nic' = IF failed = "inet" THEN nic ELSE [nic EXCEPT !.addr = applies[a].new.addr]
    /\ broken' = (broken \/ failed # "none")
    /\ IF failed # "none" THEN EndApply(a)
       ELSE GoOn(a, IF applies[a].new.gw = "none" THEN "mtu" ELSE "gateway")
    /\ UNCHANGED <<row, snaps, made, reqs, good, depth, astray>>

\* set_default_gateway deletes the default route and adds the new one.
SetGateway(a, ok) ==
    /\ applies[a].stage = "gateway"
    /\ nic' = [nic EXCEPT !.gw = IF ok THEN applies[a].new.gw ELSE "none"]
    /\ GoOn(a, IF ok THEN "ping" ELSE "restore")
    /\ UNCHANGED <<row, snaps, made, reqs, good, depth, astray, broken>>

Ping(a, reachable) ==
    /\ applies[a].stage = "ping"
    /\ GoOn(a, IF reachable THEN "mtu" ELSE "restore")
    /\ UNCHANGED <<row, snaps, made, reqs, nic, good, depth, astray, broken>>

\* run_command raises when ping itself times out, and nothing catches it; so ends an
\* apply whose worker is killed, too.
CutShort(a) ==
    /\ applies[a].stage # "idle"
    /\ EndApply(a)
    /\ broken' = TRUE
    /\ UNCHANGED <<row, snaps, made, reqs, nic, good, depth, astray>>

\* _restore_old, best effort: address and default route, where they could be read
\* before and the commands succeed.
RestoreOld(a, addrOk, gwOk) ==
    /\ applies[a].stage = "restore"
    /\ nic' = [nic EXCEPT !.addr = IF addrOk THEN applies[a].old.addr ELSE @,
                          !.gw = IF gwOk THEN applies[a].old.gw ELSE "none"]
    /\ broken' = (broken \/ ~addrOk \/ ~gwOk)
    /\ EndApply(a)
    /\ UNCHANGED <<row, snaps, made, reqs, good, depth, astray>>

\* The MTU comes last, whether it is set or not, and the apply has succeeded.
\* Changes made to the row since it was read are the ones an undo has to take back;
\* a rollback of what was being applied leaves row and interface apart.
SetMtu(a, ok) ==
    /\ applies[a].stage = "mtu"
    /\ nic' = IF ok THEN [nic EXCEPT !.mtu = applies[a].new.mtu] ELSE nic
    /\ good' = [row |-> applies[a].new, nic |-> nic']
    /\ astray' = (astray \/ applies[a].undone \/ ~applies[a].alone)
    /\ broken' = ~applies[a].alone
    /\ depth' = IF depth < applies[a].depth THEN 0 ELSE depth - applies[a].depth
    /\ EndApply(a)
    /\ UNCHANGED <<row, snaps, made, reqs>>
-----------------------------------------------------------------------------
IfaceInit ==
    /\ row \in Rows
    /\ nic = row
    /\ snaps = <<>> /\ made = 0
    /\ reqs = [c \in Clerks |-> NoReq] /\ applies = [a \in Appliers |-> NoApply]
    /\ good = [row |-> row, nic |-> row] /\ depth = 0
    /\ astray = FALSE /\ broken = FALSE

RowStep ==
    \/ \E c \in Clerks :
          \/ ReadRow(c) \/ ReadSnapshot(c) \/ RollbackInterface(c)
          \/ \E new \in Rows : UpdateInterface(c, new)
    \/ \E new \in Rows : SaveElsewhere(new)

ApplyStep(a) ==
    \/ \E failed \in {"none", "inet", "up"} : SetAddress(a, failed)
    \/ \E ok \in BOOLEAN : SetGateway(a, ok) \/ Ping(a, ok) \/ SetMtu(a, ok)
    \/ \E addrOk, gwOk \in BOOLEAN : RestoreOld(a, addrOk, gwOk)
    \/ Capture(a) \/ CutShort(a)

IfaceNext == RowStep \/ \E a \in Appliers : ApplyStep(a)

\* Undo restores, for applies that do not overlap.  After any changes and rollbacks
\* since an apply that succeeded, and any applies that ended in a rollback, the
\* interface is as that apply left it, MTU included, unless applies overlapped, a
\* command of an apply or of its restoring failed, or an exception or a kill cut one
\* short; and once every change is undone the row is what it applied, unless the row
\* was changed between a request's read and its write, a snapshot was restored
\* twice or out of order, what was being applied was undone, or the row was saved by
\* another page.
UndoRestores ==
    /\ Applying = {} /\ ~broken => nic = good.nic
    /\ depth = 0 /\ ~astray => Same(row, good.row)
=============================================================================
