------------------------------ MODULE Branches ------------------------------
(***************************************************************************)
(* Branches (BranchesService, branches.util, branch-scope): warehouses,       *)
(* employees and fingerprint devices belong to one, users are restricted to   *)
(* some.  A handler checks what it read and saves the whole row in a later     *)
(* statement; the removal of a branch counts and writes in one transaction,    *)
(* whose statements each see what is committed when they run.                  *)
(***************************************************************************)
EXTENDS Integers, FiniteSets

CONSTANTS
  Branch,      \* ids
  MainBranch,        \* the main branch, there from the first use
  BranchWarehouses,
  Holders,     \* employees and devices
  Users,       \* users that may be restricted
  Desks        \* requests

Admin == "admin"

VARIABLES
  branches,   \* branches rows: isActive, and whether deletedAt is set
  warehouses, \* warehouses rows that are not removed: branchId and isActive
  holders,    \* employees and biometric_devices: branch_id
  restricted, \* user_branches of each user; none is every branch
  tokens,     \* branchIds in the token each user holds
  desks,
  late        \* history: what was last saved into a branch whose removal had counted

branchVars == <<branches, warehouses, holders, restricted, tokens, desks, late>>

DeskFree == [at |-> "none"]

BranchesInit ==
  /\ branches = [b \in {MainBranch} |-> [isActive |-> TRUE, deleted |-> FALSE]]
  /\ warehouses = [w \in {} |-> {}]
  /\ holders = [h \in {} |-> {}]
  /\ restricted = [u \in Users |-> {}]
  /\ tokens = [u \in Users |-> {}]
  /\ desks = [d \in Desks |-> DeskFree]
  /\ late = {}

Live(b) == b \in DOMAIN branches /\ ~branches[b].deleted
Usable(b) == Live(b) /\ branches[b].isActive
OwnWarehouses(b) == {w \in DOMAIN warehouses : warehouses[w].branchId = b}
Put(f, k, row) == [x \in DOMAIN f \cup {k} |-> IF x = k THEN row ELSE f[x]]

(* The interceptor drops removed branches from the scope it takes from the token;  *)
(* a token without branches is not restricted                                       *)
TokenOf(u) == IF u = Admin THEN {} ELSE tokens[u]
Unrestricted(u) == TokenOf(u) = {}
Scope(u) == {b \in TokenOf(u) : Live(b)}
Allowed(u, b) == ~Unrestricted(u) => b \in Scope(u)

Start(d, step) == desks[d].at = "none" /\ desks' = [desks EXCEPT ![d] = step]
Finish(d) == desks' = [desks EXCEPT ![d] = DeskFree]

(* A branch that is removed, or that a removal has counted and is about to hide      *)
Leaving(b) == ~Live(b) \/ \E e \in Desks : desks[e].at = "remove" /\ desks[e].of = b

(* Remembers whether what request d saves comes into such a branch                   *)
Remember(d, into) ==
  LET item == <<desks[d].at, desks[d].of>> IN
  late' = IF \E b \in into : Leaving(b) THEN late \cup {item} ELSE late \ {item}

-----------------------------------------------------------------------------
CreateBranch(b) ==
  /\ b \notin DOMAIN branches
  /\ branches' = Put(branches, b, [isActive |-> TRUE, deleted |-> FALSE])
  /\ UNCHANGED <<warehouses, holders, restricted, tokens, desks, late>>

(* update saves the row it read, as it was not removed                              *)
BeginUpdateBranch(d, u, b, active) ==
  /\ Live(b) /\ Allowed(u, b)
  /\ ~active /\ branches[b].isActive =>
       b # MainBranch /\ \A w \in OwnWarehouses(b) : ~warehouses[w].isActive
  /\ Start(d, [at |-> "branch", of |-> b, row |-> [isActive |-> active, deleted |-> FALSE]])
  /\ UNCHANGED <<branches, warehouses, holders, restricted, tokens, late>>

SaveBranch(d) ==
  /\ desks[d].at = "branch"
  /\ branches' = Put(branches, desks[d].of, desks[d].row)
  /\ Finish(d)
  /\ UNCHANGED <<warehouses, holders, restricted, tokens, late>>

(* remove counts warehouses and restricted users, and then moves what else belongs  *)
(* to the branch to the main one and hides it                                        *)
Removable(b) == OwnWarehouses(b) = {} /\ \A u \in Users : b \notin restricted[u]

BeginRemove(d, u, b) ==
  /\ Live(b) /\ Allowed(u, b) /\ b # MainBranch
  /\ Removable(b)
  /\ Start(d, [at |-> "remove", of |-> b])
  /\ UNCHANGED <<branches, warehouses, holders, restricted, tokens, late>>

(* slip: the devices and employees stay where they are (NothingLeftBehind)             *)
NotMoved(b) == holders

Moved(b) == [h \in DOMAIN holders |-> IF holders[h] = b THEN MainBranch ELSE holders[h]]

CommitRemove(d) ==
  /\ desks[d].at = "remove"
  /\ holders' = Moved(desks[d].of)
  /\ branches' = [branches EXCEPT ![desks[d].of].deleted = TRUE]
  /\ Finish(d)
  /\ UNCHANGED <<warehouses, restricted, tokens, late>>

-----------------------------------------------------------------------------
(* resolveBranchId: a branch that is in use and within the scope                      *)
Resolvable(u, b) == Usable(b) /\ Allowed(u, b)

BeginWarehouse(d, u, w, b) ==
  /\ w \notin DOMAIN warehouses /\ Resolvable(u, b)
  /\ Start(d, [at |-> "warehouse", of |-> w, new |-> TRUE, row |-> [branchId |-> b, isActive |-> TRUE]])
  /\ UNCHANGED <<branches, warehouses, holders, restricted, tokens, late>>

(* update checks the branch only when it changes, and saves the row it read           *)
BeginUpdateWarehouse(d, u, w, b, active) ==
  /\ w \in DOMAIN warehouses /\ Allowed(u, warehouses[w].branchId)
  /\ b = warehouses[w].branchId \/ Resolvable(u, b)
  /\ Start(d, [at |-> "warehouse", of |-> w, new |-> FALSE, row |-> [branchId |-> b, isActive |-> active]])
  /\ UNCHANGED <<branches, warehouses, holders, restricted, tokens, late>>

SaveWarehouse(d) ==
  /\ desks[d].at = "warehouse"
  /\ warehouses' = Put(warehouses, desks[d].of, desks[d].row)
  /\ Remember(d, {desks[d].row.branchId}) /\ Finish(d)
  /\ UNCHANGED <<branches, holders, restricted, tokens>>

RemoveWarehouse(u, w) ==
  /\ w \in DOMAIN warehouses /\ Allowed(u, warehouses[w].branchId)
  /\ warehouses' = [x \in DOMAIN warehouses \ {w} |-> warehouses[x]]
  /\ UNCHANGED <<branches, holders, restricted, tokens, desks, late>>

(* An employee or a device is created in a branch, moved to another, or edited in      *)
(* its own                                                                             *)
BeginHolder(d, u, h, b) ==
  /\ IF h \in DOMAIN holders
     THEN Allowed(u, holders[h]) /\ (b = holders[h] \/ Resolvable(u, b))
     ELSE Resolvable(u, b)
  /\ Start(d, [at |-> "holder", of |-> h, row |-> b])
  /\ UNCHANGED <<branches, warehouses, holders, restricted, tokens, late>>

SaveHolder(d) ==
  /\ desks[d].at = "holder"
  /\ holders' = Put(holders, desks[d].of, desks[d].row)
  /\ Remember(d, {desks[d].row}) /\ Finish(d)
  /\ UNCHANGED <<branches, warehouses, restricted, tokens>>

(* resolveUserBranches: none asked for is the scope of who asks                          *)
Granted(u, asked) == IF asked = {} /\ ~Unrestricted(u) THEN Scope(u) ELSE asked

BeginUser(d, u, v, asked) ==
  /\ \A b \in Granted(u, asked) : Live(b) /\ Allowed(u, b)
  /\ Start(d, [at |-> "user", of |-> v, row |-> Granted(u, asked)])
  /\ UNCHANGED <<branches, warehouses, holders, restricted, tokens, late>>

SaveUser(d) ==
  /\ desks[d].at = "user"
  /\ restricted' = [restricted EXCEPT ![desks[d].of] = desks[d].row]
  /\ Remember(d, desks[d].row) /\ Finish(d)
  /\ UNCHANGED <<branches, warehouses, holders, tokens>>

(* getTokens leaves removed branches out                                                 *)
Refresh(u) ==
  /\ tokens' = [tokens EXCEPT ![u] = {b \in restricted[u] : Live(b)}]
  /\ UNCHANGED <<branches, warehouses, holders, restricted, desks, late>>

BranchesNext ==
  \/ \E b \in Branch : CreateBranch(b)
  \/ \E d \in Desks, u \in Users \cup {Admin}, b \in DOMAIN branches :
       \/ \E active \in BOOLEAN : BeginUpdateBranch(d, u, b, active)
       \/ BeginRemove(d, u, b)
       \/ \E w \in BranchWarehouses : BeginWarehouse(d, u, w, b)
       \/ \E w \in BranchWarehouses, active \in BOOLEAN : BeginUpdateWarehouse(d, u, w, b, active)
       \/ \E h \in Holders : BeginHolder(d, u, h, b)
  \/ \E d \in Desks, u \in Users \cup {Admin}, v \in Users, asked \in SUBSET DOMAIN branches :
       BeginUser(d, u, v, asked)
  \/ \E d \in Desks : SaveBranch(d) \/ CommitRemove(d) \/ SaveWarehouse(d) \/ SaveHolder(d) \/ SaveUser(d)
  \/ \E u \in Users \cup {Admin}, w \in BranchWarehouses : RemoveWarehouse(u, w)
  \/ \E u \in Users : Refresh(u)

BranchesSpec == BranchesInit /\ [][BranchesNext]_branchVars
-----------------------------------------------------------------------------
(* However requests overlap, a warehouse, an employee or device and a restriction of  *)
(* a user are left with a removed branch only when they were last saved into it after *)
(* its removal had counted: what a removal found refuses it or is moved by it, and no  *)
(* removal in between, no row saved as it was read and no branch that comes back with  *)
(* one changes that.  The main branch is neither stopped nor removed.                  *)
NothingLeftBehind ==
  /\ Usable(MainBranch)
  /\ \A w \in DOMAIN warehouses : Live(warehouses[w].branchId) \/ <<"warehouse", w>> \in late
  /\ \A h \in DOMAIN holders : Live(holders[h]) \/ <<"holder", h>> \in late
  /\ \A u \in Users : (\A b \in restricted[u] : Live(b)) \/ <<"user", u>> \in late
=============================================================================
