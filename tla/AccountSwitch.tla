--------------------------- MODULE AccountSwitch ---------------------------
(***************************************************************************)
(* Several accounts on one device: src/services/savedAccounts.ts keeps the *)
(* switcher and the keychain, src-tauri/src/storage/profile.rs moves the   *)
(* files of one account out and those of another in, one rename at a time, *)
(* and undoes what it moved when a rename fails.                           *)
(*                                                                         *)
(* A file is known by its entry (secrets.enc, a file of the config dir)    *)
(* and the account whose data it holds.                                    *)
(***************************************************************************)
EXTENDS Naturals, Sequences, FiniteSets

CONSTANTS Accounts,
          Cloud,         \* the accounts the switcher may hold; others are local
          Entries,       \* the files of an account that move
          Secrets,       \* secrets.enc, which moves first and holds the vault
          None,
          Bin,           \* the discard directory
          Mishaps,       \* what may go wrong, each once (bound),
          MaxMishaps     \* and so many of them at most (bound)

ASSUME SwitchAssumption ==
  /\ Cloud \subseteq Accounts
  /\ Secrets \in Entries
  /\ None \notin Accounts \union {Bin} /\ Bin \notin Accounts
  /\ Mishaps \subseteq {"move", "undo", "save", "write", "crash", "resign", "drop"}
  /\ MaxMishaps \in Nat

VARIABLES
  live,    \* live[e]: whose data lies in the place of entry e, or None
  shelf,   \* shelf[x][e]: the same of the directory parked under x, or of the bin
  made,    \* made[x]: the entries x has data in that nobody asked to drop
  saved,   \* the accounts in the switcher
  kc,      \* the keychain: whose account_id, and whose password or key
  mem,     \* the account the running window has in memory
  stage,   \* what the window, or the swap it asked for, is doing
  target,  \* the account switched to
  dest,    \* where the outgoing files go
  moved,   \* the moves of the swap, in order: [e, in]
  whole,   \* the undo has put back everything so far
  went     \* the mishaps there have been

files  == <<live, shelf, made>>
swap   == <<target, dest, moved, whole>>
vars   == <<files, saved, kc, mem, stage, swap, went>>

Owners   == Accounts \union {None}
Shelves  == Accounts \union {Bin}
Empty    == [e \in Entries |-> None]
NoKeys   == [id |-> None, key |-> None]
KeysOf(x) == [id |-> x, key |-> x]

Mishap(m) ==
  /\ m \in Mishaps \ went /\ Cardinality(went) < MaxMishaps
  /\ went' = went \union {m}

\* A directory that is deleted: what cannot be removed stays.
Deletes(s) == shelf' = [shelf EXCEPT ![s] = Empty] /\ UNCHANGED went
LeavesSome(s) ==
  /\ Mishap("drop")
  /\ \E left \in SUBSET Entries :
       shelf' = [shelf EXCEPT ![s] = [e \in Entries |-> IF e \in left THEN @[e] ELSE None]]
Drops(s) == Deletes(s) \/ LeavesSome(s)

\* A first launch: no account, nothing on disk.
Init ==
  /\ live = Empty
  /\ shelf = [s \in Shelves |-> Empty]
  /\ made = [x \in Accounts |-> {}]
  /\ saved = {} /\ kc = NoKeys /\ mem = None
  /\ stage = "locked"
  /\ target = None /\ dest = Bin /\ moved = <<>> /\ whole = TRUE
  /\ went = {}

(***************************************************************************)
(* Sessions                                                                *)
(***************************************************************************)

\* keepSwitcherFresh after an unlock: only a cloud account joins the switcher,
\* and a keychain that refuses is only logged.
Joins(x) ==
  \/ saved' = (IF x \in Cloud THEN saved \union {x} ELSE saved) /\ UNCHANGED went
  \/ x \in Cloud \ saved /\ Mishap("save") /\ UNCHANGED saved

Opens(x) == mem' = x /\ stage' = "running"

\* A vault that is there has to open with the account's key.
OpensVault(x) == live[Secrets] \in {None, x}

LaunchUnchecked == \* mutant: the vault is not tried with the key
  /\ stage = "off"
  /\ \/ kc.id # None /\ kc.key = kc.id /\ Opens(kc.id) /\ Joins(kc.id)
     \/ /\ kc.id = None \/ kc.key # kc.id
        /\ stage' = "locked" /\ mem' = None
        /\ UNCHANGED <<saved, went>>
  /\ UNCHANGED <<files, kc, swap>>

\* Launch or reload: autoLogin with what the keychain holds, or the unlock page.
Launch ==
  /\ stage = "off"
  /\ \/ kc.id # None /\ kc.key = kc.id /\ OpensVault(kc.key) /\ Opens(kc.id) /\ Joins(kc.id)
     \/ /\ kc.id = None \/ kc.key # kc.id \/ ~OpensVault(kc.key)
        /\ stage' = "locked" /\ mem' = None
        /\ UNCHANGED <<saved, went>>
  /\ UNCHANGED <<files, kc, swap>>

\* The unlock page: the account's password is typed.
Unlock ==
  /\ stage = "locked" /\ kc.id # None /\ OpensVault(kc.id)
  /\ kc' = KeysOf(kc.id)
  /\ Opens(kc.id) /\ Joins(kc.id)
  /\ UNCHANGED <<files, swap>>

\* An account that is parked here may be signed in to again: nothing is restored.
Enters(x) ==
  /\ kc' = KeysOf(x)
  /\ Opens(x)
  /\ \/ shelf[x] = Empty /\ Joins(x)
     \/ shelf[x] # Empty /\ Mishap("resign") /\ UNCHANGED saved

\* The first-launch page: an account is created, or signed in to.
SignIn(x) ==
  /\ stage = "locked" /\ kc.id = None /\ live[Secrets] = None
  /\ Enters(x)
  /\ UNCHANGED <<files, swap>>

\* signInToCloud from a local account: its data is wiped, as the user was told.
SignInFromLocal(x) ==
  /\ stage = "running" /\ mem \notin Cloud /\ x \in Cloud
  /\ live' = Empty
  /\ made' = [made EXCEPT ![mem] = {}]
  /\ Enters(x)
  /\ UNCHANGED <<shelf, swap>>

\* The session writes a file it has not had so far.
Work(e) ==
  /\ stage = "running"
  /\ live[e] = None /\ e \notin made[mem]
  /\ live' = [live EXCEPT ![e] = mem]
  /\ made' = [made EXCEPT ![mem] = @ \union {e}]
  /\ UNCHANGED <<shelf, saved, kc, mem, stage, swap, went>>

\* logout: out of the switcher with its park (removeSavedAccount), then the vault is
\* reset.
Logout ==
  /\ stage = "running"
  /\ saved' = saved \ {mem}
  /\ live' = Empty
  /\ Drops(mem)
  /\ made' = [made EXCEPT ![mem] = {}]
  /\ kc' = NoKeys
  /\ mem' = None
  /\ stage' = "locked"
  /\ UNCHANGED swap

(***************************************************************************)
(* The switcher                                                            *)
(***************************************************************************)

\* The account menu, as it opens, saves the current account.
Save ==
  /\ stage = "running" /\ mem \in Cloud \ saved
  /\ saved' = saved \union {mem}
  /\ UNCHANGED <<files, kc, mem, stage, swap, went>>

\* addAccount: the current account is saved first, then the one just proven.
Add(x) ==
  /\ stage = "running" /\ x \in Cloud \ (saved \union {mem})
  /\ saved' = saved \union {x} \union ({mem} \intersect Cloud)
  /\ UNCHANGED <<files, kc, mem, stage, swap, went>>

RemoveLeavesPark(x) == \* mutant: the parked files stay
  /\ stage \in {"running", "install"}
  /\ x \in saved \ {mem}
  /\ saved' = saved \ {x}
  /\ UNCHANGED <<files, kc, mem, stage, swap, went>>

\* removeSavedAccount of one that is offered: not the one in the window.  That its
\* park could not be deleted is swallowed.
Remove(x) ==
  /\ stage \in {"running", "install"}
  /\ x \in saved \ {mem}
  /\ saved' = saved \ {x}
  /\ Drops(x)
  /\ made' = [made EXCEPT ![x] = {e \in @ : live[e] = x}]
  /\ UNCHANGED <<live, kc, mem, stage, swap>>

(***************************************************************************)
(* A switch.  The swap itself is one command of the backend.               *)
(***************************************************************************)
SwitchToWhileSwitching(x) == \* mutant: switchInFlight is not looked at
  /\ stage \in {"running", "install"}
  /\ x \in saved \ {mem}
  /\ target' = x
  /\ dest' = (IF mem \in saved THEN mem ELSE Bin)
  /\ moved' = <<>> /\ whole' = TRUE
  /\ stage' = "clear"
  /\ UNCHANGED <<files, saved, kc, mem, went>>

\* switchToAccount, up to the swap: an account outside the switcher is discarded.
SwitchTo(x) ==
  /\ stage = "running"
  /\ x \in saved \ {mem}
  /\ target' = x
  /\ dest' = (IF mem \in saved THEN mem ELSE Bin)
  /\ moved' = <<>> /\ whole' = TRUE
  /\ stage' = "clear"
  /\ UNCHANGED <<files, saved, kc, mem, went>>

\* move_out removes an older park of the account; the swap fails if it cannot.
Clears ==
  /\ stage = "clear"
  /\ \/ Deletes(dest) /\ stage' = "out"
     \/ LeavesSome(dest) /\ stage' = "undo"
  /\ UNCHANGED <<live, made, saved, kc, mem, swap>>

\* secrets.enc first, then the config entries in the directory's order.
MoveOut(e) ==
  /\ stage = "out"
  /\ live[e] # None /\ (e = Secrets \/ live[Secrets] = None)
  /\ \/ /\ live' = [live EXCEPT ![e] = None]
        /\ shelf' = [shelf EXCEPT ![dest][e] = live[e]]
        /\ moved' = Append(moved, [e |-> e, in |-> FALSE])
        /\ UNCHANGED <<stage, went>>
     \/ Mishap("move") /\ stage' = "undo" /\ UNCHANGED <<live, shelf, moved>>
  /\ UNCHANGED <<made, saved, kc, mem, target, dest, whole>>

AllOut ==
  /\ stage = "out" /\ live = Empty
  /\ stage' = "in"
  /\ UNCHANGED <<files, saved, kc, mem, swap, went>>

MoveIn(e) ==
  /\ stage = "in"
  /\ shelf[target][e] # None /\ (e = Secrets \/ shelf[target][Secrets] = None)
  /\ \/ /\ live' = [live EXCEPT ![e] = shelf[target][e]]
        /\ shelf' = [shelf EXCEPT ![target][e] = None]
        /\ moved' = Append(moved, [e |-> e, in |-> TRUE])
        /\ UNCHANGED <<stage, went>>
     \/ Mishap("move") /\ stage' = "undo" /\ UNCHANGED <<live, shelf, moved>>
  /\ UNCHANGED <<made, saved, kc, mem, target, dest, whole>>

\* The swap has worked: the emptied park and the bin are removed.  Who leaves a local
\* account this way was told so.
AllIn ==
  /\ stage = "in" /\ shelf[target] = Empty
  /\ Drops(Bin)
  /\ made' = [x \in Accounts |-> IF x \in Cloud THEN made[x]
                                 ELSE {e \in made[x] : shelf[Bin][e] # x}]
  /\ stage' = "install"
  /\ UNCHANGED <<live, saved, kc, mem, swap>>

PutsBack(m) ==
  IF m.in THEN /\ live'  = [live EXCEPT ![m.e] = None]
               /\ shelf' = [shelf EXCEPT ![target][m.e] = live[m.e]]
          ELSE /\ live'  = [live EXCEPT ![m.e] = shelf[dest][m.e]]
               /\ shelf' = [shelf EXCEPT ![dest][m.e] = None]

UndoTakesOneBack == \* mutant: the undo ends after the last move
  /\ stage = "undo" /\ moved # <<>>
  /\ PutsBack(moved[Len(moved)])
  /\ moved' = <<>>
  /\ UNCHANGED <<made, saved, kc, mem, stage, target, dest, whole, went>>

\* Moves::undo takes the moves back from the last; what stays behind is noted.
Undo ==
  /\ stage = "undo" /\ moved # <<>>
  /\ \/ PutsBack(moved[Len(moved)]) /\ UNCHANGED <<whole, went>>
     \/ Mishap("undo") /\ whole' = FALSE /\ UNCHANGED <<live, shelf>>
  /\ moved' = SubSeq(moved, 1, Len(moved) - 1)
  /\ UNCHANGED <<made, saved, kc, mem, stage, target, dest>>

\* The command fails and the session goes on; after a complete undo the
\* outgoing directory goes.
Undone ==
  /\ stage = "undo" /\ moved = <<>>
  /\ IF whole THEN Drops(dest) ELSE UNCHANGED <<shelf, went>>
  /\ stage' = "running"
  /\ UNCHANGED <<live, made, saved, kc, mem, swap>>

InstallKeepsKey == \* mutant: the outgoing account's password is not cleared
  /\ stage = "install"
  /\ \/ kc.id = mem /\ kc' = [kc EXCEPT !.id = target] /\ UNCHANGED stage
     \/ kc.id = target /\ stage' = "off" /\ UNCHANGED kc
  /\ UNCHANGED <<files, saved, mem, swap, went>>

\* installSession: the keychain is cleared, then written from the saved entry, one
\* value after another; however it ends, the window reloads.
Install ==
  /\ stage = "install"
  /\ \/ kc.id = mem /\ kc' = [kc EXCEPT !.id = None] /\ UNCHANGED <<stage, went>>
     \/ kc.id = None /\ kc.key = mem /\ kc' = NoKeys /\ UNCHANGED <<stage, went>>
     \/ kc = NoKeys /\ kc' = [kc EXCEPT !.id = target] /\ UNCHANGED <<stage, went>>
     \/ /\ kc.id = target /\ kc.key = None
        /\ kc' = KeysOf(target) /\ stage' = "off"
        /\ UNCHANGED went
     \/ /\ kc = NoKeys \/ (kc.id = target /\ kc.key = None)
        /\ Mishap("write") /\ stage' = "off" /\ UNCHANGED kc
  /\ UNCHANGED <<files, saved, mem, swap>>

\* The process ends in the middle of a switch; no file remembers that there was one.
Crash ==
  /\ stage \in {"clear", "out", "in", "undo", "install"}
  /\ Mishap("crash")
  /\ stage' = "off"
  /\ UNCHANGED <<files, saved, kc, mem, swap>>

SwapStep ==
  \/ Clears \/ AllOut \/ AllIn \/ Undo \/ Undone
  \/ \E e \in Entries : MoveOut(e) \/ MoveIn(e)

UserStep ==
  \/ Unlock \/ Logout \/ Save
  \/ \E e \in Entries : Work(e)
  \/ \E x \in Accounts :
       SignIn(x) \/ SignInFromLocal(x) \/ Add(x) \/ Remove(x) \/ SwitchTo(x)

Next == SwapStep \/ Install \/ Launch \/ UserStep \/ Crash

Spec == Init /\ [][Next]_vars

(***************************************************************************)
(* Properties                                                              *)
(***************************************************************************)

\* Variables are well formed, the keychain never mixes two accounts, and a window
\* that is at work has a session in memory.
TypeOK ==
  /\ live \in [Entries -> Owners] /\ shelf \in [Shelves -> [Entries -> Owners]]
  /\ made \in [Accounts -> SUBSET Entries] /\ saved \subseteq Cloud
  /\ kc \in [id : Owners, key : Owners] /\ mem \in Owners
  /\ kc.id = None \/ kc.key \in {None, kc.id}
  /\ stage \in {"off", "locked", "running", "clear", "out", "in", "undo", "install"}
  /\ target \in Owners /\ dest \in Shelves
  /\ moved \in Seq([e : Entries, in : BOOLEAN])
  /\ whole \in BOOLEAN /\ went \subseteq Mishaps
  /\ stage \notin {"off", "locked"} => mem # None

\* "its data is parked with those changes": what an account has on this device
\* stays on it, in place or parked, until the user gives it up.
Kept(x, e)    == live[e] = x \/ \E s \in {x, Bin} : shelf[s][e] = x
AllKept       == \A x \in Accounts : \A e \in made[x] : Kept(x, e)

\* Through switches and through switches that failed at any move, nothing is lost.
NothingLost == went \subseteq {"move"} => AllKept

\* "Rejects with the session intact": a session, resumed after a failed switch
\* or opened by a finished one, has all files of its account in place and none of
\* another's.
SessionHasItsFiles ==
  stage = "running" /\ went \subseteq {"move"} =>
    \A e \in Entries : live[e] = (IF e \in made[mem] THEN mem ELSE None)

\* Whatever goes wrong, but for an undo that leaves the target's files in place, no
\* session works on another account's vault.
OwnVaultOnly == stage = "running" /\ "undo" \notin went => OpensVault(mem)

\* Only accounts of the switcher have data parked, each its own: nobody's data stays
\* behind out of the reach of Remove and Logout, as long as directories can be deleted.
ParksAreListed ==
  stage \in {"running", "locked", "off"} /\ went \subseteq {"move", "save", "resign"} =>
    \A s \in Shelves : \A e \in Entries :
      shelf[s][e] # None => s \in saved /\ shelf[s][e] = s

\* "Never an error: its data is parked with those changes and they go up when it is
\* next active": without any mishap of the machine, no data of an account is lost.
ParkedComesBack == went \subseteq {"resign"} => AllKept
=============================================================================
