-------------------------- MODULE AccountSwitchProofs --------------------------
(***************************************************************************)
(* For any accounts and any number of files: while nothing goes wrong but  *)
(* moves of the swap (profile.rs), which are then undone, every account    *)
(* keeps what it has on the device, and a session that goes on or opens    *)
(* has all files of its account in place.  And whatever goes wrong but the *)
(* undo itself, no session works on another account's vault.  What is      *)
(* parked is of an account of the switcher, also when a save is refused or *)
(* an account that is parked is signed in to again.                        *)
(***************************************************************************)
EXTENDS AccountSwitch, TLAPS

Stages   == {"off", "locked", "running", "clear", "out", "in", "undo", "install"}
Swapping == {"clear", "out", "in", "undo"}
MoveType == [e : Entries, in : BOOLEAN]

FilesTyped ==
  /\ live \in [Entries -> Owners] /\ shelf \in [Shelves -> [Entries -> Owners]]
  /\ made \in [Accounts -> SUBSET Entries]
HeadTyped ==
  /\ saved \subseteq Cloud /\ mem \in Owners
  /\ kc \in [id : Owners, key : Owners] /\ (kc.id = None \/ kc.key \in {None, kc.id})
  /\ stage \in Stages /\ (stage \notin {"off", "locked"} => mem # None)
  /\ stage \in Swapping => target \in Accounts
SwapTyped ==
  /\ target \in Owners /\ dest \in Shelves
  /\ moved \in Seq(MoveType)
  /\ whole \in BOOLEAN /\ went \subseteq Mishaps
Typed == FilesTyped /\ HeadTyped /\ SwapTyped

\* The files of an account, as they lie in place, or parked; nobody has any of None.
Made(x) == IF x = None THEN {} ELSE made[x]
FilesOf(x, S) == [e \in Entries |-> IF e \in S THEN x ELSE None]

\* What the moves so far took out and put in.
Outs(s) == {s[i].e : i \in {j \in DOMAIN s : ~s[j].in}}
Ins(s)  == {s[i].e : i \in {j \in DOMAIN s : s[j].in}}

\* No move is made twice, and files are taken out before others are put in.
Ordered(s) ==
  \A i, j \in DOMAIN s : i < j => s[i] # s[j] /\ (s[i].in => s[j].in)

\* Everyone's files are in place or parked, all of them, and nothing else is.
AtRest(cur) ==
  /\ live = FilesOf(cur, Made(cur))
  /\ shelf[Bin] = Empty
  /\ \A x \in Accounts : shelf[x] = IF x = cur THEN Empty ELSE FilesOf(x, made[x])

\* In a swap the moves so far say where every file of the two accounts is.
MidSwap ==
  /\ mem \in Accounts /\ target \in saved \ {mem}
  /\ dest = IF mem \in saved THEN mem ELSE Bin
  /\ Ordered(moved) /\ whole
  /\ Outs(moved) \subseteq made[mem] /\ Ins(moved) \subseteq made[target]
  /\ Ins(moved) # {} => Outs(moved) = made[mem]
  /\ live = [e \in Entries |-> IF e \in Ins(moved) THEN target
                               ELSE IF e \in made[mem] \ Outs(moved) THEN mem ELSE None]
  /\ shelf[target] = FilesOf(target, made[target] \ Ins(moved))
  /\ \A s \in Shelves \ {target} :
       shelf[s] = IF s = dest THEN FilesOf(mem, Outs(moved))
                  ELSE IF s \in {mem, Bin} THEN Empty
                  ELSE FilesOf(s, made[s])

Listed == mem \in Cloud => mem \in saved

Phase ==
  /\ stage = "locked"  => AtRest(None) /\ kc = NoKeys
  /\ stage = "off"     => AtRest(kc.id) /\ kc = KeysOf(kc.id) /\ kc.id # None
  /\ stage = "running" => AtRest(mem) /\ kc = KeysOf(mem) /\ Listed
  /\ stage = "install" => /\ AtRest(target) /\ target \in Cloud \ {mem}
                          /\ kc \in {KeysOf(mem), [id |-> None, key |-> mem], NoKeys,
                                     [id |-> target, key |-> None]}
  /\ stage \in Swapping => MidSwap /\ kc = KeysOf(mem) /\ Listed
  /\ stage \in {"clear", "out"} => Ins(moved) = {}
  /\ stage = "clear" => moved = <<>>
  /\ stage = "in" => Outs(moved) = made[mem]

OnlyMoves == went \subseteq {"move"}
Whereabouts == OnlyMoves => Phase
(***************************************************************************)
(* The moves of a swap                                                     *)
(***************************************************************************)

LEMMA MovesAppended ==
  ASSUME NEW s \in Seq(MoveType), NEW m \in MoveType
  PROVE  /\ Append(s, m) \in Seq(MoveType) /\ Append(s, m) # <<>>
         /\ Outs(Append(s, m)) = Outs(s) \cup (IF m.in THEN {} ELSE {m.e})
         /\ Ins(Append(s, m))  = Ins(s) \cup (IF m.in THEN {m.e} ELSE {})
  <1> DEFINE t == Append(s, m)
  <1>1. /\ t \in Seq(MoveType) /\ DOMAIN s = 1..Len(s) /\ DOMAIN t = 1..(Len(s) + 1)
        /\ Len(s) \in Nat /\ t[Len(s) + 1] = m
        /\ \A i \in DOMAIN s : t[i] = s[i]
    OBVIOUS
  <1>2. DOMAIN t = DOMAIN s \cup {Len(s) + 1} /\ Len(s) + 1 \notin DOMAIN s
    BY <1>1
  <1> HIDE DEF t
  <1>3. Outs(t) = Outs(s) \cup (IF m.in THEN {} ELSE {m.e})
    BY <1>1, <1>2 DEF Outs
  <1>4. Ins(t) = Ins(s) \cup (IF m.in THEN {m.e} ELSE {})
    BY <1>1, <1>2 DEF Ins
  <1>5. t # <<>>
    BY <1>1, <1>2
  <1> QED BY <1>1, <1>3, <1>4, <1>5 DEF t

LEMMA AppendedInOrder ==
  ASSUME NEW s \in Seq(MoveType), NEW m \in MoveType, Ordered(s),
         IF m.in THEN m.e \notin Ins(s) ELSE m.e \notin Outs(s) /\ Ins(s) = {}
  PROVE  Ordered(Append(s, m))
  <1> DEFINE t == Append(s, m)
  <1>1. /\ DOMAIN s = 1..Len(s) /\ DOMAIN t = 1..(Len(s) + 1)
        /\ Len(s) \in Nat /\ t[Len(s) + 1] = m
        /\ \A i \in DOMAIN s : t[i] = s[i]
    OBVIOUS
  <1> HIDE DEF t
  <1>2. ASSUME NEW i \in DOMAIN t, NEW j \in DOMAIN t, i < j
        PROVE  t[i] # t[j] /\ (t[i].in => t[j].in)
    <2>1. CASE j \in DOMAIN s
      BY <1>1, <1>2, <2>1 DEF Ordered
    <2>2. CASE j = Len(s) + 1
      <3>1. i \in DOMAIN s /\ t[i] = s[i] /\ t[j] = m
        BY <1>1, <1>2, <2>2
      <3>2. s[i].in => s[i].e \in Ins(s)
        BY <3>1 DEF Ins
      <3>3. ~s[i].in => s[i].e \in Outs(s)
        BY <3>1 DEF Outs
      <3> QED BY <3>1, <3>2, <3>3
    <2> QED BY <1>1, <2>1, <2>2
  <1> QED BY <1>2 DEF Ordered, t

LEMMA LastMove ==
  ASSUME NEW s \in Seq(MoveType), s # <<>>
  PROVE  LET m == s[Len(s)]  t == SubSeq(s, 1, Len(s) - 1) IN
         /\ m \in MoveType /\ t \in Seq(MoveType)
         /\ Outs(s) = Outs(t) \cup (IF m.in THEN {} ELSE {m.e})
         /\ Ins(s)  = Ins(t) \cup (IF m.in THEN {m.e} ELSE {})
  <1> DEFINE n == Len(s)
             m == s[n]
             t == SubSeq(s, 1, n - 1)
  <1>1. n \in Nat \ {0} /\ DOMAIN s = 1..n /\ m \in MoveType
    OBVIOUS
  <1>2. /\ t \in Seq(MoveType) /\ DOMAIN t = 1..(n - 1)
        /\ \A i \in DOMAIN t : t[i] = s[i]
    BY <1>1
  <1>3. DOMAIN s = DOMAIN t \cup {n}
    BY <1>1, <1>2
  <1> HIDE DEF t, m, n
  <1>4. s[n] = m
    BY DEF m
  <1>5. Outs(s) = Outs(t) \cup (IF m.in THEN {} ELSE {m.e})
    BY <1>2, <1>3, <1>4 DEF Outs
  <1>6. Ins(s) = Ins(t) \cup (IF m.in THEN {m.e} ELSE {})
    BY <1>2, <1>3, <1>4 DEF Ins
  <1> QED BY <1>1, <1>2, <1>5, <1>6 DEF m, n, t

LEMMA MovesTakenBack ==
  ASSUME NEW s \in Seq(MoveType), s # <<>>, Ordered(s)
  PROVE  LET m == s[Len(s)]  t == SubSeq(s, 1, Len(s) - 1) IN
         /\ Ordered(t)
         /\ IF m.in THEN m.e \notin Ins(t) ELSE m.e \notin Outs(t) /\ Ins(t) = {}
  <1> DEFINE n == Len(s)
             m == s[n]
             t == SubSeq(s, 1, n - 1)
  <1>1. n \in Nat \ {0} /\ DOMAIN s = 1..n /\ m \in MoveType
    OBVIOUS
  <1>2. /\ t \in Seq(MoveType) /\ DOMAIN t = 1..(n - 1)
        /\ \A i \in DOMAIN t : t[i] = s[i] /\ i \in DOMAIN s /\ i < n
    BY <1>1
  <1> HIDE DEF t, m, n
  <1>3. n \in DOMAIN s /\ s[n] = m
    BY <1>1 DEF m
  <1>4. Ordered(t)
    BY <1>2 DEF Ordered
  <1>5. \A i \in DOMAIN t : t[i] \in MoveType /\ t[i] # m /\ (t[i].in => m.in)
    BY <1>2, <1>3 DEF Ordered
  <1>6. CASE m.in
    <2>1. \A i \in DOMAIN t : t[i].in => t[i].e # m.e
      BY <1>1, <1>5, <1>6 DEF MoveType
    <2> QED BY <1>4, <1>6, <2>1 DEF Ins, m, n, t
  <1>7. CASE ~m.in
    <2>1. \A i \in DOMAIN t : ~t[i].in /\ t[i].e # m.e
      BY <1>1, <1>5, <1>7 DEF MoveType
    <2>2. m.e \notin Outs(t) /\ Ins(t) = {}
      BY <2>1 DEF Outs, Ins
    <2> QED BY <1>4, <1>7, <2>2 DEF m, n, t
  <1> QED BY <1>6, <1>7

LEMMA NoMoves == Outs(<<>>) = {} /\ Ins(<<>>) = {} /\ Ordered(<<>>)
  BY DEF Outs, Ins, Ordered

(***************************************************************************)
(* Types                                                                   *)
(***************************************************************************)

LEMMA Names ==
  /\ Cloud \subseteq Accounts /\ None \notin Accounts /\ Bin \notin Accounts /\ Bin # None
  /\ Secrets \in Entries /\ Empty \in [Entries -> Owners] /\ None \in Owners
  /\ Bin \in Shelves /\ \A x \in Accounts : x \in Owners /\ x \in Shelves
  BY SwitchAssumption DEF Empty, Owners, Shelves

LEMMA InitTyped == Init => Typed
  BY Names DEF Init, Typed, FilesTyped, HeadTyped, SwapTyped, NoKeys, Stages, Swapping

LEMMA MishapTyped == ASSUME NEW m, went \subseteq Mishaps, Mishap(m) PROVE went' \subseteq Mishaps
  BY DEF Mishap

\* What a directory holds that was deleted, or not altogether.
LEMMA DropsTyped ==
  ASSUME FilesTyped, SwapTyped, NEW s \in Shelves, Drops(s)
  PROVE  shelf' \in [Shelves -> [Entries -> Owners]] /\ went' \subseteq Mishaps
  <1>1. CASE Deletes(s)
    BY <1>1, Names DEF Deletes, FilesTyped, SwapTyped
  <1>2. CASE LeavesSome(s)
    <2>1. PICK left \in SUBSET Entries :
            shelf' = [shelf EXCEPT ![s] = [e \in Entries |-> IF e \in left THEN @[e] ELSE None]]
      BY <1>2 DEF LeavesSome
    <2>2. [e \in Entries |-> IF e \in left THEN shelf[s][e] ELSE None] \in [Entries -> Owners]
      BY Names DEF FilesTyped
    <2>3. shelf' = [shelf EXCEPT ![s] = [e \in Entries |-> IF e \in left THEN shelf[s][e] ELSE None]]
      BY <2>1
    <2>4. shelf' \in [Shelves -> [Entries -> Owners]]
      BY <2>2, <2>3 DEF FilesTyped
    <2> QED BY <1>2, <2>4, MishapTyped DEF LeavesSome, SwapTyped
  <1> QED BY <1>1, <1>2 DEF Drops

\* A directory that could be deleted is empty.
LEMMA DropsAll ==
  ASSUME NEW s, Drops(s), ~Mishap("drop")
  PROVE  shelf' = [shelf EXCEPT ![s] = Empty] /\ UNCHANGED went
  BY DEF Drops, Deletes, LeavesSome

LEMMA JoinsTyped ==
  ASSUME HeadTyped, SwapTyped, NEW x \in Accounts, Joins(x)
  PROVE  saved' \subseteq Cloud /\ went' \subseteq Mishaps
  BY MishapTyped DEF Joins, HeadTyped, SwapTyped

LEMMA SessionTyped ==
  ASSUME Typed,
         \/ Launch \/ Unlock \/ Logout \/ Save \/ Install \/ Crash
         \/ \E e \in Entries : Work(e)
         \/ \E x \in Accounts : SignIn(x) \/ SignInFromLocal(x) \/ Add(x) \/ Remove(x) \/ SwitchTo(x)
  PROVE  Typed'
  <1> USE Names DEF Typed, Swapping
  <1>1. ASSUME FilesTyped', UNCHANGED swap, NEW x \in Accounts, mem' = x, stage' = "running",
               saved' \subseteq Cloud, went' \subseteq Mishaps, kc' = KeysOf(x)
        PROVE  Typed'
    BY <1>1 DEF HeadTyped, SwapTyped, swap, Stages, KeysOf, Owners
  <1>2. ASSUME UNCHANGED files PROVE FilesTyped'
    BY <1>2 DEF files, FilesTyped
  <1>3. CASE Launch
    <2>1. CASE stage' = "locked" /\ mem' = None /\ UNCHANGED <<saved, went>>
      BY <1>2, <1>3, <2>1 DEF Launch, HeadTyped, SwapTyped, swap, Stages
    <2>2. CASE kc.id # None /\ kc.key = kc.id /\ Opens(kc.id) /\ Joins(kc.id)
      <3>1. kc.id \in Accounts /\ kc = KeysOf(kc.id)
        BY <2>2 DEF HeadTyped, Owners, KeysOf
      <3> QED BY <1>1, <1>2, <1>3, <2>2, <3>1, JoinsTyped DEF Launch, Opens
    <2> QED BY <1>3, <2>1, <2>2 DEF Launch
  <1>4. CASE Unlock
    <2>1. kc.id \in Accounts
      BY <1>4 DEF Unlock, HeadTyped, Owners
    <2> QED BY <1>1, <1>2, <1>4, <2>1, JoinsTyped DEF Unlock, Opens
  <1>5. CASE Logout
    <2>1. mem \in Shelves /\ Drops(mem)
      BY <1>5 DEF Logout, HeadTyped, Owners
    <2>2. shelf' \in [Shelves -> [Entries -> Owners]] /\ went' \subseteq Mishaps
      BY <2>1, DropsTyped
    <2>3. FilesTyped'
      BY <1>5, <2>2 DEF Logout, FilesTyped
    <2> QED BY <1>5, <2>2, <2>3 DEF Logout, HeadTyped, SwapTyped, swap, Stages, NoKeys
  <1>6. CASE Save
    BY <1>2, <1>6 DEF Save, HeadTyped, SwapTyped, swap
  <1>7. CASE Install
    <2>1. UNCHANGED <<files, saved, mem, swap>> /\ went' \subseteq Mishaps
      BY <1>7, MishapTyped DEF Install, SwapTyped
    <2>2. /\ kc' \in [id : Owners, key : Owners] /\ (kc'.id = None \/ kc'.key \in {None, kc'.id})
          /\ stage' \in {"install", "off"}
      BY <1>7 DEF Install, HeadTyped, SwapTyped, NoKeys, KeysOf
    <2> QED BY <1>2, <1>7, <2>1, <2>2 DEF HeadTyped, SwapTyped, swap, Install, Stages
  <1>8. CASE Crash
    BY <1>2, <1>8, MishapTyped DEF Crash, HeadTyped, SwapTyped, swap, Stages
  <1>9. ASSUME NEW e \in Entries, Work(e) PROVE Typed'
    <2>1. mem \in Accounts
      BY <1>9 DEF Work, HeadTyped, Owners
    <2>2. FilesTyped'
      BY <1>9, <2>1 DEF Work, FilesTyped, Owners
    <2> QED BY <1>9, <2>2 DEF Work, HeadTyped, SwapTyped, swap
  <1>10. ASSUME NEW x \in Accounts, SignIn(x) PROVE Typed'
    <2>1. saved' \subseteq Cloud /\ went' \subseteq Mishaps
      BY <1>10, JoinsTyped, MishapTyped DEF SignIn, Enters, HeadTyped, SwapTyped
    <2> QED BY <1>1, <1>2, <1>10, <2>1 DEF SignIn, Enters, Opens
  <1>11. ASSUME NEW x \in Accounts, SignInFromLocal(x) PROVE Typed'
    <2>1. saved' \subseteq Cloud /\ went' \subseteq Mishaps
      BY <1>11, JoinsTyped, MishapTyped DEF SignInFromLocal, Enters, HeadTyped, SwapTyped
    <2>2. FilesTyped'
      BY <1>11 DEF SignInFromLocal, FilesTyped
    <2> QED BY <1>1, <1>11, <2>1, <2>2 DEF SignInFromLocal, Enters, Opens
  <1>12. ASSUME NEW x \in Accounts, Add(x) PROVE Typed'
    BY <1>2, <1>12 DEF Add, HeadTyped, SwapTyped, swap
  <1>13. ASSUME NEW x \in Accounts, Remove(x) PROVE Typed'
    <2>1. shelf' \in [Shelves -> [Entries -> Owners]] /\ went' \subseteq Mishaps
      BY <1>13, DropsTyped DEF Remove
    <2>2. FilesTyped'
      BY <1>13, <2>1 DEF Remove, FilesTyped
    <2> QED BY <1>13, <2>1, <2>2 DEF Remove, HeadTyped, SwapTyped, swap
  <1>14. ASSUME NEW x \in Accounts, SwitchTo(x) PROVE Typed'
    <2>1. mem \in Accounts /\ dest' \in Shelves /\ target' \in Owners
      BY <1>14 DEF SwitchTo, HeadTyped, Owners
    <2> QED BY <1>2, <1>14, <2>1 DEF SwitchTo, HeadTyped, SwapTyped, Stages
  <1> QED BY <1>3, <1>4, <1>5, <1>6, <1>7, <1>8, <1>9, <1>10, <1>11, <1>12, <1>13, <1>14

LEMMA SwapStepTyped == ASSUME Typed, SwapStep PROVE Typed'
  <1> USE Names DEF Typed, Swapping
  <1>1. UNCHANGED <<saved, kc, mem, target, dest>>
    BY DEF SwapStep, Clears, MoveOut, MoveIn, AllOut, AllIn, Undo, Undone, swap
  <1>2. stage # "off" /\ stage # "locked"
    BY DEF SwapStep, Clears, MoveOut, MoveIn, AllOut, AllIn, Undo, Undone
  <1>13. target \in Accounts
    BY DEF HeadTyped, SwapStep, Clears, MoveOut, MoveIn, AllOut, AllIn, Undo, Undone
  <1>3. ASSUME FilesTyped', stage' \in Stages, moved' \in Seq(MoveType), whole' \in BOOLEAN,
               went' \subseteq Mishaps
        PROVE  Typed'
    BY <1>1, <1>2, <1>3, <1>13 DEF HeadTyped, SwapTyped
  <1>4. \A e \in Entries, s \in Shelves : live[e] \in Owners /\ shelf[s][e] \in Owners
    BY DEF FilesTyped
  <1>5. target \in Shelves /\ dest \in Shelves
    BY <1>13 DEF SwapTyped
  <1>6. CASE Clears
    <2>1. Drops(dest)
      BY <1>6 DEF Clears, Drops
    <2>2. shelf' \in [Shelves -> [Entries -> Owners]] /\ went' \subseteq Mishaps
      BY <1>5, <2>1, DropsTyped
    <2> QED BY <1>3, <1>6, <2>2 DEF Clears, FilesTyped, SwapTyped, swap, Stages
  <1>7. CASE AllOut
    BY <1>3, <1>7 DEF AllOut, FilesTyped, SwapTyped, swap, files, Stages
  <1>8. CASE AllIn
    <2>1. made' \in [Accounts -> SUBSET Entries]
      BY <1>8 DEF AllIn, FilesTyped
    <2>2. shelf' \in [Shelves -> [Entries -> Owners]] /\ went' \subseteq Mishaps
      BY <1>8, DropsTyped DEF AllIn
    <2> QED BY <1>3, <1>8, <2>1, <2>2 DEF AllIn, FilesTyped, SwapTyped, swap, Stages
  <1>9. ASSUME NEW e \in Entries, MoveOut(e) PROVE Typed'
    <2>1. CASE stage' = "undo" /\ Mishap("move") /\ UNCHANGED <<live, shelf, moved>>
      BY <1>3, <1>9, <2>1, MishapTyped DEF MoveOut, FilesTyped, SwapTyped, Stages
    <2>2. CASE /\ live' = [live EXCEPT ![e] = None]
               /\ shelf' = [shelf EXCEPT ![dest][e] = live[e]]
               /\ moved' = Append(moved, [e |-> e, in |-> FALSE])
               /\ UNCHANGED <<stage, went>>
      <3>1. FilesTyped'
        BY <1>4, <1>5, <1>9, <2>2 DEF FilesTyped, MoveOut
      <3>2. [e |-> e, in |-> FALSE] \in MoveType
        BY DEF MoveType
      <3> QED BY <1>3, <1>9, <2>2, <3>1, <3>2, MovesAppended DEF MoveOut, SwapTyped, HeadTyped
    <2> QED BY <1>9, <2>1, <2>2 DEF MoveOut
  <1>10. ASSUME NEW e \in Entries, MoveIn(e) PROVE Typed'
    <2>1. CASE stage' = "undo" /\ Mishap("move") /\ UNCHANGED <<live, shelf, moved>>
      BY <1>3, <1>10, <2>1, MishapTyped DEF MoveIn, FilesTyped, SwapTyped, Stages
    <2>2. CASE /\ live' = [live EXCEPT ![e] = shelf[target][e]]
               /\ shelf' = [shelf EXCEPT ![target][e] = None]
               /\ moved' = Append(moved, [e |-> e, in |-> TRUE])
               /\ UNCHANGED <<stage, went>>
      <3>1. FilesTyped'
        BY <1>4, <1>5, <1>10, <2>2 DEF FilesTyped, MoveIn
      <3>2. [e |-> e, in |-> TRUE] \in MoveType
        BY DEF MoveType
      <3> QED BY <1>3, <1>10, <2>2, <3>1, <3>2, MovesAppended DEF MoveIn, SwapTyped, HeadTyped
    <2> QED BY <1>10, <2>1, <2>2 DEF MoveIn
  <1>11. CASE Undo
    <2> DEFINE m == moved[Len(moved)]
    <2>1. moved # <<>> /\ moved \in Seq(MoveType)
      BY <1>11 DEF Undo, SwapTyped
    <2>2. m \in MoveType
      BY <2>1
    <2>3. moved' \in Seq(MoveType)
      BY <1>11, <2>1 DEF Undo
    <2> HIDE DEF m
    <2>4. CASE PutsBack(m) /\ UNCHANGED <<whole, went>>
      <3>1. m.e \in Entries
        BY <2>2 DEF MoveType
      <3>2. live[m.e] \in Owners /\ shelf[dest][m.e] \in Owners /\ UNCHANGED made
        BY <1>4, <1>5, <1>11, <3>1 DEF Undo
      <3>3. FilesTyped'
        <4>1. CASE m.in
          <5>1. /\ live' = [live EXCEPT ![m.e] = None]
                /\ shelf' = [shelf EXCEPT ![target][m.e] = live[m.e]]
            BY <2>4, <4>1 DEF PutsBack
          <5> QED BY <1>5, <3>1, <3>2, <5>1 DEF FilesTyped
        <4>2. CASE ~m.in
          <5>1. /\ live' = [live EXCEPT ![m.e] = shelf[dest][m.e]]
                /\ shelf' = [shelf EXCEPT ![dest][m.e] = None]
            BY <2>4, <4>2 DEF PutsBack
          <5> QED BY <1>5, <3>1, <3>2, <5>1 DEF FilesTyped
        <4> QED BY <4>1, <4>2
      <3> QED BY <1>3, <1>11, <2>3, <2>4, <3>3 DEF Undo, SwapTyped, HeadTyped
    <2>5. CASE Mishap("undo") /\ whole' = FALSE /\ UNCHANGED <<live, shelf>>
      BY <1>3, <1>11, <2>3, <2>5, MishapTyped DEF Undo, SwapTyped, HeadTyped, FilesTyped
    <2> QED BY <1>11, <2>4, <2>5 DEF Undo, m
  <1>12. CASE Undone
    <2>1. Drops(dest) \/ UNCHANGED <<shelf, went>>
      BY <1>12 DEF Undone
    <2>2. shelf' \in [Shelves -> [Entries -> Owners]] /\ went' \subseteq Mishaps
      BY <1>5, <2>1, DropsTyped DEF FilesTyped, SwapTyped
    <2> QED BY <1>3, <1>12, <2>2 DEF Undone, FilesTyped, SwapTyped, swap, Stages
  <1> QED BY <1>6, <1>7, <1>8, <1>9, <1>10, <1>11, <1>12 DEF SwapStep

LEMMA StepTyped == Typed /\ [Next]_vars => Typed'
  <1> SUFFICES ASSUME Typed, [Next]_vars PROVE Typed'
    OBVIOUS
  <1>1. CASE UNCHANGED vars
    BY <1>1 DEF vars, files, swap, Typed, FilesTyped, HeadTyped, SwapTyped
  <1>2. CASE Next
    BY <1>2, SwapStepTyped, SessionTyped DEF Next, UserStep
  <1> QED BY <1>1, <1>2

\* The variables keep to their types, the keychain never mixes two accounts, and a
\* window at work has an account in memory (installSession, savedAccounts.ts).
THEOREM TypeCorrect == Spec => []TypeOK
  <1>1. Typed => TypeOK
    BY DEF Typed, FilesTyped, HeadTyped, SwapTyped, MoveType, Stages, TypeOK
  <1> QED BY <1>1, InitTyped, StepTyped, PTL DEF Spec

(***************************************************************************)
(* Where the files are                                                     *)
(***************************************************************************)

LEMMA FilesAt ==
  ASSUME NEW x, NEW S
  PROVE  /\ \A e \in Entries : FilesOf(x, S)[e] = IF e \in S THEN x ELSE None
         /\ FilesOf(x, {}) = Empty
         /\ x # None /\ S \subseteq Entries /\ FilesOf(x, S) = Empty => S = {}
  <1>1. \A e \in Entries : FilesOf(x, S)[e] = IF e \in S THEN x ELSE None
    BY DEF FilesOf
  <1>2. \A e \in Entries : Empty[e] = None
    BY DEF Empty
  <1>3. FilesOf(x, {}) = Empty
    BY DEF FilesOf, Empty
  <1> QED BY <1>1, <1>2, <1>3

LEMMA WentGrows == [Next]_vars => went \subseteq went'
  BY DEF Next, SwapStep, UserStep, Deletes, LeavesSome, Drops, Clears, MoveOut, AllOut, MoveIn, AllIn, Undo, Undone,
         Install, Launch, Unlock, Logout, Save, Work, SignIn, SignInFromLocal, Add, Remove,
         SwitchTo, Crash, Joins, Enters, Mishap, vars

\* A step of a run in which only moves fail.
LEMMA NoMishap ==
  ASSUME OnlyMoves', NEW m \in {"undo", "save", "write", "crash", "resign", "drop"}
  PROVE  ~Mishap(m)
  BY DEF OnlyMoves, Mishap

LEMMA WhereInit == Init => Phase
  <1> SUFFICES ASSUME Init PROVE AtRest(None)
    BY Names DEF Init, Phase, Swapping, NoKeys
  <1>1. \A x \in Accounts : FilesOf(x, made[x]) = Empty /\ shelf[x] = Empty
    BY FilesAt, Names DEF Init
  <1> QED BY <1>1, FilesAt, Names DEF Init, AtRest, Made

\* An account with nothing parked, and nothing in place of anybody's.
LEMMA FreshAccount ==
  ASSUME Typed, NEW c \in Owners, AtRest(c), NEW x \in Accounts \ {c}, shelf[x] = Empty,
         live' = Empty, UNCHANGED shelf,
         made' = [y \in Accounts |-> IF y = c THEN {} ELSE made[y]]
  PROVE  AtRest(x)'
  <1>1. made[x] = {} /\ made' \in [Accounts -> SUBSET Entries]
    <2>1. made[x] \subseteq Entries
      BY DEF Typed, FilesTyped
    <2>2. shelf[x] = FilesOf(x, made[x]) /\ x # None
      BY Names DEF AtRest
    <2> QED BY <2>1, <2>2, FilesAt DEF Typed, FilesTyped
  <1>2. live' = FilesOf(x, Made(x))'
    BY <1>1, FilesAt, Names DEF Made, FilesOf
  <1>3. ASSUME NEW y \in Accounts
        PROVE  shelf'[y] = IF y = x THEN Empty ELSE FilesOf(y, made'[y])
    <2>1. CASE y = c
      BY <1>3, <2>1, FilesAt DEF AtRest
    <2>2. CASE y # c
      BY <1>3, <2>2 DEF AtRest
    <2> QED BY <2>1, <2>2
  <1> QED BY <1>2, <1>3 DEF AtRest, FilesOf

LEMMA WhereSession ==
  ASSUME Typed, Phase, OnlyMoves',
         \/ Launch \/ Unlock \/ Save \/ Install \/ Crash
         \/ \E x \in Accounts : SignIn(x) \/ SignInFromLocal(x) \/ Add(x)
  PROVE  Phase'
  <1> USE Names DEF Typed, Swapping
  <1>1. ASSUME stage' = "running", mem' \in Accounts, AtRest(mem)', kc' = KeysOf(mem'),
               mem' \in Cloud => mem' \in saved'
        PROVE  Phase'
    BY <1>1 DEF Phase, Listed, KeysOf
  <1>2. ASSUME NEW x \in Accounts, Joins(x) PROVE x \in Cloud => x \in saved'
    BY <1>2, NoMishap DEF Joins
  <1>3. CASE Launch
    <2>1. kc.id \in Accounts /\ AtRest(kc.id) /\ kc = KeysOf(kc.id) /\ kc.key = kc.id
      BY <1>3 DEF Launch, Phase, HeadTyped, Owners, KeysOf
    <2>2. OpensVault(kc.key)
      BY <2>1, FilesAt DEF AtRest, OpensVault
    <2>3. Opens(kc.id) /\ Joins(kc.id) /\ UNCHANGED <<files, kc>>
      BY <1>3, <2>1, <2>2 DEF Launch
    <2>4. mem' = kc.id /\ stage' = "running"
      BY <2>3 DEF Opens
    <2>5. AtRest(mem)'
      BY <2>1, <2>3, <2>4 DEF AtRest, Made, files
    <2> QED BY <1>1, <1>2, <2>1, <2>3, <2>4, <2>5
  <1>4. CASE Unlock
    BY <1>4 DEF Unlock, Phase, NoKeys
  <1>5. CASE Save
    <2>1. AtRest(mem)'
      BY <1>5 DEF Save, Phase, AtRest, Made, files
    <2> QED BY <1>5, <2>1 DEF Save, Phase, Listed, KeysOf
  <1>6. CASE Install
    <2>1. /\ AtRest(target) /\ target \in Cloud \ {mem} /\ mem # None
          /\ kc \in {KeysOf(mem), [id |-> None, key |-> mem], NoKeys, [id |-> target, key |-> None]}
      BY <1>6 DEF Install, Phase, HeadTyped
    <2>2. UNCHANGED <<files, saved, mem, swap>>
      BY <1>6 DEF Install
    <2>3. CASE stage' = "install"
      <3>1. kc' \in {[id |-> None, key |-> mem], NoKeys, [id |-> target, key |-> None]}
        BY <1>6, <2>1, <2>3, NoMishap DEF Install, KeysOf, NoKeys
      <3>2. AtRest(target)'
        BY <2>1, <2>2 DEF AtRest, Made, files, swap
      <3> QED BY <2>1, <2>2, <2>3, <3>1, <3>2 DEF Phase, swap
    <2>4. CASE stage' # "install"
      <3>1. stage' = "off" /\ kc' = KeysOf(target)
        BY <1>6, <2>1, <2>4, NoMishap DEF Install
      <3>2. kc'.id = target
        BY <3>1 DEF KeysOf
      <3>3. AtRest(kc.id)'
        BY <2>1, <2>2, <3>2 DEF AtRest, Made, files
      <3> QED BY <2>1, <3>1, <3>2, <3>3 DEF Phase
    <2> QED BY <2>3, <2>4
  <1>7. CASE Crash
    BY <1>7, NoMishap DEF Crash
  <1>8. ASSUME NEW x \in Accounts, SignIn(x) PROVE Phase'
    <2>1. AtRest(None) /\ shelf[x] = Empty /\ Joins(x) /\ mem' = x
      BY <1>8, NoMishap DEF SignIn, Enters, Opens, Phase
    <2>2. live' = Empty /\ UNCHANGED <<shelf, made>>
      BY <1>8, <2>1, FilesAt DEF SignIn, files, AtRest, Made
    <2>3. made' = [y \in Accounts |-> IF y = None THEN {} ELSE made[y]]
      BY <2>2 DEF FilesTyped
    <2>4. AtRest(x)'
      BY <2>1, <2>2, <2>3, FreshAccount
    <2>5. AtRest(mem)'
      BY <2>1, <2>4 DEF AtRest, Made
    <2> QED BY <1>1, <1>2, <1>8, <2>1, <2>5 DEF SignIn, Enters, Opens
  <1>9. ASSUME NEW x \in Accounts, SignInFromLocal(x) PROVE Phase'
    <2>1. AtRest(mem) /\ shelf[x] = Empty /\ Joins(x) /\ mem' = x /\ x # mem /\ mem \in Accounts
      BY <1>9, NoMishap DEF SignInFromLocal, Enters, Opens, Phase, HeadTyped, Owners
    <2>2. /\ live' = Empty /\ UNCHANGED shelf
          /\ made' = [y \in Accounts |-> IF y = mem THEN {} ELSE made[y]]
      BY <1>9, <2>1 DEF SignInFromLocal, FilesTyped
    <2>3. AtRest(x)'
      BY <2>1, <2>2, FreshAccount
    <2>4. AtRest(mem)'
      BY <2>1, <2>3 DEF AtRest, Made
    <2> QED BY <1>1, <1>2, <1>9, <2>1, <2>4 DEF SignInFromLocal, Enters, Opens
  <1>10. ASSUME NEW x \in Accounts, Add(x) PROVE Phase'
    <2>1. AtRest(mem)'
      BY <1>10 DEF Add, Phase, AtRest, Made, files
    <2> QED BY <1>10, <2>1 DEF Add, Phase, Listed, KeysOf
  <1> QED BY <1>3, <1>4, <1>5, <1>6, <1>7, <1>8, <1>9, <1>10

LEMMA WhereLogout == ASSUME Typed, Phase, OnlyMoves', Logout PROVE Phase'
  <1> USE Names DEF Typed
  <1>1. AtRest(mem) /\ mem \in Accounts
    BY DEF Logout, Phase, HeadTyped, Owners
  <1>2. /\ live' = Empty /\ shelf' = [shelf EXCEPT ![mem] = Empty]
        /\ made' = [made EXCEPT ![mem] = {}]
        /\ stage' = "locked" /\ kc' = NoKeys
    BY NoMishap, DropsAll DEF Logout
  <1>3. live' = FilesOf(None, Made(None))' /\ shelf'[Bin] = Empty
    BY <1>1, <1>2, FilesAt DEF Made, FilesOf, AtRest, FilesTyped
  <1>4. ASSUME NEW x \in Accounts PROVE shelf'[x] = FilesOf(x, made'[x])
    <2>1. CASE x = mem
      BY <1>1, <1>2, <2>1, FilesAt DEF FilesTyped
    <2>2. CASE x # mem
      BY <1>1, <1>2, <1>4, <2>2 DEF FilesTyped, AtRest
    <2> QED BY <2>1, <2>2
  <1>5. AtRest(None)'
    BY <1>3, <1>4 DEF AtRest, FilesOf
  <1> QED BY <1>2, <1>5 DEF Phase, Swapping

LEMMA WhereWork == ASSUME Typed, Phase, NEW e \in Entries, Work(e) PROVE Phase'
  <1> USE Names DEF Typed
  <1>1. AtRest(mem) /\ mem \in Accounts /\ UNCHANGED <<shelf, saved, kc, mem, stage, swap, went>>
    BY DEF Work, Phase, HeadTyped, Owners
  <1>2. /\ live' = [live EXCEPT ![e] = mem] /\ stage = "running"
        /\ made' = [made EXCEPT ![mem] = @ \union {e}]
    BY DEF Work
  <1>3. made'[mem] = made[mem] \cup {e} /\ \A x \in Accounts \ {mem} : made'[x] = made[x]
    BY <1>1, <1>2 DEF FilesTyped
  <1>4. live' = FilesOf(mem, made'[mem])
    <2>1. live = FilesOf(mem, made[mem])
      BY <1>1 DEF AtRest, Made
    <2> QED BY <1>2, <1>3, <2>1 DEF FilesOf
  <1>5. AtRest(mem)'
    BY <1>1, <1>3, <1>4 DEF AtRest, Made, FilesOf
  <1> QED BY <1>1, <1>2, <1>5 DEF Phase, Listed, KeysOf, Swapping

\* Who is removed from the switcher is parked, or has come into place meanwhile.
LEMMA WhereRemove == ASSUME Typed, Phase, OnlyMoves', NEW x \in Accounts, Remove(x) PROVE Phase'
  <1> USE Names DEF Typed
  <1> DEFINE c == IF stage = "install" THEN target ELSE mem
  <1>1. AtRest(c) /\ c \in Accounts
    BY DEF Remove, Phase, HeadTyped, Owners
  <1>2. /\ x # mem /\ UNCHANGED <<live, kc, mem, stage, swap, went>>
        /\ shelf' = [shelf EXCEPT ![x] = Empty] /\ saved' = saved \ {x}
        /\ made' = [made EXCEPT ![x] = {e \in @ : live[e] = x}]
    BY NoMishap, DropsAll DEF Remove
  <1> HIDE DEF c
  <1>3. \A y \in Accounts \ {x} : made'[y] = made[y] /\ shelf'[y] = shelf[y]
    BY <1>2 DEF FilesTyped
  <1>4. made'[x] = IF x = c THEN made[x] ELSE {}
    <2>1. live = FilesOf(c, made[c]) /\ made[x] \subseteq Entries
      BY <1>1 DEF AtRest, Made, FilesTyped
    <2>2. made'[x] = {e \in made[x] : live[e] = x}
      BY <1>2 DEF FilesTyped
    <2>3. \A e \in made[x] : live[e] = IF e \in made[c] THEN c ELSE None
      BY <2>1, FilesAt
    <2>4. CASE x = c
      BY <2>2, <2>3, <2>4
    <2>5. CASE x # c
      BY <2>2, <2>3, <2>5
    <2> QED BY <2>4, <2>5
  <1>5. shelf'[x] = Empty /\ shelf'[Bin] = Empty
    BY <1>1, <1>2 DEF FilesTyped, AtRest
  <1>6. live' = FilesOf(c, made'[c])
    BY <1>1, <1>2, <1>3, <1>4 DEF AtRest, Made
  <1>7. \A y \in Accounts : shelf'[y] = IF y = c THEN Empty ELSE FilesOf(y, made'[y])
    BY <1>1, <1>3, <1>4, <1>5, FilesAt DEF AtRest
  <1>8. CASE stage = "install"
    <2>1. c = target /\ UNCHANGED target
      BY <1>2, <1>8 DEF c, swap
    <2>2. AtRest(target)'
      BY <1>1, <1>5, <1>6, <1>7, <2>1 DEF AtRest, Made, FilesOf
    <2> QED BY <1>2, <1>8, <2>1, <2>2 DEF Phase, Swapping, KeysOf, NoKeys, swap
  <1>9. CASE stage # "install"
    <2>1. c = mem /\ stage = "running"
      BY <1>9 DEF c, Remove
    <2>2. AtRest(mem)'
      BY <1>1, <1>2, <1>5, <1>6, <1>7, <2>1 DEF AtRest, Made, FilesOf
    <2> QED BY <1>2, <2>1, <2>2 DEF Phase, Swapping, KeysOf, Listed
  <1> QED BY <1>8, <1>9

LEMMA WhereSwitch == ASSUME Typed, Phase, NEW x \in Accounts, SwitchTo(x) PROVE Phase'
  <1> USE Names DEF Typed
  <1>1. AtRest(mem) /\ mem \in Accounts /\ UNCHANGED <<live, shelf, made, saved, kc, mem, went>>
    BY DEF SwitchTo, Phase, HeadTyped, Owners, files
  <1>2. /\ target' = x /\ moved' = <<>> /\ whole' = TRUE /\ stage' = "clear"
        /\ dest' = (IF mem \in saved THEN mem ELSE Bin) /\ x \in saved \ {mem} /\ stage = "running"
    BY DEF SwitchTo
  <1>3. Outs(moved') = {} /\ Ins(moved') = {} /\ Ordered(moved')
    BY <1>2, NoMoves
  <1>4. live' = [e \in Entries |-> IF e \in Ins(moved') THEN target'
                                   ELSE IF e \in made'[mem'] \ Outs(moved') THEN mem' ELSE None]
    BY <1>1, <1>3 DEF AtRest, Made, FilesOf
  <1>5. shelf'[target'] = FilesOf(target', made'[target'] \ Ins(moved'))
    BY <1>1, <1>2, <1>3 DEF AtRest, FilesOf
  <1>6. ASSUME NEW s \in Shelves \ {target'}
        PROVE  shelf'[s] = IF s = dest' THEN FilesOf(mem', Outs(moved'))
                           ELSE IF s \in {mem', Bin} THEN Empty ELSE FilesOf(s, made'[s])
    BY <1>1, <1>2, <1>3, <1>6, FilesAt DEF AtRest, Shelves
  <1>7. MidSwap'
    BY <1>1, <1>2, <1>3, <1>4, <1>5, <1>6 DEF MidSwap, Outs, Ins, Ordered, FilesOf
  <1> QED BY <1>1, <1>2, <1>3, <1>7 DEF Phase, Listed, KeysOf, Swapping, Outs, Ins

(***************************************************************************)
(* The swap                                                                *)
(***************************************************************************)

\* MidSwap, read where a file is: what a step of the swap needs of it.
LEMMA SwapFacts ==
  ASSUME Typed, Phase, stage \in Swapping
  PROVE  /\ mem \in Accounts /\ target \in Accounts \ {mem} /\ target \in Cloud
         /\ target # None /\ mem # None /\ target # Bin /\ mem # Bin /\ target # dest
         /\ dest \in Shelves /\ dest \in {mem, Bin} /\ moved \in Seq(MoveType)
         /\ Outs(moved) \subseteq Entries /\ Ins(moved) \subseteq Entries
         /\ \A e \in Entries : live[e] = IF e \in Ins(moved) THEN target
                                ELSE IF e \in made[mem] \ Outs(moved) THEN mem ELSE None
         /\ \A e \in Entries : shelf[target][e] = IF e \in made[target] \ Ins(moved)
                                                  THEN target ELSE None
         /\ \A e \in Entries : shelf[dest][e] = IF e \in Outs(moved) THEN mem ELSE None
  <1> USE Names DEF Typed
  <1>1. MidSwap /\ mem \in Accounts /\ target \in Accounts \ {mem} /\ target \in Cloud
    BY DEF Phase, MidSwap, HeadTyped
  <1>2. /\ dest \in Shelves /\ dest \in {mem, Bin} /\ target # dest
        /\ moved \in Seq(MoveType)
    BY <1>1 DEF MidSwap, SwapTyped
  <1>3. shelf[dest] = FilesOf(mem, Outs(moved))
    BY <1>1, <1>2 DEF MidSwap
  <1>4. Outs(moved) \subseteq Entries /\ Ins(moved) \subseteq Entries
    BY <1>1 DEF MidSwap, FilesTyped
  <1> QED BY <1>1, <1>2, <1>3, <1>4, FilesAt DEF MidSwap

\* A step of the swap that changes what has been moved, and the files with it.
LEMMA SwapMoves ==
  ASSUME Typed, Phase, stage \in Swapping, NEW s \in Seq(MoveType), moved' = s, Ordered(s),
         UNCHANGED <<made, saved, kc, mem, target, dest, whole>>,
         Outs(s) \subseteq made[mem], Ins(s) \subseteq made[target],
         Ins(s) # {} => Outs(s) = made[mem],
         FilesTyped',
         \A e \in Entries : live'[e] = IF e \in Ins(s) THEN target
                                       ELSE IF e \in made[mem] \ Outs(s) THEN mem ELSE None,
         \A e \in Entries : shelf'[target][e] = IF e \in made[target] \ Ins(s) THEN target ELSE None,
         \A e \in Entries : shelf'[dest][e] = IF e \in Outs(s) THEN mem ELSE None,
         \A y \in Shelves \ {target, dest} : shelf'[y] = shelf[y]
  PROVE  MidSwap' /\ kc' = KeysOf(mem') /\ Listed'
  <1>1. MidSwap /\ kc = KeysOf(mem) /\ Listed
    BY DEF Phase
  <1>2. target \in Shelves /\ dest \in Shelves
    BY SwapFacts, Names
  <1>3. live' = [e \in Entries |-> IF e \in Ins(s) THEN target
                                   ELSE IF e \in made[mem] \ Outs(s) THEN mem ELSE None]
    BY DEF FilesTyped
  <1>4. shelf'[target] = FilesOf(target, made[target] \ Ins(s))
    BY <1>2 DEF FilesTyped, FilesOf
  <1>5. shelf'[dest] = FilesOf(mem, Outs(s))
    BY <1>2 DEF FilesTyped, FilesOf
  <1>6. ASSUME NEW y \in Shelves \ {target}
        PROVE  shelf'[y] = IF y = dest THEN FilesOf(mem, Outs(s))
                           ELSE IF y \in {mem, Bin} THEN Empty ELSE FilesOf(y, made[y])
    BY <1>1, <1>5, <1>6 DEF MidSwap
  <1>7. MidSwap'
    BY <1>1, <1>3, <1>4, <1>6 DEF MidSwap, Outs, Ins, Ordered, FilesOf
  <1> QED BY <1>1, <1>7 DEF KeysOf, Listed

\* Nothing is moved: what has been moved says the same of the same files.
LEMMA SwapWaits ==
  ASSUME MidSwap, UNCHANGED <<live, shelf, made, saved, mem, target, dest, moved, whole>>
  PROVE  MidSwap'
  BY DEF MidSwap, Outs, Ins, Ordered, FilesOf

LEMMA WhereOut ==
  ASSUME Typed, Typed', Phase, NEW e \in Entries, MoveOut(e)
  PROVE  Phase'
  <1> USE DEF Typed
  <1>1. stage = "out" /\ Ins(moved) = {} /\ MidSwap /\ kc = KeysOf(mem) /\ Listed
    BY DEF MoveOut, Phase, Swapping
  <1>2. UNCHANGED <<made, saved, kc, mem, target, dest, whole>>
    BY DEF MoveOut
  <1>3. CASE stage' = "undo" /\ UNCHANGED <<live, shelf, moved>>
    BY <1>1, <1>2, <1>3, SwapWaits DEF Phase, Swapping, KeysOf, Listed
  <1>4. CASE /\ live' = [live EXCEPT ![e] = None]
             /\ shelf' = [shelf EXCEPT ![dest][e] = live[e]]
             /\ moved' = Append(moved, [e |-> e, in |-> FALSE])
             /\ UNCHANGED stage
    <2> DEFINE m == [e |-> e, in |-> FALSE]
               s == Append(moved, m)
    <2>1. m \in MoveType /\ m.e = e /\ ~m.in /\ stage \in Swapping
      BY <1>1 DEF MoveType, Swapping
    <2>2. e \in made[mem] \ Outs(moved) /\ live[e] = mem
      BY <1>1, <2>1, SwapFacts DEF MoveOut
    <2> HIDE DEF m
    <2>3. s \in Seq(MoveType) /\ Outs(s) = Outs(moved) \cup {e} /\ Ins(s) = {}
      BY <1>1, <2>1, SwapFacts, MovesAppended
    <2>4. Ordered(s)
      BY <1>1, <2>1, <2>2, SwapFacts, AppendedInOrder DEF MidSwap
    <2>5. moved' = s
      BY <1>4 DEF m
    <2> HIDE DEF s
    <2>6. Outs(s) \subseteq made[mem]
      BY <1>1, <2>2, <2>3 DEF MidSwap
    <2>7. \A f \in Entries : live'[f] = IF f \in Ins(s) THEN target
                                        ELSE IF f \in made[mem] \ Outs(s) THEN mem ELSE None
      BY <1>1, <1>4, <2>1, <2>2, <2>3, SwapFacts DEF FilesTyped
    <2>8. /\ \A f \in Entries : shelf'[dest][f] = IF f \in Outs(s) THEN mem ELSE None
          /\ \A y \in Shelves \ {dest} : shelf'[y] = shelf[y]
      BY <1>4, <2>1, <2>2, <2>3, SwapFacts DEF FilesTyped
    <2>9. \A f \in Entries : shelf'[target][f] = IF f \in made[target] \ Ins(s) THEN target ELSE None
      BY <1>1, <2>1, <2>3, <2>8, SwapFacts, Names
    <2>10. MidSwap' /\ kc' = KeysOf(mem') /\ Listed'
      BY <1>2, <2>1, <2>3, <2>4, <2>5, <2>6, <2>7, <2>8, <2>9, SwapMoves
    <2>11. Ins(moved') = {}
      BY <2>3, <2>5
    <2> QED BY <1>1, <1>4, <2>10, <2>11 DEF Phase, Swapping, Ins
  <1> QED BY <1>3, <1>4 DEF MoveOut

LEMMA WhereIn ==
  ASSUME Typed, Typed', Phase, NEW e \in Entries, MoveIn(e)
  PROVE  Phase'
  <1> USE DEF Typed
  <1>1. stage = "in" /\ Outs(moved) = made[mem] /\ MidSwap /\ kc = KeysOf(mem) /\ Listed
    BY DEF MoveIn, Phase, Swapping
  <1>2. UNCHANGED <<made, saved, kc, mem, target, dest, whole>>
    BY DEF MoveIn
  <1>3. CASE stage' = "undo" /\ UNCHANGED <<live, shelf, moved>>
    BY <1>1, <1>2, <1>3, SwapWaits DEF Phase, Swapping, KeysOf, Listed
  <1>4. CASE /\ live' = [live EXCEPT ![e] = shelf[target][e]]
             /\ shelf' = [shelf EXCEPT ![target][e] = None]
             /\ moved' = Append(moved, [e |-> e, in |-> TRUE])
             /\ UNCHANGED stage
    <2> DEFINE m == [e |-> e, in |-> TRUE]
               s == Append(moved, m)
    <2>1. m \in MoveType /\ m.e = e /\ m.in /\ stage \in Swapping
      BY <1>1 DEF MoveType, Swapping
    <2>2. e \in made[target] \ Ins(moved) /\ shelf[target][e] = target
      BY <1>1, <2>1, SwapFacts DEF MoveIn
    <2> HIDE DEF m
    <2>3. s \in Seq(MoveType) /\ Outs(s) = made[mem] /\ Ins(s) = Ins(moved) \cup {e}
      <3>1. moved \in Seq(MoveType)
        BY <2>1, SwapFacts
      <3>2. /\ s \in Seq(MoveType) /\ Outs(s) = Outs(moved) \cup (IF m.in THEN {} ELSE {m.e})
            /\ Ins(s) = Ins(moved) \cup (IF m.in THEN {m.e} ELSE {})
        BY <2>1, <3>1, MovesAppended
      <3> QED BY <1>1, <2>1, <3>2
    <2>4. Ordered(s)
      BY <1>1, <2>1, <2>2, SwapFacts, AppendedInOrder DEF MidSwap
    <2>5. moved' = s
      BY <1>4 DEF m
    <2> HIDE DEF s
    <2>6. Ins(s) \subseteq made[target] /\ Outs(s) \subseteq made[mem]
      BY <1>1, <2>2, <2>3 DEF MidSwap
    <2>7. \A f \in Entries : live'[f] = IF f \in Ins(s) THEN target
                                        ELSE IF f \in made[mem] \ Outs(s) THEN mem ELSE None
      BY <1>1, <1>4, <2>1, <2>2, <2>3, SwapFacts DEF FilesTyped
    <2>8. /\ \A f \in Entries : shelf'[target][f] = IF f \in made[target] \ Ins(s) THEN target ELSE None
          /\ \A y \in Shelves \ {target} : shelf'[y] = shelf[y]
      BY <1>4, <2>1, <2>2, <2>3, SwapFacts, Names DEF FilesTyped
    <2>9. \A f \in Entries : shelf'[dest][f] = IF f \in Outs(s) THEN mem ELSE None
      BY <1>1, <2>1, <2>3, <2>8, SwapFacts
    <2>10. MidSwap' /\ kc' = KeysOf(mem') /\ Listed'
      BY <1>2, <2>1, <2>3, <2>4, <2>5, <2>6, <2>7, <2>8, <2>9, SwapMoves
    <2>11. Outs(moved') = made'[mem']
      BY <1>2, <2>3, <2>5
    <2> QED BY <1>1, <1>4, <2>10, <2>11 DEF Phase, Swapping, Outs
  <1> QED BY <1>3, <1>4 DEF MoveIn

LEMMA WhereUndo ==
  ASSUME Typed, Typed', Phase, OnlyMoves', Undo
  PROVE  Phase'
  <1> USE DEF Typed
  <1> DEFINE m == moved[Len(moved)]
             s == SubSeq(moved, 1, Len(moved) - 1)
  <1>1. /\ stage = "undo" /\ stage \in Swapping /\ MidSwap /\ moved # <<>>
        /\ moved \in Seq(MoveType)
    BY DEF Undo, Phase, Swapping, SwapTyped
  <1>2. /\ PutsBack(m) /\ moved' = s
        /\ UNCHANGED <<made, saved, kc, mem, stage, target, dest, whole>>
    BY NoMishap DEF Undo
  <1>3. /\ m \in MoveType /\ s \in Seq(MoveType) /\ Ordered(s)
        /\ Outs(moved) = Outs(s) \cup (IF m.in THEN {} ELSE {m.e})
        /\ Ins(moved)  = Ins(s) \cup (IF m.in THEN {m.e} ELSE {})
        /\ IF m.in THEN m.e \notin Ins(s) ELSE m.e \notin Outs(s) /\ Ins(s) = {}
    BY <1>1, LastMove, MovesTakenBack DEF MidSwap
  <1> HIDE DEF m, s
  <1>4. m.e \in Entries
    BY <1>3 DEF MoveType
  <1>5. /\ Outs(s) \subseteq made[mem] /\ Ins(s) \subseteq made[target]
        /\ Ins(s) # {} => Outs(s) = made[mem]
    BY <1>1, <1>3 DEF MidSwap
  <1>6. MidSwap' /\ kc' = KeysOf(mem') /\ Listed'
    <2>1. CASE m.in
      <3>1. /\ live' = [live EXCEPT ![m.e] = None]
            /\ shelf' = [shelf EXCEPT ![target][m.e] = live[m.e]]
        BY <1>2, <2>1 DEF PutsBack
      <3>2. live[m.e] = target /\ m.e \in made[target] /\ Outs(moved) = made[mem]
        BY <1>1, <1>3, <1>4, <2>1, SwapFacts DEF MidSwap
      <3>3. \A f \in Entries : live'[f] = IF f \in Ins(s) THEN target
                                          ELSE IF f \in made[mem] \ Outs(s) THEN mem ELSE None
        BY <1>1, <1>3, <1>4, <2>1, <3>1, <3>2, SwapFacts DEF FilesTyped
      <3>4. /\ \A f \in Entries : shelf'[target][f] = IF f \in made[target] \ Ins(s)
                                                      THEN target ELSE None
            /\ \A y \in Shelves \ {target} : shelf'[y] = shelf[y]
        BY <1>1, <1>3, <1>4, <2>1, <3>1, <3>2, SwapFacts, Names DEF FilesTyped
      <3>5. \A f \in Entries : shelf'[dest][f] = IF f \in Outs(s) THEN mem ELSE None
        BY <1>1, <1>3, <2>1, <3>4, SwapFacts
      <3> QED BY <1>1, <1>2, <1>3, <1>5, <3>3, <3>4, <3>5, SwapMoves
    <2>2. CASE ~m.in
      <3>1. /\ live' = [live EXCEPT ![m.e] = shelf[dest][m.e]]
            /\ shelf' = [shelf EXCEPT ![dest][m.e] = None]
        BY <1>2, <2>2 DEF PutsBack
      <3>2. shelf[dest][m.e] = mem /\ m.e \in made[mem]
        BY <1>1, <1>3, <1>4, <2>2, SwapFacts DEF MidSwap
      <3>3. \A f \in Entries : live'[f] = IF f \in Ins(s) THEN target
                                          ELSE IF f \in made[mem] \ Outs(s) THEN mem ELSE None
        BY <1>1, <1>3, <1>4, <2>2, <3>1, <3>2, SwapFacts DEF FilesTyped
      <3>4. /\ \A f \in Entries : shelf'[dest][f] = IF f \in Outs(s) THEN mem ELSE None
            /\ \A y \in Shelves \ {dest} : shelf'[y] = shelf[y]
        BY <1>1, <1>3, <1>4, <2>2, <3>1, SwapFacts DEF FilesTyped
      <3>5. \A f \in Entries : shelf'[target][f] = IF f \in made[target] \ Ins(s)
                                                   THEN target ELSE None
        BY <1>1, <1>3, <2>2, <3>4, SwapFacts, Names
      <3> QED BY <1>1, <1>2, <1>3, <1>5, <3>3, <3>4, <3>5, SwapMoves
    <2> QED BY <2>1, <2>2
  <1> QED BY <1>1, <1>2, <1>6 DEF Phase, Swapping

\* The swap has worked: the target's files are in place, the others' parked or dropped.
LEMMA WhereAllIn ==
  ASSUME Typed, Typed', Phase, OnlyMoves', AllIn
  PROVE  Phase'
  <1> USE Names DEF Typed
  <1>1. /\ stage = "in" /\ stage \in Swapping /\ MidSwap /\ kc = KeysOf(mem) /\ Listed
        /\ Outs(moved) = made[mem] /\ shelf[target] = Empty
    BY DEF AllIn, Phase, Swapping
  <1>2. /\ shelf' = [shelf EXCEPT ![Bin] = Empty] /\ stage' = "install"
        /\ made' = [x \in Accounts |-> IF x \in Cloud THEN made[x]
                                       ELSE {e \in made[x] : shelf[Bin][e] # x}]
        /\ UNCHANGED <<live, saved, kc, mem, target>>
    BY NoMishap, DropsAll DEF AllIn, swap
  <1>3. Ins(moved) = made[target] /\ made'[target] = made[target]
    <2>1. made[target] \ Ins(moved) = {}
      BY <1>1, SwapFacts, FilesAt DEF MidSwap, FilesTyped
    <2> QED BY <1>1, <1>2, <2>1, SwapFacts DEF MidSwap
  <1>4. live' = FilesOf(target, made'[target])
    <2>1. \A e \in Entries : live[e] = IF e \in made[target] THEN target ELSE None
      BY <1>1, <1>3, SwapFacts
    <2> QED BY <1>2, <1>3, <2>1 DEF FilesOf, FilesTyped
  <1>5. shelf'[Bin] = Empty /\ \A x \in Accounts : shelf'[x] = shelf[x]
    BY <1>2 DEF FilesTyped
  <1>6. ASSUME NEW x \in Accounts \ {target} PROVE shelf'[x] = FilesOf(x, made'[x])
    <2>1. made[x] \subseteq Entries
      BY DEF FilesTyped
    <2>2. CASE x = mem /\ dest = mem
      <3>1. mem \in Cloud
        BY <1>1, <2>2, SwapFacts DEF MidSwap, HeadTyped
      <3>2. shelf[x] = FilesOf(x, made[x])
        BY <1>1, <2>2, SwapFacts DEF MidSwap
      <3> QED BY <1>2, <1>5, <2>2, <3>1, <3>2
    <2>3. CASE x = mem /\ dest = Bin
      <3>1. mem \notin Cloud
        BY <1>1, <2>3, SwapFacts DEF MidSwap, Listed
      <3>2. \A e \in made[mem] : shelf[Bin][e] = mem
        BY <1>1, <2>1, <2>3, SwapFacts
      <3>3. made'[x] = {}
        BY <1>2, <2>3, <3>1, <3>2
      <3>4. shelf[x] = Empty
        BY <1>1, <2>3, SwapFacts DEF MidSwap
      <3> QED BY <1>5, <3>3, <3>4, FilesAt
    <2>4. CASE x # mem
      <3>1. shelf[x] = FilesOf(x, made[x])
        BY <1>1, <1>6, <2>4, SwapFacts DEF MidSwap
      <3>2. \A e \in made[x] : shelf[Bin][e] # x
        <4>1. CASE dest = Bin
          BY <1>1, <2>1, <2>4, <4>1, SwapFacts
        <4>2. CASE dest # Bin
          <5>1. shelf[Bin] = Empty
            BY <1>1, <4>2, SwapFacts DEF MidSwap
          <5> QED BY <2>1, <5>1 DEF Empty
        <4> QED BY <4>1, <4>2
      <3>3. made'[x] = made[x]
        BY <1>2, <3>2
      <3> QED BY <1>5, <3>1, <3>3
    <2> QED BY <1>1, <2>2, <2>3, <2>4, SwapFacts
  <1>7. AtRest(target)'
    BY <1>1, <1>2, <1>4, <1>5, <1>6, SwapFacts DEF AtRest, Made, FilesOf
  <1> QED BY <1>1, <1>2, <1>7, SwapFacts DEF Phase, Swapping, KeysOf

LEMMA WhereSwap ==
  ASSUME Typed, Typed', Phase, OnlyMoves', SwapStep
  PROVE  Phase'
  <1> USE DEF Typed
  <1>1. CASE Clears
    <2>1. MidSwap /\ moved = <<>> /\ stage \in Swapping /\ kc = KeysOf(mem) /\ Listed
      BY <1>1 DEF Clears, Phase, Swapping
    <2>2. shelf[dest] = Empty
      <3>1. \A e \in Entries : shelf[dest][e] = None
        BY <2>1, NoMoves, SwapFacts
      <3> QED BY <2>1, <3>1, SwapFacts DEF FilesTyped, Empty
    <2>3. UNCHANGED <<live, shelf, made, saved, kc, mem, target, dest, moved, whole>> /\ stage' = "out"
      <3>1. Deletes(dest) /\ stage' = "out"
        BY <1>1, NoMishap DEF Clears, LeavesSome
      <3> QED BY <1>1, <2>2, <3>1 DEF Clears, Deletes, swap, FilesTyped
    <2>4. MidSwap'
      BY <2>1, <2>3, SwapWaits
    <2>5. Ins(moved') = {}
      BY <2>1, <2>3, NoMoves
    <2> QED BY <2>1, <2>3, <2>4, <2>5 DEF Phase, Swapping, KeysOf, Listed, Ins
  <1>2. CASE AllOut
    <2>1. MidSwap /\ Ins(moved) = {} /\ stage \in Swapping /\ kc = KeysOf(mem) /\ Listed
      BY <1>2 DEF AllOut, Phase, Swapping
    <2>2. UNCHANGED <<live, shelf, made, saved, kc, mem, target, dest, moved, whole>> /\ stage' = "in"
      BY <1>2 DEF AllOut, swap, files
    <2>3. Outs(moved) = made[mem]
      <3>1. \A e \in Entries : live[e] = None
        BY <1>2 DEF AllOut, Empty
      <3>2. made[mem] \subseteq Entries
        BY <2>1, SwapFacts DEF FilesTyped
      <3> QED BY <2>1, <3>1, <3>2, SwapFacts DEF MidSwap
    <2>4. MidSwap'
      BY <2>1, <2>2, SwapWaits
    <2> QED BY <2>1, <2>2, <2>3, <2>4 DEF Phase, Swapping, KeysOf, Listed, Outs
  <1>3. CASE Undone
    <2>1. MidSwap /\ moved = <<>> /\ stage \in Swapping /\ kc = KeysOf(mem) /\ Listed
      BY <1>3 DEF Undone, Phase, Swapping
    <2>2. Outs(moved) = {} /\ Ins(moved) = {}
      BY <2>1, NoMoves
    <2>3. shelf[dest] = Empty
      <3>1. \A e \in Entries : shelf[dest][e] = None
        BY <2>1, <2>2, SwapFacts
      <3> QED BY <2>1, <3>1, SwapFacts DEF FilesTyped, Empty
    <2>4. UNCHANGED <<live, shelf, made, saved, kc, mem>> /\ stage' = "running"
      <3>1. shelf' = [shelf EXCEPT ![dest] = Empty]
        BY <1>3, <2>1, NoMishap, DropsAll DEF Undone, MidSwap
      <3> QED BY <1>3, <2>3, <3>1 DEF Undone, FilesTyped
    <2>5. live = FilesOf(mem, made[mem])
      BY <2>1, <2>2, SwapFacts DEF FilesOf, FilesTyped
    <2>6. shelf[Bin] = Empty /\ shelf[mem] = Empty
      BY <2>1, <2>3, SwapFacts, Names DEF MidSwap
    <2>7. ASSUME NEW x \in Accounts \ {mem} PROVE shelf[x] = FilesOf(x, made[x])
      <3>1. CASE x = target
        BY <2>1, <2>2, <3>1 DEF MidSwap, FilesOf
      <3>2. CASE x # target
        BY <2>1, <2>7, <3>2, SwapFacts, Names DEF MidSwap
      <3> QED BY <3>1, <3>2
    <2>8. AtRest(mem)'
      BY <2>1, <2>4, <2>5, <2>6, <2>7, SwapFacts DEF AtRest, Made, FilesOf
    <2> QED BY <2>1, <2>4, <2>8 DEF Phase, Swapping, KeysOf, Listed
  <1> QED BY <1>1, <1>2, <1>3, WhereOut, WhereIn, WhereUndo, WhereAllIn DEF SwapStep

LEMMA WhereStep == Typed /\ Whereabouts /\ [Next]_vars => Whereabouts'
  <1> SUFFICES ASSUME Typed, Whereabouts, [Next]_vars, OnlyMoves' PROVE Phase'
    BY DEF Whereabouts
  <1>2. Phase
    BY WentGrows DEF Whereabouts, OnlyMoves
  <1>3. Typed'
    BY StepTyped
  <1>4. CASE UNCHANGED vars
    <2>1. UNCHANGED <<live, shelf, made, saved, kc, mem, stage, target, dest, moved, whole>>
      BY <1>4 DEF vars, files, swap
    <2>2. MidSwap => MidSwap'
      BY <2>1, SwapWaits
    <2>3. /\ AtRest(None) => AtRest(None)'
          /\ AtRest(kc.id) => AtRest(kc.id)'
          /\ AtRest(mem) => AtRest(mem)'
          /\ AtRest(target) => AtRest(target)'
      BY <2>1 DEF AtRest, Made, FilesOf
    <2>4. /\ Ins(moved) = {} => Ins(moved') = {}
          /\ Outs(moved) = made[mem] => Outs(moved') = made'[mem']
      BY <2>1
    <2> QED BY <1>2, <2>1, <2>2, <2>3, <2>4 DEF Phase, Listed, KeysOf, NoKeys, Outs, Ins
  <1>5. CASE Next
    BY <1>2, <1>3, <1>5, WhereSession, WhereLogout, WhereWork, WhereRemove, WhereSwitch, WhereSwap
       DEF Next, UserStep
  <1> QED BY <1>4, <1>5

LEMMA WhereaboutsInvariant == Spec => []Whereabouts
  <1>1. Init => Whereabouts
    BY WhereInit DEF Whereabouts
  <1> QED BY <1>1, InitTyped, StepTyped, WhereStep, PTL DEF Spec

\* Through switches, and through switches that failed at any move and were undone
\* (profile.rs), every file of every account stays in place or parked.
THEOREM SwitchesLoseNothing == Spec => []NothingLost
  <1>1. Typed /\ Whereabouts => NothingLost
    <2> SUFFICES ASSUME Typed, Phase, NEW x \in Accounts, NEW e \in made[x] PROVE Kept(x, e)
      BY DEF Whereabouts, OnlyMoves, NothingLost, AllKept
    <2>1. e \in Entries /\ x # None /\ x # Bin
      BY Names DEF Typed, FilesTyped
    <2>2. ASSUME NEW c, AtRest(c) PROVE Kept(x, e)
      <3>1. CASE x = c
        BY <2>1, <2>2, <3>1, FilesAt DEF AtRest, Made, Kept
      <3>2. CASE x # c
        BY <2>1, <2>2, <3>2, FilesAt DEF AtRest, Kept
      <3> QED BY <3>1, <3>2
    <2>3. CASE stage \in Swapping
      <3>1. CASE x = target
        BY <2>1, <2>3, <3>1, SwapFacts DEF Kept
      <3>2. CASE x = mem
        <4>1. e \in Outs(moved) => shelf[dest][e] = mem /\ dest \in {mem, Bin}
          BY <2>1, <2>3, SwapFacts
        <4>2. e \notin Outs(moved) => live[e] = mem \/ e \in Ins(moved)
          BY <2>1, <2>3, <3>2, SwapFacts
        <4>3. e \in Ins(moved) => e \in Outs(moved)
          BY <2>3, <3>2 DEF Phase, MidSwap
        <4> QED BY <3>2, <4>1, <4>2, <4>3 DEF Kept
      <3>3. CASE x # target /\ x # mem
        <4>1. shelf[x] = FilesOf(x, made[x])
          BY <2>1, <2>3, <3>3, SwapFacts, Names DEF Phase, MidSwap
        <4> QED BY <2>1, <4>1, FilesAt DEF Kept
      <3> QED BY <3>1, <3>2, <3>3
    <2>4. CASE stage \notin Swapping
      <3>1. \E c : AtRest(c)
        BY <2>4 DEF Phase, Swapping, Typed, HeadTyped, Stages
      <3> QED BY <2>2, <3>1
    <2> QED BY <2>3, <2>4
  <1> QED BY <1>1, InitTyped, StepTyped, WhereaboutsInvariant, PTL DEF Spec

\* A session, resumed after a failed switch or opened by a finished one, has all files
\* of its account in place and none of another's ("rejects with the session intact",
\* savedAccounts.ts).
THEOREM SessionsHaveTheirFiles == Spec => []SessionHasItsFiles
  <1>1. Typed /\ Whereabouts => SessionHasItsFiles
    <2> SUFFICES ASSUME Typed, Phase, stage = "running", NEW e \in Entries
                 PROVE  live[e] = (IF e \in made[mem] THEN mem ELSE None)
      BY DEF Whereabouts, OnlyMoves, SessionHasItsFiles
    <2>1. AtRest(mem) /\ mem # None
      BY DEF Phase, Typed, HeadTyped
    <2> QED BY <2>1, FilesAt DEF AtRest, Made
  <1> QED BY <1>1, InitTyped, StepTyped, WhereaboutsInvariant, PTL DEF Spec

(***************************************************************************)
(* Whose vault a session has                                               *)
(***************************************************************************)

\* A vault that a swap has put in is noted, and one it took out lies whole where the
\* undo will look for it: not among the target's files.
VaultOK ==
  /\ stage = "running" => OpensVault(mem)
  /\ stage \in Swapping =>
       /\ target # mem /\ dest \in {mem, Bin}
       /\ stage \in {"clear", "out"} => Ins(moved) = {}
       /\ stage = "clear" => Outs(moved) = {}
       /\ Secrets \notin Ins(moved) => OpensVault(mem)
       /\ Secrets \in Outs(moved) => shelf[dest][Secrets] \in {None, mem}
VaultInv == "undo" \notin went => VaultOK

LEMMA VaultSwap ==
  ASSUME Typed, Typed', VaultOK, "undo" \notin went', SwapStep
  PROVE  VaultOK'
  <1> USE Names DEF Typed
  <1>1. stage \in Swapping \/ AllIn
    BY DEF SwapStep, Clears, MoveOut, AllOut, MoveIn, AllIn, Undo, Undone, Swapping
  <1>2. stage \in Swapping
    BY <1>1 DEF AllIn, Swapping
  <1>3. /\ target \in Accounts \ {mem} /\ target # dest /\ target \in Shelves /\ dest \in Shelves
        /\ dest \in {mem, Bin}
    BY <1>2 DEF VaultOK, HeadTyped, SwapTyped
  <1>4. UNCHANGED <<mem, target, dest>> /\ moved \in Seq(MoveType)
    BY DEF SwapStep, Clears, MoveOut, AllOut, MoveIn, AllIn, Undo, Undone, swap, SwapTyped
  <1>5. CASE Clears
    <2>1. moved' = moved /\ live' = live /\ stage' \in {"out", "undo"} /\ stage = "clear"
      BY <1>5 DEF Clears, swap
    <2>2. Ins(moved') = {} /\ Outs(moved') = {}
      BY <1>2, <2>1 DEF VaultOK
    <2> QED BY <1>2, <1>3, <1>4, <2>1, <2>2 DEF VaultOK, OpensVault, Swapping
  <1>6. CASE AllOut
    <2>1. moved' = moved /\ live' = live /\ shelf' = shelf /\ stage' = "in"
      BY <1>6 DEF AllOut, swap, files
    <2> QED BY <1>2, <1>3, <1>4, <2>1 DEF VaultOK, OpensVault, Swapping, Ins, Outs
  <1>7. CASE AllIn
    BY <1>7 DEF AllIn, VaultOK, Swapping
  <1>8. CASE Undone
    <2>1. Secrets \notin Ins(moved)
      BY <1>8, NoMoves DEF Undone
    <2> QED BY <1>2, <1>4, <1>8, <2>1 DEF Undone, VaultOK, OpensVault, Swapping
  <1>9. ASSUME NEW e \in Entries, MoveOut(e) PROVE VaultOK'
    <2>1. CASE stage' = "undo" /\ UNCHANGED <<live, shelf, moved>>
      BY <1>2, <1>4, <2>1 DEF VaultOK, OpensVault, Swapping, Ins, Outs
    <2>2. CASE /\ live' = [live EXCEPT ![e] = None]
               /\ shelf' = [shelf EXCEPT ![dest][e] = live[e]]
               /\ moved' = Append(moved, [e |-> e, in |-> FALSE])
               /\ UNCHANGED stage
      <3> DEFINE m == [e |-> e, in |-> FALSE]
      <3>1. m \in MoveType /\ m.e = e /\ ~m.in
        BY DEF MoveType
      <3> HIDE DEF m
      <3>2. Outs(moved') = Outs(moved) \cup {e} /\ Ins(moved') = Ins(moved)
        <4>1. moved' = Append(moved, m)
          BY <2>2 DEF m
        <4>2. /\ Outs(Append(moved, m)) = Outs(moved) \cup (IF m.in THEN {} ELSE {m.e})
              /\ Ins(Append(moved, m)) = Ins(moved) \cup (IF m.in THEN {m.e} ELSE {})
          BY <1>4, <3>1, MovesAppended
        <4> QED BY <3>1, <4>1, <4>2
      <3>3. live'[Secrets] \in {None, live[Secrets]}
        BY <2>2 DEF FilesTyped
      <3>4. CASE e = Secrets
        <4>1. Secrets \notin Ins(moved)
          BY <1>9 DEF MoveOut, VaultOK, Swapping
        <4>2. shelf'[dest][Secrets] = live[Secrets] /\ live'[Secrets] = None /\ stage = "out"
          BY <1>3, <1>9, <2>2, <3>4 DEF FilesTyped, MoveOut
        <4> QED BY <1>2, <1>3, <1>4, <2>2, <3>2, <4>1, <4>2 DEF VaultOK, OpensVault, Swapping
      <3>5. CASE e # Secrets
        <4>1. shelf'[dest][Secrets] = shelf[dest][Secrets] /\ stage = "out"
          BY <1>3, <1>9, <2>2, <3>5 DEF FilesTyped, MoveOut
        <4> QED BY <1>2, <1>3, <1>4, <2>2, <3>2, <3>3, <3>5, <4>1 DEF VaultOK, OpensVault, Swapping
      <3> QED BY <3>4, <3>5
    <2> QED BY <1>9, <2>1, <2>2 DEF MoveOut
  <1>10. ASSUME NEW e \in Entries, MoveIn(e) PROVE VaultOK'
    <2>1. CASE stage' = "undo" /\ UNCHANGED <<live, shelf, moved>>
      BY <1>2, <1>4, <2>1 DEF VaultOK, OpensVault, Swapping, Ins, Outs
    <2>2. CASE /\ live' = [live EXCEPT ![e] = shelf[target][e]]
               /\ shelf' = [shelf EXCEPT ![target][e] = None]
               /\ moved' = Append(moved, [e |-> e, in |-> TRUE])
               /\ UNCHANGED stage
      <3> DEFINE m == [e |-> e, in |-> TRUE]
      <3>1. m \in MoveType /\ m.e = e /\ m.in
        BY DEF MoveType
      <3> HIDE DEF m
      <3>2. Outs(moved') = Outs(moved) /\ Ins(moved') = Ins(moved) \cup {e}
        <4>1. moved' = Append(moved, m)
          BY <2>2 DEF m
        <4>2. /\ Outs(Append(moved, m)) = Outs(moved) \cup (IF m.in THEN {} ELSE {m.e})
              /\ Ins(Append(moved, m)) = Ins(moved) \cup (IF m.in THEN {m.e} ELSE {})
          BY <1>4, <3>1, MovesAppended
        <4> QED BY <3>1, <4>1, <4>2
      <3>3. /\ shelf'[dest] = shelf[dest]
            /\ e # Secrets => live'[Secrets] = live[Secrets]
        BY <1>3, <2>2 DEF FilesTyped
      <3>4. stage = "in"
        BY <1>10 DEF MoveIn
      <3> QED BY <1>2, <1>3, <1>4, <2>2, <3>2, <3>3, <3>4 DEF VaultOK, OpensVault, Swapping
    <2> QED BY <1>10, <2>1, <2>2 DEF MoveIn
  <1>11. CASE Undo
    <2> DEFINE m == moved[Len(moved)]
               s == SubSeq(moved, 1, Len(moved) - 1)
    <2>1. moved # <<>> /\ stage = "undo" /\ stage' = "undo" /\ moved' = s /\ PutsBack(m)
      BY <1>11 DEF Undo, Mishap
    <2>2. /\ m \in MoveType
          /\ Outs(moved) = Outs(s) \cup (IF m.in THEN {} ELSE {m.e})
          /\ Ins(moved)  = Ins(s) \cup (IF m.in THEN {m.e} ELSE {})
      BY <1>4, <2>1, LastMove
    <2> HIDE DEF m, s
    <2>3. m.e \in Entries
      BY <2>2 DEF MoveType
    <2>4. CASE m.in
      <3>1. /\ live' = [live EXCEPT ![m.e] = None]
            /\ shelf' = [shelf EXCEPT ![target][m.e] = live[m.e]]
        BY <2>1, <2>4 DEF PutsBack
      <3>2. /\ shelf'[dest] = shelf[dest]
            /\ live'[Secrets] = IF m.e = Secrets THEN None ELSE live[Secrets]
        BY <1>3, <2>3, <3>1 DEF FilesTyped
      <3> QED BY <1>2, <1>3, <1>4, <2>1, <2>2, <2>4, <3>2 DEF VaultOK, OpensVault, Swapping
    <2>5. CASE ~m.in
      <3>1. /\ live' = [live EXCEPT ![m.e] = shelf[dest][m.e]]
            /\ shelf' = [shelf EXCEPT ![dest][m.e] = None]
        BY <2>1, <2>5 DEF PutsBack
      <3>2. /\ shelf'[dest][Secrets] = IF m.e = Secrets THEN None ELSE shelf[dest][Secrets]
            /\ live'[Secrets] = IF m.e = Secrets THEN shelf[dest][Secrets] ELSE live[Secrets]
        BY <1>3, <2>3, <3>1 DEF FilesTyped
      <3> QED BY <1>2, <1>3, <1>4, <2>1, <2>2, <2>5, <3>2 DEF VaultOK, OpensVault, Swapping
    <2> QED BY <2>4, <2>5
  <1> QED BY <1>5, <1>6, <1>7, <1>8, <1>9, <1>10, <1>11 DEF SwapStep

LEMMA VaultSession ==
  ASSUME Typed, VaultOK,
         \/ Launch \/ Unlock \/ Logout \/ Save \/ Install \/ Crash
         \/ \E e \in Entries : Work(e)
         \/ \E x \in Accounts : SignIn(x) \/ SignInFromLocal(x) \/ Add(x) \/ Remove(x) \/ SwitchTo(x)
  PROVE  VaultOK'
  <1> USE Names DEF Typed, Swapping
  <1>1. CASE Launch
    BY <1>1 DEF Launch, Opens, OpensVault, VaultOK, files
  <1>2. CASE Unlock
    BY <1>2 DEF Unlock, Opens, OpensVault, VaultOK, files
  <1>3. CASE Logout
    BY <1>3 DEF Logout, VaultOK
  <1>4. CASE Save
    BY <1>4 DEF Save, VaultOK, OpensVault, files
  <1>5. CASE Install
    BY <1>5 DEF Install, VaultOK
  <1>6. CASE Crash
    BY <1>6 DEF Crash, VaultOK
  <1>7. ASSUME NEW e \in Entries, Work(e) PROVE VaultOK'
    <2>1. stage = "running" /\ UNCHANGED <<stage, mem>> /\ live' = [live EXCEPT ![e] = mem]
      BY <1>7 DEF Work
    <2>2. live'[Secrets] \in {live[Secrets], mem}
      BY <2>1 DEF FilesTyped
    <2> QED BY <2>1, <2>2 DEF VaultOK, OpensVault
  <1>8. ASSUME NEW x \in Accounts, SignIn(x) PROVE VaultOK'
    BY <1>8 DEF SignIn, Enters, Opens, OpensVault, VaultOK, files
  <1>9. ASSUME NEW x \in Accounts, SignInFromLocal(x) PROVE VaultOK'
    BY <1>9 DEF SignInFromLocal, Enters, Opens, OpensVault, VaultOK, Empty
  <1>10. ASSUME NEW x \in Accounts, Add(x) PROVE VaultOK'
    BY <1>10 DEF Add, VaultOK, OpensVault, files
  <1>11. ASSUME NEW x \in Accounts, Remove(x) PROVE VaultOK'
    BY <1>11 DEF Remove, VaultOK, OpensVault
  <1>12. ASSUME NEW x \in Accounts, SwitchTo(x) PROVE VaultOK'
    <2>1. /\ stage = "running" /\ stage' = "clear" /\ UNCHANGED <<live, mem>>
          /\ target' # mem /\ dest' \in {mem, Bin} /\ moved' = <<>>
      BY <1>12 DEF SwitchTo, files
    <2>2. Ins(moved') = {} /\ Outs(moved') = {}
      BY <2>1, NoMoves
    <2> QED BY <2>1, <2>2 DEF VaultOK, OpensVault
  <1> QED BY <1>1, <1>2, <1>3, <1>4, <1>5, <1>6, <1>7, <1>8, <1>9, <1>10, <1>11, <1>12

LEMMA VaultStep == Typed /\ VaultInv /\ [Next]_vars => VaultInv'
  <1> SUFFICES ASSUME Typed, VaultInv, [Next]_vars, "undo" \notin went' PROVE VaultOK'
    BY DEF VaultInv
  <1>1. VaultOK
    BY WentGrows DEF VaultInv
  <1>2. CASE UNCHANGED vars
    BY <1>1, <1>2 DEF vars, files, swap, VaultOK, OpensVault, Ins, Outs
  <1>3. CASE Next
    BY <1>1, <1>3, StepTyped, VaultSwap, VaultSession DEF Next, UserStep
  <1> QED BY <1>2, <1>3

\* Whatever goes wrong, but for an undo that leaves the target's files in place, no
\* session works on another account's vault (profile.rs, account.ts).
THEOREM SessionsHaveTheirVault == Spec => []OwnVaultOnly
  <1>1. Init => VaultInv
    BY DEF Init, VaultInv, VaultOK, Swapping
  <1>2. VaultInv => OwnVaultOnly
    BY DEF VaultInv, VaultOK, OwnVaultOnly
  <1> QED BY <1>1, <1>2, InitTyped, StepTyped, VaultStep, PTL DEF Spec

(***************************************************************************)
(* Whose data is parked                                                    *)
(***************************************************************************)

\* The park of an account of the switcher holds that account's files, and there is no other.
OwnPark(s) == \A e \in Entries : shelf[s][e] # None => s \in saved /\ shelf[s][e] = s
OwnLive(x) == \A e \in Entries : live[e] \in {None, x}

\* In a swap the entries put in are the target's, and what was put aside is the session's.
SwapParks ==
  /\ target \in saved \ {mem}
  /\ dest = IF mem \in saved THEN mem ELSE Bin
  /\ Ordered(moved) /\ whole
  /\ \A e \in Ins(moved) : live[e] = target /\ shelf[target][e] = None
  /\ \A e \in Entries \ Ins(moved) : live[e] \in {None, mem}
  /\ \A e \in Outs(moved) : live[e] # mem
  /\ stage # "clear" => \A e \in Entries : shelf[dest][e] \in {None, mem}
  /\ \A s \in Shelves \ {dest} : OwnPark(s)

ParkPhase ==
  /\ stage \notin Swapping \ {"clear"} => \A s \in Shelves : OwnPark(s)
  /\ stage = "locked"  => OwnLive(None) /\ kc = NoKeys
  /\ stage = "off"     => OwnLive(kc.id) /\ kc = KeysOf(kc.id) /\ kc.id # None
  /\ stage = "running" => OwnLive(mem) /\ kc = KeysOf(mem)
  /\ stage = "install" => /\ OwnLive(target) /\ target \notin {None, mem}
                          /\ kc \in {KeysOf(mem), [id |-> None, key |-> mem], NoKeys,
                                     [id |-> target, key |-> None]}
  /\ stage \in Swapping => SwapParks /\ kc = KeysOf(mem)
  /\ stage \in {"clear", "out"} => Ins(moved) = {}
  /\ stage = "clear" => moved = <<>>
  /\ stage = "in" => \A e \in Entries : live[e] # mem

Mild    == went \subseteq {"move", "save", "resign"}
ParkInv == Mild => ParkPhase

LEMMA MovesAreEntries ==
  ASSUME NEW s \in Seq(MoveType)
  PROVE  Outs(s) \subseteq Entries /\ Ins(s) \subseteq Entries
  <1>1. \A i \in DOMAIN s : s[i] \in MoveType
    OBVIOUS
  <1>2. \A i \in DOMAIN s : s[i].e \in Entries
    BY <1>1 DEF MoveType
  <1> QED BY <1>2 DEF Outs, Ins

LEMMA MildMishap ==
  ASSUME Mild', NEW m \in {"undo", "write", "crash", "drop"}
  PROVE  ~Mishap(m)
  BY DEF Mild, Mishap

LEMMA ParksInit == Init => ParkPhase
  <1> SUFFICES ASSUME Init PROVE ParkPhase
    OBVIOUS
  <1>1. /\ stage = "locked" /\ kc = NoKeys
        /\ \A e \in Entries : live[e] = None
        /\ \A s \in Shelves, e \in Entries : shelf[s][e] = None
    BY DEF Init, Empty
  <1> QED BY <1>1 DEF ParkPhase, OwnPark, OwnLive, Swapping

\* An account is let in where no one's files lie in place.
LEMMA ParksOpen ==
  ASSUME Typed, NEW x \in Accounts, \A s \in Shelves : OwnPark(s), OwnLive(x)',
         UNCHANGED shelf, saved \subseteq saved', kc' = KeysOf(x), mem' = x, stage' = "running"
  PROVE  ParkPhase'
  BY DEF ParkPhase, OwnPark, Swapping

LEMMA ParksSession ==
  ASSUME Typed, ParkPhase, Mild',
         \/ Launch \/ Unlock \/ Logout \/ Save \/ Install \/ Crash
         \/ \E e \in Entries : Work(e)
         \/ \E x \in Accounts : SignIn(x) \/ SignInFromLocal(x) \/ Add(x)
  PROVE  ParkPhase'
  <1> USE Names DEF Typed
  <1>1. stage \notin Swapping /\ \A s \in Shelves : OwnPark(s)
    BY MildMishap DEF Launch, Unlock, Logout, Save, Install, Crash, Work, SignIn,
       SignInFromLocal, Add, ParkPhase, Swapping
  <1>2. \A x \in Accounts : Joins(x) => saved \subseteq saved'
    BY DEF Joins
  <1>3. \A x \in Accounts : Enters(x) => saved \subseteq saved'
    BY <1>2 DEF Enters
  <1>4. CASE Launch
    <2>1. stage = "off" /\ OwnLive(kc.id) /\ kc = KeysOf(kc.id) /\ kc.id \in Accounts
      BY <1>4 DEF Launch, ParkPhase, HeadTyped, Owners
    <2>2. kc.key = kc.id /\ OpensVault(kc.key)
      BY <2>1 DEF KeysOf, OwnLive, OpensVault
    <2>3. Opens(kc.id) /\ Joins(kc.id)
      BY <1>4, <2>1, <2>2 DEF Launch
    <2>4. UNCHANGED <<live, shelf, kc>>
      BY <1>4 DEF Launch, files
    <2> QED BY <1>1, <1>2, <2>1, <2>3, <2>4, ParksOpen DEF Opens, OwnLive
  <1>5. CASE Unlock
    BY <1>5 DEF Unlock, ParkPhase, NoKeys
  <1>6. CASE Logout
    <2>1. stage' = "locked" /\ kc' = NoKeys /\ OwnLive(None)'
      BY <1>6 DEF Logout, OwnLive, Empty
    <2>2. mem \in Accounts /\ saved' = saved \ {mem}
          /\ \A s \in Shelves : shelf'[s] = IF s = mem THEN Empty ELSE shelf[s]
      BY <1>6, MildMishap, DropsAll DEF Logout, HeadTyped, Owners, FilesTyped
    <2>3. \A s \in Shelves : OwnPark(s)'
      BY <1>1, <2>2 DEF OwnPark, Empty
    <2> QED BY <2>1, <2>3 DEF ParkPhase, Swapping
  <1>7. CASE Save
    BY <1>1, <1>7 DEF Save, ParkPhase, OwnPark, OwnLive, Swapping, files, KeysOf
  <1>8. CASE Install
    <2>1. UNCHANGED <<live, shelf, saved, mem, target>> /\ stage = "install"
      BY <1>8 DEF Install, files, swap
    <2>2. \A s \in Shelves : OwnPark(s)'
      BY <1>1, <2>1 DEF OwnPark
    <2>3. OwnLive(target)' /\ target' \notin {None, mem'}
      BY <2>1 DEF ParkPhase, OwnLive
    <2>4. \/ stage' = "off" /\ kc' = KeysOf(target)
          \/ stage' = "install" /\ kc' \in {[id |-> None, key |-> mem], NoKeys,
                                            [id |-> target, key |-> None]}
      <3>1. kc \in {KeysOf(mem), [id |-> None, key |-> mem], NoKeys, [id |-> target, key |-> None]}
        BY <2>1 DEF ParkPhase
      <3>2. target # None /\ target # mem /\ mem # None
        BY <2>1 DEF ParkPhase, HeadTyped
      <3>3. ~Mishap("write")
        BY MildMishap
      <3> QED BY <1>8, <2>1, <3>1, <3>2, <3>3 DEF Install, KeysOf, NoKeys
    <2>5. target' = target /\ mem' = mem /\ KeysOf(target).id = target
      BY <2>1 DEF KeysOf
    <2> QED BY <2>2, <2>3, <2>4, <2>5 DEF ParkPhase, Swapping
  <1>9. CASE Crash
    BY <1>9, MildMishap DEF Crash
  <1>10. ASSUME NEW e \in Entries, Work(e) PROVE ParkPhase'
    <2>1. /\ stage = "running" /\ live' = [live EXCEPT ![e] = mem]
          /\ UNCHANGED <<shelf, saved, kc, mem, stage>>
      BY <1>10 DEF Work
    <2>2. OwnLive(mem)'
      BY <2>1 DEF OwnLive, ParkPhase, FilesTyped
    <2> QED BY <1>1, <2>1, <2>2 DEF ParkPhase, OwnPark, OwnLive, Swapping
  <1>11. ASSUME NEW x \in Accounts, SignIn(x) PROVE ParkPhase'
    <2>1. OwnLive(x)'
      BY <1>11 DEF SignIn, ParkPhase, OwnLive, files
    <2> QED BY <1>1, <1>3, <1>11, <2>1, ParksOpen DEF SignIn, Enters, Opens, files
  <1>12. ASSUME NEW x \in Accounts, SignInFromLocal(x) PROVE ParkPhase'
    <2>1. OwnLive(x)'
      BY <1>12 DEF SignInFromLocal, OwnLive, Empty
    <2> QED BY <1>1, <1>3, <1>12, <2>1, ParksOpen DEF SignInFromLocal, Enters, Opens
  <1>13. ASSUME NEW x \in Accounts, Add(x) PROVE ParkPhase'
    BY <1>1, <1>13 DEF Add, ParkPhase, OwnPark, OwnLive, Swapping, files
  <1> QED BY <1>4, <1>5, <1>6, <1>7, <1>8, <1>9, <1>10, <1>11, <1>12, <1>13

\* Who leaves the switcher takes the park along.
LEMMA ParksRemove == ASSUME Typed, ParkPhase, Mild', NEW x \in Accounts, Remove(x) PROVE ParkPhase'
  <1> USE Names DEF Typed
  <1>1. /\ stage \in {"running", "install"} /\ saved' = saved \ {x}
        /\ UNCHANGED <<live, kc, mem, stage, target>>
        /\ \A s \in Shelves : shelf'[s] = IF s = x THEN Empty ELSE shelf[s]
    BY MildMishap, DropsAll DEF Remove, FilesTyped, swap
  <1>2. \A s \in Shelves : OwnPark(s)
    BY <1>1 DEF ParkPhase, Swapping
  <1>3. \A s \in Shelves : OwnPark(s)'
    BY <1>1, <1>2 DEF OwnPark, Empty
  <1> QED BY <1>1, <1>3 DEF ParkPhase, OwnLive, Swapping

LEMMA ParksSwitch == ASSUME Typed, ParkPhase, NEW x \in Accounts, SwitchTo(x) PROVE ParkPhase'
  <1> USE Names DEF Typed
  <1>1. /\ stage = "running" /\ stage' = "clear" /\ UNCHANGED <<live, shelf, saved, kc, mem>>
        /\ target' = x /\ x \in saved \ {mem} /\ moved' = <<>> /\ whole'
        /\ dest' = IF mem \in saved THEN mem ELSE Bin
    BY DEF SwitchTo, files
  <1>2. (\A s \in Shelves : OwnPark(s)) /\ OwnLive(mem) /\ kc = KeysOf(mem)
    BY <1>1 DEF ParkPhase, Swapping
  <1>3. Outs(moved') = {} /\ Ins(moved') = {} /\ Ordered(moved')
    BY <1>1, NoMoves
  <1>4. SwapParks'
    BY <1>1, <1>2, <1>3 DEF SwapParks, OwnPark, OwnLive
  <1>5. \A s \in Shelves : OwnPark(s)'
    BY <1>1, <1>2 DEF OwnPark
  <1> QED BY <1>1, <1>2, <1>3, <1>4, <1>5 DEF ParkPhase, Swapping

\* What a step of the swap finds: the two shelves of it differ.
LEMMA ParksInSwap ==
  ASSUME Typed, ParkPhase, Mild', SwapStep
  PROVE  /\ stage \in Swapping /\ SwapParks /\ kc = KeysOf(mem)
         /\ target \in Shelves /\ dest \in Shelves /\ target # dest /\ mem # None
         /\ target \notin {None, mem} /\ dest \in {mem, Bin} /\ Bin \notin saved
         /\ moved \in Seq(MoveType)
         /\ UNCHANGED <<saved, kc, mem, target, dest, whole>>
  <1> USE Names DEF Typed
  <1>1. stage \in Swapping
    BY DEF SwapStep, Clears, MoveOut, AllOut, MoveIn, AllIn, Undo, Undone, Swapping
  <1>2. SwapParks /\ kc = KeysOf(mem)
    BY <1>1 DEF ParkPhase
  <1>3. UNCHANGED <<saved, kc, mem, target, dest, whole>>
    BY MildMishap DEF SwapStep, Clears, MoveOut, AllOut, MoveIn, AllIn, Undo, Undone, swap
  <1>4. target \in Accounts /\ mem # None /\ Bin \notin saved
    BY <1>1 DEF HeadTyped, Swapping
  <1> QED BY <1>1, <1>2, <1>3, <1>4 DEF SwapParks, SwapTyped

LEMMA ParksOut == ASSUME Typed, ParkPhase, Mild', NEW e \in Entries, MoveOut(e) PROVE ParkPhase'
  <1> USE Names DEF Typed
  <1>1. SwapStep
    BY DEF SwapStep
  <1>2. /\ SwapParks /\ kc = KeysOf(mem) /\ stage = "out" /\ Ins(moved) = {} /\ mem # None
        /\ target \in Shelves /\ dest \in Shelves /\ target # dest
        /\ moved \in Seq(MoveType)
        /\ UNCHANGED <<saved, kc, mem, target, dest, whole>>
    BY <1>1, ParksInSwap DEF MoveOut, ParkPhase
  <1>3. CASE stage' = "undo" /\ UNCHANGED <<live, shelf, moved>>
    <2>1. SwapParks'
      BY <1>2, <1>3 DEF SwapParks, OwnPark, Ins, Outs
    <2> QED BY <1>2, <1>3, <2>1 DEF ParkPhase, Swapping
  <1>4. CASE /\ live' = [live EXCEPT ![e] = None]
             /\ shelf' = [shelf EXCEPT ![dest][e] = live[e]]
             /\ moved' = Append(moved, [e |-> e, in |-> FALSE])
             /\ UNCHANGED stage
    <2> DEFINE m == [e |-> e, in |-> FALSE]
    <2>1. m \in MoveType /\ m.e = e /\ ~m.in /\ moved' = Append(moved, m)
      BY <1>4 DEF MoveType
    <2> HIDE DEF m
    <2>2. Outs(moved') = Outs(moved) \cup {e} /\ Ins(moved') = {}
      BY <1>2, <2>1, MovesAppended
    <2>3. live[e] = mem /\ e \notin Outs(moved)
      BY <1>2 DEF MoveOut, SwapParks
    <2>4. Ordered(moved')
      BY <1>2, <2>1, <2>3, AppendedInOrder DEF SwapParks
    <2>5. /\ \A f \in Entries : live'[f] = IF f = e THEN None ELSE live[f]
          /\ \A s \in Shelves \ {dest} : shelf'[s] = shelf[s]
          /\ \A f \in Entries : shelf'[dest][f] = IF f = e THEN mem ELSE shelf[dest][f]
      BY <1>2, <1>4, <2>3 DEF FilesTyped
    <2>6. \A f \in Outs(moved) : f \in Entries
      BY <1>2, MovesAreEntries
    <2>7. SwapParks'
      <3>1. \A f \in Outs(moved') : live'[f] # mem
        BY <1>2, <2>2, <2>5, <2>6 DEF SwapParks
      <3>2. \A s \in Shelves \ {dest} : OwnPark(s)'
        BY <1>2, <2>5 DEF SwapParks, OwnPark
      <3>3. \A f \in Entries : live'[f] \in {None, mem} /\ shelf'[dest][f] \in {None, mem}
        BY <1>2, <2>5 DEF SwapParks
      <3> QED BY <1>2, <2>2, <2>4, <3>1, <3>2, <3>3 DEF SwapParks
    <2> QED BY <1>2, <1>4, <2>2, <2>7 DEF ParkPhase, Swapping
  <1> QED BY <1>3, <1>4 DEF MoveOut

LEMMA ParksIn == ASSUME Typed, ParkPhase, Mild', NEW e \in Entries, MoveIn(e) PROVE ParkPhase'
  <1> USE Names DEF Typed
  <1>1. SwapStep
    BY DEF SwapStep
  <1>2. /\ SwapParks /\ kc = KeysOf(mem) /\ stage = "in"
        /\ target \in Shelves /\ dest \in Shelves /\ target # dest /\ target # mem
        /\ moved \in Seq(MoveType) /\ \A f \in Entries : live[f] # mem
        /\ UNCHANGED <<saved, kc, mem, target, dest, whole>>
    BY <1>1, ParksInSwap DEF MoveIn, ParkPhase
  <1>3. CASE stage' = "undo" /\ UNCHANGED <<live, shelf, moved>>
    <2>1. SwapParks'
      BY <1>2, <1>3 DEF SwapParks, OwnPark, Ins, Outs
    <2> QED BY <1>2, <1>3, <2>1 DEF ParkPhase, Swapping
  <1>4. CASE /\ live' = [live EXCEPT ![e] = shelf[target][e]]
             /\ shelf' = [shelf EXCEPT ![target][e] = None]
             /\ moved' = Append(moved, [e |-> e, in |-> TRUE])
             /\ UNCHANGED stage
    <2> DEFINE m == [e |-> e, in |-> TRUE]
    <2>1. m \in MoveType /\ m.e = e /\ m.in /\ moved' = Append(moved, m)
      BY <1>4 DEF MoveType
    <2> HIDE DEF m
    <2>2. Outs(moved') = Outs(moved) /\ Ins(moved') = Ins(moved) \cup {e}
      BY <1>2, <2>1, MovesAppended
    <2>3. shelf[target][e] = target /\ e \notin Ins(moved)
      BY <1>2 DEF MoveIn, SwapParks, OwnPark
    <2>4. Ordered(moved')
      BY <1>2, <2>1, <2>3, AppendedInOrder DEF SwapParks
    <2>5. /\ \A f \in Entries : live'[f] = IF f = e THEN target ELSE live[f]
          /\ \A s \in Shelves \ {target} : shelf'[s] = shelf[s]
          /\ \A f \in Entries : shelf'[target][f] = IF f = e THEN None ELSE shelf[target][f]
      BY <1>2, <1>4, <2>3 DEF FilesTyped
    <2>6. \A f \in Outs(moved) \cup Ins(moved) : f \in Entries
      BY <1>2, MovesAreEntries
    <2>7. \A f \in Entries : live'[f] # mem
      BY <1>2, <2>5
    <2>8. SwapParks'
      <3>1. \A f \in Ins(moved') : live'[f] = target /\ shelf'[target][f] = None
        BY <1>2, <2>2, <2>5, <2>6 DEF SwapParks
      <3>2. \A f \in Entries \ Ins(moved') : live'[f] \in {None, mem}
        BY <1>2, <2>2, <2>5 DEF SwapParks
      <3>3. \A s \in Shelves \ {dest} : OwnPark(s)'
        BY <1>2, <2>5 DEF SwapParks, OwnPark
      <3>4. \A f \in Entries : shelf'[dest][f] \in {None, mem}
        BY <1>2, <2>5 DEF SwapParks
      <3> QED BY <1>2, <2>2, <2>4, <2>6, <2>7, <3>1, <3>2, <3>3, <3>4 DEF SwapParks
    <2> QED BY <1>2, <1>4, <2>7, <2>8 DEF ParkPhase, Swapping
  <1> QED BY <1>3, <1>4 DEF MoveIn

LEMMA ParksUndo == ASSUME Typed, ParkPhase, Mild', Undo PROVE ParkPhase'
  <1> USE Names DEF Typed
  <1> DEFINE m == moved[Len(moved)]
             t == SubSeq(moved, 1, Len(moved) - 1)
  <1>1. /\ SwapParks /\ kc = KeysOf(mem) /\ stage = "undo" /\ stage' = "undo"
        /\ target \in Shelves /\ dest \in Shelves /\ target # dest /\ target # mem
        /\ moved \in Seq(MoveType) /\ moved # <<>>
        /\ UNCHANGED <<saved, kc, mem, target, dest, whole>>
    BY ParksInSwap DEF Undo, SwapStep, ParkPhase
  <1>2. PutsBack(m) /\ moved' = t
    BY MildMishap DEF Undo
  <1>3. /\ m \in MoveType /\ t \in Seq(MoveType) /\ Ordered(t)
        /\ Outs(moved) = Outs(t) \cup (IF m.in THEN {} ELSE {m.e})
        /\ Ins(moved)  = Ins(t) \cup (IF m.in THEN {m.e} ELSE {})
        /\ IF m.in THEN m.e \notin Ins(t) ELSE m.e \notin Outs(t) /\ Ins(t) = {}
    BY <1>1, LastMove, MovesTakenBack DEF SwapParks
  <1> HIDE DEF m, t
  <1>4. m.e \in Entries /\ m.in \in BOOLEAN
    BY <1>3 DEF MoveType
  <1>5. \A f \in Outs(t) \cup Ins(t) : f \in Entries
    BY <1>3, MovesAreEntries
  <1>6. SwapParks'
    <2>1. CASE m.in
      <3>1. live[m.e] = target
        BY <1>1, <1>3, <2>1 DEF SwapParks
      <3>2. /\ \A f \in Entries : live'[f] = IF f = m.e THEN None ELSE live[f]
            /\ \A s \in Shelves \ {target} : shelf'[s] = shelf[s]
            /\ \A f \in Entries : shelf'[target][f] = IF f = m.e THEN target ELSE shelf[target][f]
        BY <1>1, <1>2, <1>4, <2>1, <3>1 DEF PutsBack, FilesTyped
      <3>3. \A f \in Ins(t) : live'[f] = target /\ shelf'[target][f] = None
        BY <1>1, <1>3, <1>5, <2>1, <3>2 DEF SwapParks
      <3>4. /\ \A f \in Entries \ Ins(t) : live'[f] \in {None, mem}
            /\ \A f \in Entries : shelf'[dest][f] \in {None, mem}
        BY <1>1, <1>3, <2>1, <3>2 DEF SwapParks
      <3>5. \A f \in Outs(t) : live'[f] # mem
        BY <1>1, <1>3, <1>5, <2>1, <3>2, ParksInSwap DEF SwapParks, SwapStep, HeadTyped
      <3>6. \A s \in Shelves \ {dest} : OwnPark(s)'
        BY <1>1, <3>2 DEF SwapParks, OwnPark
      <3> QED BY <1>1, <1>2, <1>3, <3>3, <3>4, <3>5, <3>6 DEF SwapParks
    <2>2. CASE ~m.in
      <3>1. /\ \A f \in Entries : live'[f] = IF f = m.e THEN shelf[dest][f] ELSE live[f]
            /\ \A s \in Shelves \ {dest} : shelf'[s] = shelf[s]
            /\ \A f \in Entries : shelf'[dest][f] = IF f = m.e THEN None ELSE shelf[dest][f]
        BY <1>1, <1>2, <1>4, <2>2 DEF PutsBack, FilesTyped
      <3>2. Ins(t) = {} /\ Ins(moved) = {}
        BY <1>3, <2>2
      <3>3. \A f \in Entries : live'[f] \in {None, mem} /\ shelf'[dest][f] \in {None, mem}
        BY <1>1, <3>1, <3>2 DEF SwapParks
      <3>4. \A f \in Outs(t) : live'[f] # mem
        BY <1>1, <1>3, <1>5, <2>2, <3>1 DEF SwapParks
      <3>5. \A s \in Shelves \ {dest} : OwnPark(s)'
        BY <1>1, <3>1 DEF SwapParks, OwnPark
      <3> QED BY <1>1, <1>2, <1>3, <3>2, <3>3, <3>4, <3>5 DEF SwapParks
    <2> QED BY <1>4, <2>1, <2>2
  <1> QED BY <1>1, <1>6 DEF ParkPhase, Swapping

LEMMA ParksSwap == ASSUME Typed, ParkPhase, Mild', SwapStep PROVE ParkPhase'
  <1> USE Names DEF Typed
  <1>1. /\ stage \in Swapping /\ SwapParks /\ kc = KeysOf(mem)
        /\ target \in Shelves /\ dest \in Shelves /\ target # dest /\ mem # None
        /\ target \notin {None, mem} /\ dest \in {mem, Bin} /\ Bin \notin saved
        /\ UNCHANGED <<saved, kc, mem, target, dest, whole>>
    BY ParksInSwap
  <1>2. CASE Clears
    <2>1. /\ stage = "clear" /\ stage' = "out" /\ UNCHANGED <<live, moved>>
          /\ \A s \in Shelves : shelf'[s] = IF s = dest THEN Empty ELSE shelf[s]
      BY <1>1, <1>2, MildMishap DEF Clears, Deletes, LeavesSome, FilesTyped, swap
    <2>2. Ins(moved) = {} /\ Outs(moved) = {}
      BY <2>1, NoMoves DEF ParkPhase
    <2>3. \A s \in Shelves \ {dest} : OwnPark(s)'
      BY <1>1, <2>1 DEF SwapParks, OwnPark
    <2>4. \A e \in Entries : shelf'[dest][e] \in {None, mem}
      BY <1>1, <2>1 DEF Empty
    <2>5. SwapParks'
      BY <1>1, <2>1, <2>2, <2>3, <2>4 DEF SwapParks
    <2> QED BY <1>1, <2>1, <2>2, <2>5 DEF ParkPhase, Swapping
  <1>3. CASE AllOut
    <2>1. stage = "out" /\ stage' = "in" /\ UNCHANGED <<live, shelf, moved>> /\ live = Empty
      BY <1>3 DEF AllOut, files, swap
    <2>2. \A e \in Entries : live'[e] # mem
      BY <1>1, <2>1 DEF Empty
    <2>3. SwapParks'
      BY <1>1, <2>1 DEF SwapParks, OwnPark, Ins, Outs
    <2> QED BY <1>1, <2>1, <2>2, <2>3 DEF ParkPhase, Swapping
  <1>4. CASE AllIn
    <2>1. /\ stage = "in" /\ stage' = "install" /\ UNCHANGED live
          /\ \A s \in Shelves : shelf'[s] = IF s = Bin THEN Empty ELSE shelf[s]
      BY <1>4, MildMishap, DropsAll DEF AllIn, FilesTyped
    <2>2. \A e \in Entries : live[e] \in {None, target}
      BY <1>1, <2>1 DEF ParkPhase, SwapParks
    <2>3. dest = mem => mem \in saved
      BY <1>1 DEF SwapParks, HeadTyped, Owners
    <2>4. \A s \in Shelves : OwnPark(s)'
      BY <1>1, <2>1, <2>3 DEF SwapParks, OwnPark, Empty
    <2> QED BY <1>1, <2>1, <2>2, <2>4 DEF ParkPhase, OwnLive, Swapping
  <1>5. CASE Undone
    <2>1. /\ stage = "undo" /\ stage' = "running" /\ UNCHANGED live /\ moved = <<>>
          /\ \A s \in Shelves : shelf'[s] = IF s = dest THEN Empty ELSE shelf[s]
      <3>1. shelf' = [shelf EXCEPT ![dest] = Empty]
        BY <1>1, <1>5, MildMishap, DropsAll DEF Undone, SwapParks
      <3> QED BY <1>1, <1>5, <3>1 DEF Undone, FilesTyped
    <2>2. \A e \in Entries : live[e] \in {None, mem}
      BY <1>1, <2>1, NoMoves DEF SwapParks
    <2>3. \A s \in Shelves : OwnPark(s)'
      BY <1>1, <2>1 DEF SwapParks, OwnPark, Empty
    <2> QED BY <1>1, <2>1, <2>2, <2>3 DEF ParkPhase, OwnLive, Swapping
  <1> QED BY <1>2, <1>3, <1>4, <1>5, ParksOut, ParksIn, ParksUndo DEF SwapStep

LEMMA ParksStep == Typed /\ ParkInv /\ [Next]_vars => ParkInv'
  <1> SUFFICES ASSUME Typed, ParkInv, [Next]_vars, Mild' PROVE ParkPhase'
    BY DEF ParkInv
  <1>1. ParkPhase
    BY WentGrows DEF ParkInv, Mild
  <1>2. CASE UNCHANGED vars
    BY <1>1, <1>2 DEF vars, files, swap, ParkPhase, SwapParks, OwnPark, OwnLive, Ins, Outs
  <1>3. CASE Next
    BY <1>1, <1>3, ParksSwap, ParksSession, ParksRemove, ParksSwitch DEF Next, UserStep
  <1> QED BY <1>2, <1>3

\* While only moves, the saving of an account and a second sign-in go wrong, whatever is
\* parked belongs to an account of the switcher and lies in that account's own park, so
\* Remove and Logout reach all of it (savedAccounts.ts, profile.rs).
THEOREM ParksListed == Spec => []ParksAreListed
  <1>1. Init => ParkInv
    BY ParksInit DEF ParkInv
  <1>2. ParkInv => ParksAreListed
    BY DEF ParkInv, ParkPhase, ParksAreListed, OwnPark, Mild, Swapping
  <1> QED BY <1>1, <1>2, InitTyped, StepTyped, ParksStep, PTL DEF Spec

=============================================================================
