------------------------- MODULE Onboarding_proofs -------------------------
(***************************************************************************)
(* Proofs about Onboarding, for any requests, processes and orders of the  *)
(* system rows.                                                            *)
(***************************************************************************)
EXTENDS Onboarding, FiniteSetTheorems, TLAPS

Order(r) == CreateOrder[ProcessOf[r]]

\* Founders look for system rows and slugs, registrations for an account.
StepsOfFounders ==
  \A r \in Requests :
    /\ pc[r] \in {"findRow", "insertRow", "findSlug", "insertSlug"} => r \in Founders
    /\ pc[r] = "findUser" => r \in Registers

\* A founder sees the system rows it has gone through, then all of them.
RowsBehind(r) ==
  /\ pc[r] = "idle" => at[r] = 1
  /\ pc[r] \in {"findRow", "insertRow"} =>
       /\ at[r] \in 1..Len(Order(r))
       /\ \A i \in 1..(at[r] - 1) : Sees(r, Order(r)[i])
  /\ pc[r] \in {"insertUser", "findSlug", "insertSlug", "commit"} =>
       \A k \in SystemRows : Sees(r, k)
  /\ pc[r] = "done" => \A k \in SystemRows : holder[k] = Kept

\* The slugs below the one that a founder looks at are committed, and it holds
\* that one alone, and only to commit it.
SlugsBehind(r) ==
  /\ pc[r] \in {"insertUser", "findSlug", "insertSlug", "commit"} =>
       \A i \in Numbers : i < at[r] => holder[<<NameOf[r], i>>] = Kept
  /\ \A n \in Names, i \in Numbers :
       holder[<<n, i>>] = r => n = NameOf[r] /\ i = at[r] /\ pc[r] = "commit"

HeldByFounders ==
  \A n \in Names, i \in Numbers :
    holder[<<n, i>>] \in Requests => holder[<<n, i>>] \in Founders

IInv ==
  /\ TypeOK
  /\ StepsOfFounders
  /\ HeldByFounders
  /\ \A r \in Founders : RowsBehind(r) /\ SlugsBehind(r)
  /\ SlugsHaveNoGaps

LEMMA KeysOf ==
  /\ SystemRows \subseteq Keys
  /\ \A n \in Names, i \in Numbers : <<n, i>> \in Keys /\ <<n, i>> \notin SystemRows \cup Emails
  /\ \A r \in Founders : NameOf[r] \in Names
  /\ \A r \in Requests : EmailOf[r] \in Emails
BY OnboardingConstants DEF Keys, Slugs, Names, Emails

\* Free and Kept are no requests.
LEMMA Marks == Free # Kept /\ Free \notin Requests /\ Kept \notin Requests
BY OnboardingConstants

LEMMA FoundersAreRequests == Founders \subseteq Requests /\ Registers \subseteq Requests
BY DEF Founders, Requests

Step(r) == Register(r) \/ Bootstrap(r) \/ Create(r) \/ Proceed(r)

\* What a step of r leaves alone: the steps and the rows of the others, and
\* what is committed.
LEMMA StepKeeps ==
  ASSUME TypeOK, NEW r \in Requests, Step(r)
  PROVE  /\ \A s \in Requests \ {r} : pc'[s] = pc[s] /\ at'[s] = at[s]
         /\ \A k \in Keys :
              /\ holder[k] \notin {Free, r} => holder'[k] = holder[k]
              /\ holder'[k] \notin {Free, r, Kept} => holder'[k] = holder[k]
              /\ holder'[k] = Kept => holder[k] \in {Kept, r}
<1>1. \A s \in Requests \ {r} : pc'[s] = pc[s] /\ at'[s] = at[s]
  BY DEF TypeOK, Step, Register, Bootstrap, Create, Proceed, FindRow, FindUser,
     FindSlug, InsertRow, InsertUser, InsertSlug, Commit, Fail, AfterRow, Goto
<1>2. \/ UNCHANGED holder
      \/ Insert(r)
      \/ holder' = [k \in Keys |-> IF holder[k] = r THEN Kept ELSE holder[k]]
      \/ holder' = [k \in Keys |-> IF holder[k] = r THEN Free ELSE holder[k]]
  BY DEF Step, Register, Bootstrap, Create, Proceed, FindRow, FindUser,
     FindSlug, InsertRow, InsertUser, InsertSlug, Commit, Fail
<1>3. CASE UNCHANGED holder
  BY <1>1, <1>3 DEF TypeOK
<1>4. CASE Insert(r)
  BY <1>1, <1>4, Marks DEF TypeOK, Insert
<1>5. CASE holder' = [k \in Keys |-> IF holder[k] = r THEN Kept ELSE holder[k]]
  BY <1>1, <1>5 DEF TypeOK
<1>6. CASE holder' = [k \in Keys |-> IF holder[k] = r THEN Free ELSE holder[k]]
  BY <1>1, <1>6 DEF TypeOK
<1> QED BY <1>2, <1>3, <1>4, <1>5, <1>6
-----------------------------------------------------------------------------
\* The steps after which a request may hold rows.
Inside == Inserting \cup {"findRow", "findSlug", "commit"}

HoldersAreInside ==
  \A k \in Keys : holder[k] \in Requests => pc[holder[k]] \in Inside

\* How a step of r moves it, together with what it does to the rows.
LEMMA StepMoves ==
  ASSUME TypeOK, NEW r \in Requests, Step(r)
  PROVE  /\ at' \in [Requests -> Nat]
         /\ \/ /\ UNCHANGED holder
               /\ \/ UNCHANGED pc
                  \/ pc[r] \notin Inside /\ \E l \in Labels : Goto(r, l)
                  \/ \E l \in Inside : Goto(r, l)
            \/ Insert(r) /\ \E l \in Inside : Goto(r, l)
            \/ Commit(r)
            \/ Fail(r)
<1> USE DEF Inside, Inserting, Labels, Ended
<1>1. CASE Register(r) BY <1>1 DEF TypeOK, Register
<1>2. CASE Bootstrap(r) BY <1>2 DEF TypeOK, Bootstrap
<1>3. CASE Create(r) BY <1>3 DEF TypeOK, Create
<1>4. ASSUME AfterRow(r, at[r])
      PROVE  at' \in [Requests -> Nat] /\ \E l \in Inside : Goto(r, l)
  BY <1>4 DEF AfterRow, TypeOK
<1>5. CASE FindRow(r) BY <1>4, <1>5 DEF TypeOK, FindRow
<1>6. CASE FindUser(r) BY <1>6 DEF TypeOK, FindUser
<1>7. CASE FindSlug(r) BY <1>7 DEF TypeOK, FindSlug
<1>8. CASE InsertRow(r) BY <1>4, <1>8 DEF InsertRow
<1>9. CASE InsertUser(r) BY <1>9 DEF TypeOK, InsertUser
<1>10. CASE InsertSlug(r) BY <1>10 DEF TypeOK, InsertSlug
<1>11. CASE Commit(r) BY <1>11 DEF TypeOK, Commit
<1>12. CASE Fail(r) BY <1>12 DEF TypeOK, Fail
<1> QED
  BY <1>1, <1>2, <1>3, <1>5, <1>6, <1>7, <1>8, <1>9, <1>10, <1>11, <1>12
  DEF Step, Proceed

LEMMA TypeStep ==
  ASSUME TypeOK, HoldersAreInside, [Next]_vars
  PROVE  TypeOK' /\ HoldersAreInside'
<1>0. Inside \subseteq Labels /\ Inside \cap ({"idle"} \cup Ended) = {}
  BY DEF Inside, Inserting, Labels, Ended
<1>1. ASSUME NEW r \in Requests, Step(r) PROVE TypeOK' /\ HoldersAreInside'
  <2>1. rivals' \in [Requests -> SUBSET Requests]
    <3>1. CASE UNCHANGED rivals
      BY <3>1 DEF TypeOK
    <3>2. CASE Begin(r)
      BY <3>2 DEF TypeOK, Begin
    <3> QED BY <1>1, <3>1, <3>2 DEF Step, Register, Bootstrap, Create, Proceed,
          FindRow, FindUser, FindSlug, InsertRow, InsertUser, InsertSlug,
          Commit, Fail
  <2>2. pc' \in [Requests -> Labels]
    BY <1>0, <1>1, StepMoves
    DEF TypeOK, Goto, Commit, Fail, Labels, Ended
  <2>3. holder' \in [Keys -> Requests \cup {Free, Kept}] /\ HoldersAreInside'
    <3>1. CASE UNCHANGED holder /\ UNCHANGED pc
      BY <3>1 DEF TypeOK, HoldersAreInside
    <3>2. ASSUME UNCHANGED holder, NEW l \in Labels, Goto(r, l),
                 pc[r] \in Inside => l \in Inside
          PROVE  holder' \in [Keys -> Requests \cup {Free, Kept}] /\ HoldersAreInside'
      BY <3>2 DEF TypeOK, HoldersAreInside, Goto
    <3>3. ASSUME Insert(r), NEW l \in Inside, Goto(r, l)
          PROVE  holder' \in [Keys -> Requests \cup {Free, Kept}] /\ HoldersAreInside'
      <4>1. holder' \in [Keys -> Requests \cup {Free, Kept}]
        BY <3>3 DEF TypeOK, Insert
      <4>2. \A k \in Keys : holder'[k] \in {r, holder[k]}
        BY <3>3 DEF TypeOK, Insert
      <4>3. \A s \in Requests : pc'[s] \in {l, pc[s]} /\ pc'[r] = l
        BY <3>3 DEF TypeOK, Goto
      <4> QED BY <4>1, <4>2, <4>3 DEF HoldersAreInside
    <3>4. CASE Commit(r)
      BY <3>4, Marks DEF TypeOK, HoldersAreInside, Commit, Goto
    <3>5. CASE Fail(r)
      BY <3>5, Marks DEF TypeOK, HoldersAreInside, Fail, Goto
    <3> QED BY <1>0, <1>1, StepMoves, <3>1, <3>2, <3>3, <3>4, <3>5
  <2>4. at' \in [Requests -> Nat]
    BY <1>1, StepMoves
  <2> QED BY <1>0, <2>1, <2>2, <2>3, <2>4 DEF TypeOK, HoldersAreInside, Begun
<1>2. CASE UNCHANGED vars
  BY <1>2 DEF vars, TypeOK, HoldersAreInside, Begun
<1> QED BY <1>1, <1>2 DEF Next, Step

\* For every set of requests the state is well typed, and only requests that
\* are under way hold uncommitted rows: get_db closes the session of a failed
\* one.
THEOREM OnboardingTypeCorrect == Spec => []TypeOK
<1>1. Init => TypeOK /\ HoldersAreInside
  BY Marks DEF Init, TypeOK, HoldersAreInside, Labels, Keys
<1> QED BY <1>1, TypeStep, PTL DEF Spec
-----------------------------------------------------------------------------
\* What another request does leaves s where it is: it sees what it saw, and it
\* holds the same rows.
LEMMA OthersKeep ==
  ASSUME TypeOK, NEW r \in Requests, Step(r), NEW s \in Founders, s # r,
         RowsBehind(s), SlugsBehind(s)
  PROVE  RowsBehind(s)' /\ SlugsBehind(s)'
<1>1. pc'[s] = pc[s] /\ at'[s] = at[s]
  BY StepKeeps, FoundersAreRequests
<1>2. \A k \in Keys :
        /\ holder[k] = Kept => holder'[k] = Kept
        /\ holder'[k] = s <=> holder[k] = s
  BY StepKeeps, FoundersAreRequests, Marks
<1>3. at[s] \in Nat /\ Order(s) \in Seq(SystemRows)
  BY FoundersAreRequests, OnboardingConstants DEF TypeOK, Order
<1>4. Len(Order(s)) \in Nat /\ \A i \in 1..Len(Order(s)) : Order(s)[i] \in SystemRows
  BY <1>3
<1>5. \A k \in SystemRows : Sees(s, k) => Sees(s, k)'
  <2>1. \A k \in SystemRows : k \in Keys
    BY KeysOf
  <2> QED BY <1>2, <2>1 DEF Sees
<1>6. RowsBehind(s)'
  <2>1. ASSUME pc[s] \in {"findRow", "insertRow"}, NEW i \in 1..(at[s] - 1)
        PROVE  Sees(s, Order(s)[i])'
    <3>1. i \in 1..Len(Order(s)) /\ Sees(s, Order(s)[i])
      BY <1>3, <1>4, <2>1 DEF RowsBehind
    <3> QED BY <1>4, <1>5, <3>1
  <2>2. \A k \in SystemRows : holder[k] = Kept => holder'[k] = Kept
    BY <1>2, KeysOf
  <2> QED BY <1>1, <1>5, <2>1, <2>2 DEF RowsBehind, Order
<1>7. \A n \in Names, i \in Numbers :
        /\ holder[<<n, i>>] = Kept => holder'[<<n, i>>] = Kept
        /\ holder'[<<n, i>>] = s <=> holder[<<n, i>>] = s
  BY <1>2, KeysOf
<1>8. NameOf[s] \in Names
  BY KeysOf
<1>9. SlugsBehind(s)'
  BY <1>1, <1>7, <1>8 DEF SlugsBehind
<1> QED BY <1>6, <1>9

LEMMA RowsStep ==
  ASSUME IInv, NEW r \in Founders, Step(r)
  PROVE  RowsBehind(r)'
<1>1. TypeOK /\ RowsBehind(r) /\ r \in Requests
  BY FoundersAreRequests DEF IInv
<1>2. at[r] \in Nat /\ Order(r) \in Seq(SystemRows)
  BY <1>1, OnboardingConstants DEF TypeOK, Order
<1>3. Len(Order(r)) \in Nat /\ \A i \in 1..Len(Order(r)) : Order(r)[i] \in SystemRows
  BY <1>2
<1>4. \A k \in SystemRows : \E i \in 1..Len(Order(r)) : Order(r)[i] = k
  BY <1>2, OnboardingConstants DEF Order
<1>5. SystemRows \subseteq Keys
  BY DEF Keys
\* After row n the founder sees the rows up to n, and after the last one all.
<1>6. ASSUME pc[r] \in {"findRow", "insertRow"}, AfterRow(r, at[r]),
             \A k \in SystemRows : Sees(r, k) => Sees(r, k)',
             holder'[Order(r)[at[r]]] \in {Kept, r}
      PROVE  RowsBehind(r)'
  <2>1. /\ at[r] \in 1..Len(Order(r))
        /\ \A i \in 1..at[r] : holder'[Order(r)[i]] \in {Kept, r}
    <3>1. at[r] \in 1..Len(Order(r)) /\ \A i \in 1..(at[r] - 1) : Sees(r, Order(r)[i])
      BY <1>1, <1>6 DEF RowsBehind
    <3>2. \A i \in 1..(at[r] - 1) : holder'[Order(r)[i]] \in {Kept, r}
      BY <1>2, <1>3, <1>6, <3>1 DEF Sees
    <3>3. \A i \in 1..at[r] : i = at[r] \/ i \in 1..(at[r] - 1)
      BY <1>2
    <3> QED BY <1>6, <3>1, <3>2, <3>3
  <2>2. CASE at[r] < Len(Order(r))
    <3>1. pc'[r] = "findRow" /\ at'[r] = at[r] + 1
      BY <1>1, <1>6, <2>2 DEF AfterRow, Goto, TypeOK, Order
    <3>2. at'[r] \in 1..Len(Order(r)) /\ at'[r] - 1 = at[r]
      BY <1>2, <1>3, <2>1, <2>2, <3>1
    <3> QED BY <2>1, <3>1, <3>2 DEF RowsBehind, Sees, Order
  <2>3. CASE ~(at[r] < Len(Order(r)))
    <3>1. pc'[r] \in {"insertUser", "findSlug"}
      BY <1>1, <1>6, <2>3 DEF AfterRow, Goto, TypeOK, Order
    <3>2. at[r] = Len(Order(r))
      BY <1>2, <1>3, <2>1, <2>3
    <3>3. \A k \in SystemRows : Sees(r, k)'
      BY <1>4, <2>1, <3>2 DEF Sees
    <3> QED BY <3>1, <3>3 DEF RowsBehind
  <2> QED BY <2>2, <2>3
\* A founder that stays among the later steps goes on seeing all rows.
<1>7. ASSUME pc[r] \in {"insertUser", "findSlug", "insertSlug", "commit"},
             pc'[r] \in {"insertUser", "findSlug", "insertSlug", "commit"},
             \A k \in SystemRows : Sees(r, k) => Sees(r, k)'
      PROVE  RowsBehind(r)'
  BY <1>1, <1>7 DEF RowsBehind
<1>8. \A k \in Keys : UNCHANGED holder \/ Insert(r) => (Sees(r, k) => Sees(r, k)')
  BY <1>1 DEF Sees, Insert, TypeOK
<1>9. CASE Bootstrap(r) \/ Create(r)
  <2>1. UNCHANGED <<holder, at>> /\ pc'[r] \in {"refused", "findRow"}
    BY <1>1, <1>9 DEF Bootstrap, Create, Goto, TypeOK
  <2>2. at[r] = 1
    BY <1>1, <1>9 DEF Bootstrap, Create, RowsBehind
  <2>3. 1 \in 1..Len(Order(r))
    BY <1>3, <1>4, OnboardingConstants
  <2>4. at'[r] = 1 /\ 1..(at'[r] - 1) = {}
    BY <2>1, <2>2
  <2> QED BY <2>1, <2>3, <2>4 DEF RowsBehind, Order
<1>10. CASE FindRow(r)
  <2>1. CASE Sees(r, KeyOf(r))
    <3>1. pc[r] = "findRow" /\ AfterRow(r, at[r]) /\ UNCHANGED holder
      BY <1>10, <2>1 DEF FindRow
    <3>2. KeyOf(r) = Order(r)[at[r]]
      BY <3>1 DEF KeyOf, Order
    <3>3. holder'[Order(r)[at[r]]] \in {Kept, r}
      BY <2>1, <3>1, <3>2 DEF Sees, Order
    <3> QED BY <1>5, <1>6, <1>8, <3>1, <3>3
  <2>2. CASE ~Sees(r, KeyOf(r))
    <3>1. UNCHANGED <<holder, at>> /\ pc[r] = "findRow" /\ pc'[r] = "insertRow"
      BY <1>1, <1>10, <2>2 DEF FindRow, Goto, TypeOK
    <3> QED BY <1>1, <3>1 DEF RowsBehind, Sees, Order
  <2> QED BY <2>1, <2>2
<1>11. CASE InsertRow(r)
  <2>1. pc[r] = "insertRow" /\ Insert(r) /\ AfterRow(r, at[r])
    BY <1>11 DEF InsertRow
  <2>2. Order(r)[at[r]] \in Keys /\ KeyOf(r) = Order(r)[at[r]]
    BY <1>1, <1>3, <1>5, <2>1 DEF RowsBehind, KeyOf, Order
  <2>3. holder'[Order(r)[at[r]]] \in {Kept, r}
    <3>1. holder'[Order(r)[at[r]]] = r
      BY <1>1, <2>1, <2>2 DEF Insert, TypeOK
    <3> QED BY <3>1 DEF Sees, Order
  <2> QED BY <1>5, <1>6, <1>8, <2>1, <2>3
<1>12. CASE InsertUser(r) \/ FindSlug(r) \/ InsertSlug(r)
  <2>1. UNCHANGED holder \/ Insert(r)
    BY <1>12 DEF InsertUser, FindSlug, InsertSlug
  <2>2. /\ pc[r] \in {"insertUser", "findSlug", "insertSlug", "commit"}
        /\ pc'[r] \in {"insertUser", "findSlug", "insertSlug", "commit"}
    BY <1>1, <1>12 DEF InsertUser, FindSlug, InsertSlug, Goto, TypeOK
  <2> QED BY <1>5, <1>7, <1>8, <2>1, <2>2
<1>13. CASE Commit(r)
  <2>1. pc'[r] = "done"
    BY <1>1, <1>13 DEF Commit, Goto, TypeOK
  <2>2. \A k \in SystemRows : holder'[k] = Kept
    BY <1>1, <1>5, <1>13 DEF Commit, RowsBehind, Sees
  <2> QED BY <2>1, <2>2 DEF RowsBehind
<1>14. CASE Fail(r) \/ FindUser(r)
  <2>1. CASE Fail(r)
    <3>1. pc'[r] = "failed"
      BY <1>1, <2>1 DEF Fail, Goto, TypeOK
    <3> QED BY <3>1 DEF RowsBehind
  <2>2. CASE FindUser(r)
    BY <1>1, <2>2, OnboardingConstants DEF FindUser, IInv, StepsOfFounders
  <2> QED BY <1>14, <2>1, <2>2
<1>15. ~Register(r)
  BY OnboardingConstants DEF Register
<1> QED BY <1>9, <1>10, <1>11, <1>12, <1>13, <1>14, <1>15 DEF Step, Proceed
-----------------------------------------------------------------------------
\* A slug is inserted by InsertSlug alone, at the number it has counted to.
LEMMA SlugIsInserted ==
  ASSUME IInv, NEW r \in Requests, Step(r), NEW n \in Names, NEW i \in Numbers,
         holder[<<n, i>>] # r, holder'[<<n, i>>] = r
  PROVE  InsertSlug(r) /\ n = NameOf[r] /\ i = at[r] /\ r \in Founders
<1>1. TypeOK /\ <<n, i>> \in Keys
  BY KeysOf DEF IInv
<1>2. InsertRow(r) \/ InsertUser(r) \/ InsertSlug(r)
  BY <1>1, Marks DEF Step, Register, Bootstrap, Create, Proceed, FindRow,
     FindUser, FindSlug, Commit, Fail
<1>3. Insert(r) => <<n, i>> = KeyOf(r)
  BY <1>1 DEF TypeOK, Insert
<1>4. ~InsertRow(r)
  <2>1. SUFFICES ASSUME InsertRow(r) PROVE FALSE
    OBVIOUS
  <2>2. r \in Founders /\ pc[r] = "insertRow" /\ KeyOf(r) = Order(r)[at[r]]
    BY <2>1 DEF InsertRow, IInv, StepsOfFounders, KeyOf, Order
  <2>3. KeyOf(r) \in SystemRows
    BY <2>2, OnboardingConstants DEF IInv, RowsBehind, Order
  <2> QED BY <1>3, <2>1, <2>3, KeysOf DEF InsertRow
<1>5. ~InsertUser(r)
  BY <1>3, KeysOf DEF InsertUser, KeyOf
<1>6. CASE InsertSlug(r)
  BY <1>3, <1>6 DEF InsertSlug, KeyOf, IInv, StepsOfFounders
<1> QED BY <1>2, <1>4, <1>5, <1>6

LEMMA SlugsStep ==
  ASSUME IInv, NEW r \in Founders, Step(r)
  PROVE  SlugsBehind(r)'
<1>1. TypeOK /\ SlugsBehind(r) /\ r \in Requests /\ at[r] \in Nat
  BY FoundersAreRequests DEF IInv, TypeOK
<1>2. \A n \in Names, i \in Numbers :
        holder[<<n, i>>] = Kept => holder'[<<n, i>>] = Kept
  BY <1>1, StepKeeps, KeysOf, Marks
<1>3. NameOf[r] \in Names /\ \A i \in Numbers : i \in Nat
  BY KeysOf DEF Numbers
<1>4. ASSUME NEW n \in Names, NEW i \in Numbers, holder'[<<n, i>>] = r
      PROVE  n = NameOf[r] /\ i = at'[r] /\ pc'[r] = "commit"
  <2>1. CASE holder[<<n, i>>] = r
    <3>1. pc[r] = "commit" /\ <<n, i>> \in Keys
      BY <1>1, <2>1, KeysOf DEF SlugsBehind
    <3>2. Commit(r)
      BY <3>1 DEF Step, Register, Bootstrap, Create, Proceed, FindRow, FindUser,
         FindSlug, InsertRow, InsertUser, InsertSlug, Fail, Inserting
    <3> QED BY <1>1, <1>4, <2>1, <3>1, <3>2, Marks DEF Commit
  <2>2. CASE holder[<<n, i>>] # r
    BY <1>1, <1>4, <2>2, SlugIsInserted DEF InsertSlug, Goto, TypeOK
  <2> QED BY <2>1, <2>2
<1>5. ASSUME pc'[r] \in {"insertUser", "findSlug", "insertSlug", "commit"},
             NEW i \in Numbers, i < at'[r]
      PROVE  holder'[<<NameOf[r], i>>] = Kept
  <2>1. CASE /\ pc[r] \in {"insertUser", "findSlug", "insertSlug", "commit"}
             /\ UNCHANGED at
    BY <1>1, <1>2, <1>3, <1>5, <2>1 DEF SlugsBehind
  <2>2. CASE FindSlug(r) /\ ~UNCHANGED at
    <3>1. /\ pc[r] = "findSlug" /\ at'[r] = at[r] + 1 /\ UNCHANGED holder
          /\ Sees(r, <<NameOf[r], at[r]>>)
      BY <1>1, <2>2 DEF FindSlug, KeyOf, TypeOK
    <3>2. CASE i < at[r]
      BY <1>1, <3>1, <3>2 DEF SlugsBehind
    <3>3. CASE i = at[r]
      BY <1>1, <1>3, <3>1, <3>3 DEF SlugsBehind, Sees
    <3> QED BY <1>1, <1>3, <1>5, <3>1, <3>2, <3>3
  <2>3. CASE FindRow(r) \/ InsertRow(r)
    <3>1. at'[r] = 1
      BY <1>1, <1>5, <2>3 DEF FindRow, InsertRow, AfterRow, Goto, TypeOK
    <3> QED BY <1>5, <3>1 DEF Numbers
  <2>4. FindRow(r) \/ InsertRow(r) \/ InsertUser(r) \/ FindSlug(r) \/ InsertSlug(r)
    BY <1>1, <1>5, OnboardingConstants DEF IInv, StepsOfFounders, Step, Register,
       Bootstrap, Create, Proceed, FindUser, Commit, Fail, Goto, TypeOK
  <2> QED BY <2>1, <2>2, <2>3, <2>4 DEF InsertUser, FindSlug, InsertSlug
<1> QED BY <1>4, <1>5 DEF SlugsBehind
-----------------------------------------------------------------------------
LEMMA IInvInit == Init => IInv /\ HoldersAreInside
<1>1. SUFFICES ASSUME Init PROVE IInv /\ HoldersAreInside
  OBVIOUS
<1>2. TypeOK /\ HoldersAreInside
  BY <1>1, Marks DEF Init, TypeOK, HoldersAreInside, Labels, Keys
<1>3. \A n \in Names, i \in Numbers : holder[<<n, i>>] = Free
  BY <1>1, KeysOf DEF Init
<1>4. \A r \in Requests : pc[r] = "idle" /\ at[r] = 1
  BY <1>1 DEF Init
<1> QED BY <1>2, <1>3, <1>4, Marks, FoundersAreRequests DEF IInv, StepsOfFounders,
      HeldByFounders, RowsBehind, SlugsBehind, SlugsHaveNoGaps

LEMMA IInvStep ==
  ASSUME IInv, HoldersAreInside, [Next]_vars
  PROVE  IInv' /\ HoldersAreInside'
<1>1. TypeOK' /\ HoldersAreInside'
  BY TypeStep DEF IInv
<1>2. ASSUME NEW r \in Requests, Step(r) PROVE IInv'
  <2>1. StepsOfFounders'
    <3>1. \A s \in Requests \ {r} : pc'[s] = pc[s]
      BY <1>2, StepKeeps DEF IInv
    <3>2. /\ pc'[r] \in {"findRow", "insertRow", "findSlug", "insertSlug"} => r \in Founders
          /\ pc'[r] = "findUser" => r \in Registers
      BY <1>2 DEF IInv, TypeOK, StepsOfFounders, Founders, Step, Register,
         Bootstrap, Create, Proceed, FindRow, FindUser, FindSlug, InsertRow,
         InsertUser, InsertSlug, Commit, Fail, AfterRow, Goto, Requests
    <3> QED BY <3>1, <3>2 DEF IInv, StepsOfFounders
  <2>2. HeldByFounders'
    <3>1. ASSUME NEW n \in Names, NEW i \in Numbers, holder'[<<n, i>>] \in Requests
          PROVE  holder'[<<n, i>>] \in Founders
      <4>1. CASE holder'[<<n, i>>] # r
        BY <1>2, <3>1, <4>1, StepKeeps, KeysOf, Marks DEF IInv, HeldByFounders
      <4>2. CASE holder'[<<n, i>>] = r /\ holder[<<n, i>>] = r
        BY <1>2, <4>2 DEF IInv, HeldByFounders
      <4>3. CASE holder'[<<n, i>>] = r /\ holder[<<n, i>>] # r
        BY <1>2, <4>3, SlugIsInserted
      <4> QED BY <4>1, <4>2, <4>3
    <3> QED BY <3>1 DEF HeldByFounders
  <2>3. ASSUME NEW s \in Founders PROVE (RowsBehind(s) /\ SlugsBehind(s))'
    <3>1. CASE s = r BY <1>2, <3>1, RowsStep, SlugsStep
    <3>2. CASE s # r BY <1>2, <3>2, OthersKeep DEF IInv
    <3> QED BY <3>1, <3>2
  <2>4. SlugsHaveNoGaps'
    <3>1. ASSUME NEW n \in Names, NEW i \in Numbers, i > 1, holder'[<<n, i>>] = Kept
          PROVE  holder'[<<n, i - 1>>] = Kept
      <4>1. i - 1 \in Numbers /\ i - 1 < i
        BY <3>1, OnboardingConstants, FS_CardinalityType DEF Numbers
      <4>2. holder[<<n, i>>] \in {Kept, r}
        BY <1>2, <3>1, StepKeeps, KeysOf DEF IInv
      <4>3. holder[<<n, i - 1>>] = Kept
        <5>1. CASE holder[<<n, i>>] = Kept
          BY <3>1, <5>1 DEF IInv, SlugsHaveNoGaps
        <5>2. CASE holder[<<n, i>>] = r
          <6>1. r \in Founders
            BY <1>2, <5>2 DEF IInv, HeldByFounders
          <6>2. n = NameOf[r] /\ i = at[r] /\ pc[r] = "commit"
            BY <5>2, <6>1 DEF IInv, SlugsBehind
          <6> QED BY <4>1, <6>1, <6>2 DEF IInv, SlugsBehind
        <5> QED BY <4>2, <5>1, <5>2
      <4> QED BY <1>2, <4>1, <4>3, StepKeeps, KeysOf, Marks DEF IInv
    <3> QED BY <3>1 DEF SlugsHaveNoGaps
  <2> QED BY <1>1, <2>1, <2>2, <2>3, <2>4 DEF IInv
<1>3. CASE UNCHANGED vars
  BY <1>1, <1>3 DEF vars, IInv, StepsOfFounders, HeldByFounders, RowsBehind,
     SlugsBehind, SlugsHaveNoGaps, Sees
<1> QED BY <1>1, <1>2, <1>3 DEF Next, Step

\* A bootstrap or a new workspace that has been answered left every system
\* role, permission and grant committed, in whatever order the processes
\* create them (ensure_system_roles).
THEOREM RolesComplete == Spec => []RolesAreComplete
<1>1. IInv => RolesAreComplete
  BY DEF IInv, RowsBehind, RolesAreComplete
<1> QED BY <1>1, IInvInit, IInvStep, PTL DEF Spec

\* The committed slugs of a name are numbered without a gap, however many
\* requests count at the same time (WorkspaceRepository.create).
THEOREM SlugsStayDense == Spec => []SlugsHaveNoGaps
<1>1. IInv => SlugsHaveNoGaps
  BY DEF IInv
<1> QED BY <1>1, IInvInit, IInvStep, PTL DEF Spec
-----------------------------------------------------------------------------
\* The steps at which a bootstrap has inserted its account.
WithAccount == {"findSlug", "insertSlug", "commit"}

\* The account and the workspace that r makes are its own until it commits.
Holds(r) ==
  /\ r \in Bootstraps /\ pc[r] \in WithAccount => holder[EmailOf[r]] = r
  /\ r \in Registers /\ pc[r] = "commit" => holder[EmailOf[r]] = r
  /\ r \in Founders /\ pc[r] = "commit" => holder[<<NameOf[r], at[r]>>] = r
  /\ r \in Bootstraps /\ pc[r] = "done" => holder[EmailOf[r]] = Kept

\* r holds no other account, and system rows only to make a workspace.
HoldsNoMore(r) ==
  /\ \A e \in Emails :
       holder[e] = r => e = EmailOf[r] /\ r \notin Creators /\ pc[r] \in WithAccount
  /\ \A k \in SystemRows : holder[k] = r => r \in Founders

Taken(n) == {i \in Numbers : holder[<<n, i>>] = Kept}

Finished == {f \in Founders : pc[f] = "done"}

\* Every slug belongs to a founder that is done, so there is one left for r.
Counted == \A n \in Names : Cardinality(Taken(n)) <= Cardinality(Finished)

JInv ==
  /\ IInv /\ HoldersAreInside
  /\ \A r \in Requests :
       /\ Holds(r) /\ HoldsNoMore(r)
       /\ at[r] >= 1
       /\ pc[r] = "insertUser" => r \notin Creators
  /\ Counted

LEMMA NumbersAreFinite ==
  /\ Cardinality(Founders) \in Nat /\ Numbers \subseteq Nat
  /\ IsFiniteSet(Numbers) /\ Cardinality(Numbers) = Cardinality(Founders)
  /\ \A S \in SUBSET Numbers : IsFiniteSet(S) /\ Cardinality(S) \in Nat
  /\ \A S \in SUBSET Founders : IsFiniteSet(S) /\ Cardinality(S) \in Nat
<1>1. IsFiniteSet(Founders) /\ Cardinality(Founders) \in Nat
  BY OnboardingConstants, FS_CardinalityType
<1>2. IsFiniteSet(Numbers) /\ Cardinality(Numbers) = Cardinality(Founders)
  BY <1>1, FS_Interval DEF Numbers
<1>3. \A S \in SUBSET Numbers : IsFiniteSet(S) /\ Cardinality(S) \in Nat
  BY <1>2, FS_Subset, FS_CardinalityType
<1>4. \A S \in SUBSET Founders : IsFiniteSet(S) /\ Cardinality(S) \in Nat
  BY <1>1, FS_Subset, FS_CardinalityType
<1> QED BY <1>1, <1>2, <1>3, <1>4 DEF Numbers

\* The slug that a founder has counted to is one of the numbers: the lower ones
\* are taken, and the founder is not among those that are done.
LEMMA NumberIsThere ==
  ASSUME JInv, NEW r \in Founders,
         pc[r] \in {"insertUser", "findSlug", "insertSlug", "commit"}
  PROVE  at[r] \in Numbers /\ <<NameOf[r], at[r]>> \in Keys
<1>1. r \in Requests /\ NameOf[r] \in Names /\ at[r] \in Nat /\ at[r] >= 1
  BY FoundersAreRequests, KeysOf DEF JInv, IInv, TypeOK
<1>2. \A i \in Numbers : i < at[r] => i \in Taken(NameOf[r])
  BY <1>1 DEF JInv, IInv, SlugsBehind, Taken
<1>3. ASSUME at[r] > Cardinality(Founders) PROVE FALSE
  <2>1. Taken(NameOf[r]) = Numbers
    BY <1>1, <1>2, <1>3, NumbersAreFinite DEF Taken, Numbers
  <2>2. Cardinality(Founders) <= Cardinality(Finished)
    BY <1>1, <2>1, NumbersAreFinite DEF JInv, Counted
  <2>3. Finished \in SUBSET Founders /\ r \notin Finished
    BY DEF Finished
  <2>4. Cardinality(Finished) <= Cardinality(Founders)
    BY <2>3, OnboardingConstants, FS_Subset
  <2>5. Cardinality(Founders) = Cardinality(Finished)
    BY <2>2, <2>3, <2>4, NumbersAreFinite
  <2> QED BY <2>3, <2>5, OnboardingConstants, FS_Subset
<1>4. at[r] \in Numbers
  BY <1>1, <1>3, NumbersAreFinite DEF Numbers
<1> QED BY <1>1, <1>4, KeysOf

\* What a step of r does to the rows and to its own step.
LEMMA StepHolds ==
  ASSUME JInv, NEW r \in Requests, Step(r)
  PROVE  /\ Holds(r)' /\ HoldsNoMore(r)'
         /\ at'[r] >= 1
         /\ pc'[r] = "insertUser" => r \notin Creators
<1> DEFINE Good == /\ Holds(r)' /\ HoldsNoMore(r)'
                   /\ at'[r] >= 1
                   /\ pc'[r] = "insertUser" => r \notin Creators
<1>1. /\ TypeOK /\ Holds(r) /\ HoldsNoMore(r) /\ at[r] \in Nat /\ at[r] >= 1
      /\ pc[r] = "insertUser" => r \notin Creators
  BY DEF JInv, IInv, TypeOK
<1>2. /\ Emails \subseteq Keys /\ SystemRows \subseteq Keys
      /\ EmailOf[r] \in Emails /\ SystemRows \cap Emails = {}
  BY KeysOf, OnboardingConstants DEF Keys
<1>3. Registers \cap Founders = {} /\ Bootstraps \cap Creators = {} /\ Bootstraps \subseteq Founders
  BY OnboardingConstants DEF Founders
<1>4. CASE Register(r) \/ Bootstrap(r) \/ Create(r) \/ FindUser(r)
  <2>1. /\ UNCHANGED <<holder, at>> /\ pc[r] \in {"idle", "findUser"}
        /\ pc'[r] \in {"findUser", "findRow", "refused", "insertUser"}
        /\ pc'[r] = "insertUser" => pc[r] = "findUser"
    BY <1>1, <1>4 DEF Register, Bootstrap, Create, FindUser, Goto, TypeOK
  <2>2. pc[r] = "findUser" => r \notin Creators
    BY <1>3 DEF JInv, IInv, StepsOfFounders, Founders
  <2> QED BY <1>1, <2>1, <2>2 DEF Holds, HoldsNoMore, WithAccount
<1>5. ASSUME AfterRow(r, at[r]), pc[r] \in {"findRow", "insertRow"}
      PROVE  /\ pc'[r] \in {"findRow", "insertUser", "findSlug"} /\ at'[r] >= 1
             /\ pc'[r] = "insertUser" => r \in Bootstraps
             /\ pc'[r] = "findSlug" => r \notin Bootstraps
  BY <1>1, <1>5 DEF AfterRow, Goto, TypeOK
<1>6. CASE FindRow(r)
  <2>1. UNCHANGED holder /\ pc[r] = "findRow"
    BY <1>6 DEF FindRow
  <2>2. /\ pc'[r] \in {"findRow", "insertRow", "insertUser", "findSlug"} /\ at'[r] >= 1
        /\ pc'[r] = "insertUser" => r \in Bootstraps
        /\ pc'[r] = "findSlug" => r \notin Bootstraps
    BY <1>1, <1>5, <1>6 DEF FindRow, Goto, TypeOK
  <2> QED BY <1>1, <1>3, <2>1, <2>2 DEF Holds, HoldsNoMore, WithAccount
<1>7. CASE InsertRow(r)
  <2>1. pc[r] = "insertRow" /\ Insert(r) /\ AfterRow(r, at[r]) /\ KeyOf(r) = Order(r)[at[r]]
    BY <1>7 DEF InsertRow, KeyOf, Order
  <2>2. r \in Founders /\ KeyOf(r) \in SystemRows
    <3>1. r \in Founders
      BY <2>1 DEF JInv, IInv, StepsOfFounders
    <3>2. at[r] \in 1..Len(Order(r)) /\ Order(r) \in Seq(SystemRows)
      BY <2>1, <3>1, OnboardingConstants DEF JInv, IInv, RowsBehind, Order
    <3> QED BY <2>1, <3>1, <3>2
  <2>3. \A e \in Emails : holder'[e] = holder[e]
    BY <1>1, <1>2, <2>1, <2>2 DEF Insert, TypeOK
  <2> QED BY <1>1, <1>2, <1>3, <1>5, <2>1, <2>2, <2>3 DEF Holds, HoldsNoMore, WithAccount
<1>8. CASE InsertUser(r)
  <2>1. pc[r] = "insertUser" /\ Insert(r) /\ KeyOf(r) = EmailOf[r] /\ UNCHANGED at
    BY <1>8 DEF InsertUser, KeyOf
  <2>2. /\ pc'[r] \in {"commit", "findSlug"}
        /\ pc'[r] = "commit" => r \in Registers
    BY <1>1, <1>8 DEF InsertUser, Goto, TypeOK
  <2>3. /\ holder'[EmailOf[r]] = r
        /\ \A k \in Keys : k # EmailOf[r] => holder'[k] = holder[k]
    BY <1>1, <1>2, <2>1 DEF Insert, TypeOK
  <2> QED BY <1>1, <1>2, <1>3, <2>1, <2>2, <2>3 DEF Holds, HoldsNoMore, WithAccount
<1>9. CASE FindSlug(r)
  <2>1. /\ UNCHANGED holder /\ pc[r] = "findSlug" /\ at'[r] \in {at[r], at[r] + 1}
        /\ pc'[r] \in {"findSlug", "insertSlug"}
    BY <1>1, <1>9 DEF FindSlug, Goto, TypeOK
  <2> QED BY <1>1, <2>1 DEF Holds, HoldsNoMore, WithAccount
<1>10. CASE InsertSlug(r)
  <2>1. /\ pc[r] = "insertSlug" /\ Insert(r) /\ KeyOf(r) = <<NameOf[r], at[r]>>
        /\ UNCHANGED at /\ r \in Founders
    BY <1>10 DEF InsertSlug, KeyOf, JInv, IInv, StepsOfFounders
  <2>2. pc'[r] = "commit"
    BY <1>1, <1>10 DEF InsertSlug, Goto, TypeOK
  <2>3. KeyOf(r) \in Keys /\ KeyOf(r) \notin SystemRows \cup Emails
    <3>1. at[r] \in Numbers
      BY <2>1, NumberIsThere
    <3> QED BY <2>1, <3>1, KeysOf
  <2>4. /\ holder'[<<NameOf[r], at[r]>>] = r
        /\ \A k \in SystemRows \cup Emails : holder'[k] = holder[k]
    BY <1>1, <1>2, <2>1, <2>3 DEF Insert, TypeOK
  <2> QED BY <1>1, <1>2, <1>3, <2>1, <2>2, <2>4 DEF Holds, HoldsNoMore, WithAccount
<1>11. CASE Commit(r)
  <2>1. pc[r] = "commit" /\ pc'[r] = "done" /\ UNCHANGED at
    BY <1>1, <1>11 DEF Commit, Goto, TypeOK
  <2>2. \A k \in Keys : holder'[k] # r /\ (holder[k] = r => holder'[k] = Kept)
    BY <1>1, <1>11, Marks DEF Commit, TypeOK
  <2> QED BY <1>1, <1>2, <2>1, <2>2 DEF Holds, HoldsNoMore, WithAccount
<1>12. CASE Fail(r)
  <2>1. pc'[r] = "failed" /\ UNCHANGED at
    BY <1>1, <1>12 DEF Fail, Goto, TypeOK
  <2>2. \A k \in Keys : holder'[k] # r
    BY <1>1, <1>12, Marks DEF Fail, TypeOK
  <2> QED BY <1>1, <1>2, <2>1, <2>2 DEF Holds, HoldsNoMore, WithAccount
<1> QED BY <1>4, <1>6, <1>7, <1>8, <1>9, <1>10, <1>11, <1>12 DEF Step, Proceed

\* What another request does leaves what s holds alone.
LEMMA OthersHold ==
  ASSUME JInv, NEW r \in Requests, Step(r), NEW s \in Requests, s # r
  PROVE  /\ Holds(s)' /\ HoldsNoMore(s)'
         /\ at'[s] >= 1
         /\ pc'[s] = "insertUser" => s \notin Creators
<1>1. TypeOK /\ pc'[s] = pc[s] /\ at'[s] = at[s]
  BY StepKeeps DEF JInv, IInv
<1>2. \A k \in Keys :
        /\ holder[k] = Kept => holder'[k] = Kept
        /\ holder'[k] = s <=> holder[k] = s
  BY <1>1, StepKeeps, Marks
<1>3. Emails \subseteq Keys /\ SystemRows \subseteq Keys /\ EmailOf[s] \in Emails
  BY KeysOf DEF Keys
<1>4. s \in Founders /\ pc[s] = "commit" => <<NameOf[s], at[s]>> \in Keys
  BY NumberIsThere
<1>5. Holds(s) /\ HoldsNoMore(s) /\ at[s] >= 1 /\ (pc[s] = "insertUser" => s \notin Creators)
  BY DEF JInv
<1>6. Holds(s)'
  BY <1>1, <1>2, <1>3, <1>4, <1>5 DEF Holds
<1>7. HoldsNoMore(s)'
  BY <1>1, <1>2, <1>3, <1>5 DEF HoldsNoMore
<1> QED BY <1>1, <1>5, <1>6, <1>7

\* Only a commit adds committed rows.
LEMMA OnlyCommitsKeep ==
  ASSUME TypeOK, NEW r \in Requests, Step(r), ~Commit(r)
  PROVE  \A k \in Keys : holder'[k] = Kept <=> holder[k] = Kept
<1>1. \/ UNCHANGED holder
      \/ Insert(r)
      \/ Fail(r)
  BY DEF Step, Register, Bootstrap, Create, Proceed, FindRow, FindUser,
     FindSlug, InsertRow, InsertUser, InsertSlug
<1>2. CASE Insert(r)
  BY <1>2, Marks DEF TypeOK, Insert
<1>3. CASE Fail(r)
  BY <1>3, Marks DEF TypeOK, Fail
<1> QED BY <1>1, <1>2, <1>3

\* A founder's commit takes the slug that it has counted to, and no other; a
\* registration's takes none.
LEMMA CommitTakes ==
  ASSUME JInv, NEW r \in Requests, Commit(r)
  PROVE  /\ r \notin Founders => \A n \in Names : Taken(n)' = Taken(n)
         /\ r \in Founders =>
              /\ NameOf[r] \in Names /\ at[r] \in Numbers \ Taken(NameOf[r])
              /\ Taken(NameOf[r])' = Taken(NameOf[r]) \cup {at[r]}
              /\ \A n \in Names \ {NameOf[r]} : Taken(n)' = Taken(n)
<1>1. \A n \in Names, i \in Numbers :
        holder'[<<n, i>>] = Kept <=> holder[<<n, i>>] \in {Kept, r}
  BY KeysOf, Marks DEF Commit
<1>2. CASE r \notin Founders
  <2>1. \A n \in Names, i \in Numbers : holder[<<n, i>>] # r
    BY <1>2 DEF JInv, IInv, HeldByFounders
  <2> QED BY <1>1, <1>2, <2>1 DEF Taken
<1>3. CASE r \in Founders
  <2>1. pc[r] = "commit" /\ holder[<<NameOf[r], at[r]>>] = r /\ NameOf[r] \in Names
    BY <1>3, KeysOf DEF Commit, JInv, Holds
  <2>2. at[r] \in Numbers
    BY <1>3, <2>1, NumberIsThere
  <2>3. \A n \in Names, i \in Numbers :
          holder[<<n, i>>] = r => n = NameOf[r] /\ i = at[r]
    BY <1>3 DEF JInv, IInv, SlugsBehind
  <2> QED BY <1>1, <1>3, <2>1, <2>2, <2>3, Marks DEF Taken
<1> QED BY <1>2, <1>3

LEMMA CountedStep ==
  ASSUME JInv, NEW r \in Requests, Step(r)
  PROVE  Counted'
<1>1. TypeOK /\ Counted
  BY DEF JInv, IInv
<1>2. Finished \in SUBSET Founders /\ Finished' \in SUBSET Founders
  BY DEF Finished
<1>3. ASSUME NEW n \in Names
      PROVE  Taken(n) \in SUBSET Numbers /\ Taken(n)' \in SUBSET Numbers
  BY DEF Taken
<1>4. CASE ~Commit(r)
  <2>1. \A n \in Names : Taken(n)' = Taken(n)
    BY <1>1, <1>4, OnlyCommitsKeep, KeysOf DEF Taken
  <2>2. \A f \in Founders : pc[f] = "done" => pc'[f] = "done"
    <3>1. pc[r] # "done"
      BY DEF Step, Register, Bootstrap, Create, Proceed, FindRow, FindUser,
         FindSlug, InsertRow, InsertUser, InsertSlug, Commit, Fail, Inserting
    <3> QED BY <1>1, <3>1, StepKeeps, FoundersAreRequests
  <2>3. Finished \subseteq Finished'
    BY <2>2 DEF Finished
  <2>4. Cardinality(Finished) <= Cardinality(Finished') /\ IsFiniteSet(Finished')
    BY <1>2, <2>3, NumbersAreFinite, FS_Subset
  <2>5. ASSUME NEW n \in Names
        PROVE  Cardinality(Taken(n)') <= Cardinality(Finished')
    BY <1>1, <1>2, <1>3, <2>1, <2>4, NumbersAreFinite DEF Counted
  <2> QED BY <2>5 DEF Counted
<1>5. CASE Commit(r) /\ r \notin Founders
  <2>1. Finished' = Finished
    BY <1>1, <1>5 DEF Finished, Commit, Goto, TypeOK
  <2> QED BY <1>1, <1>5, <2>1, CommitTakes DEF Counted
<1>6. CASE Commit(r) /\ r \in Founders
  <2>1. Finished' = Finished \cup {r} /\ r \notin Finished
    BY <1>1, <1>6, FoundersAreRequests DEF Finished, Commit, Goto, TypeOK
  <2>2. Cardinality(Finished') = Cardinality(Finished) + 1
    BY <1>2, <2>1, NumbersAreFinite, FS_AddElement
  <2>3. ASSUME NEW n \in Names
        PROVE  Cardinality(Taken(n)') <= Cardinality(Finished')
    <3>1. Cardinality(Taken(n)) <= Cardinality(Finished)
      BY <1>1 DEF Counted
    <3>2. Cardinality(Taken(n)') <= Cardinality(Taken(n)) + 1
      <4>1. IsFiniteSet(Taken(n)) /\ Cardinality(Taken(n)) \in Nat
        BY <1>3, NumbersAreFinite
      <4>2. Taken(n)' = Taken(n) \/ Taken(n)' = Taken(n) \cup {at[r]}
        BY <1>6, CommitTakes
      <4> QED BY <4>1, <4>2, FS_AddElement
    <3>3. Cardinality(Taken(n)) \in Nat /\ Cardinality(Finished) \in Nat
          /\ Cardinality(Taken(n)') \in Nat
      BY <1>2, <1>3, NumbersAreFinite
    <3> QED BY <2>2, <3>1, <3>2, <3>3
  <2> QED BY <2>3 DEF Counted
<1> QED BY <1>4, <1>5, <1>6

LEMMA JInvInit == Init => JInv
<1>1. SUFFICES ASSUME Init PROVE JInv
  OBVIOUS
<1>2. IInv /\ HoldersAreInside
  BY <1>1, IInvInit
<1>3. \A r \in Requests : pc[r] = "idle" /\ at[r] = 1
  BY <1>1 DEF Init
<1>4. \A k \in Keys : holder[k] \notin Requests
  BY <1>1, Marks DEF Init
<1>5. \A r \in Requests : Holds(r) /\ HoldsNoMore(r)
  BY <1>3, <1>4 DEF Holds, HoldsNoMore, Keys, WithAccount
<1>6. Counted
  <2>1. \A n \in Names : Taken(n) = {}
    BY <1>1, KeysOf, Marks DEF Init, Taken
  <2>2. Cardinality(Finished) \in Nat
    BY NumbersAreFinite DEF Finished
  <2> QED BY <2>1, <2>2, FS_EmptySet DEF Counted
<1> QED BY <1>2, <1>3, <1>5, <1>6 DEF JInv

LEMMA JInvStep == JInv /\ [Next]_vars => JInv'
<1>1. SUFFICES ASSUME JInv, [Next]_vars PROVE JInv'
  OBVIOUS
<1>2. IInv' /\ HoldersAreInside'
  BY <1>1, IInvStep DEF JInv
<1>3. CASE UNCHANGED vars
  BY <1>1, <1>2, <1>3 DEF vars, JInv, Holds, HoldsNoMore, Counted, Taken, Finished
<1>4. ASSUME NEW r \in Requests, Step(r) PROVE JInv'
  <2>1. ASSUME NEW s \in Requests
        PROVE  /\ Holds(s)' /\ HoldsNoMore(s)' /\ at'[s] >= 1
               /\ pc'[s] = "insertUser" => s \notin Creators
    BY <1>1, <1>4, StepHolds, OthersHold
  <2> QED BY <1>1, <1>2, <1>4, <2>1, CountedStep DEF JInv
<1> QED BY <1>1, <1>3, <1>4 DEF Next, Step
-----------------------------------------------------------------------------
\* The accounts, the number of workspaces of a name, and the system roles, as
\* they are committed.
Users == {e \in Emails : holder[e] = Kept}
Count == [n \in Names |-> Cardinality(Taken(n))]
Roles == \A k \in SystemRows : holder[k] = Kept

LEMMA RecordedStutters ==
  ASSUME \A k \in Keys : holder'[k] = Kept <=> holder[k] = Kept
  PROVE  UNCHANGED <<Users, Count, Roles>>
<1>1. Users' = Users
  BY DEF Users, Keys
<1>2. \A n \in Names : Taken(n)' = Taken(n)
  BY KeysOf DEF Taken
<1>3. Count' = Count
  BY <1>2 DEF Count
<1>4. Roles' = Roles
  BY DEF Roles, Keys
<1> QED BY <1>1, <1>3, <1>4

\* A commit adds an account, a workspace or both.
LEMMA CommitRecords ==
  ASSUME JInv, NEW r \in Requests, Commit(r)
  PROVE  \/ \E e \in Emails : /\ e \notin Users /\ Users' = Users \cup {e}
                              /\ Count' = Count /\ Roles' = Roles
         \/ \E n \in Names : /\ Count' = [Count EXCEPT ![n] = @ + 1]
                             /\ Roles' = TRUE /\ Users' = Users
         \/ \E e \in Emails, n \in Names :
              /\ e \notin Users /\ Users' = Users \cup {e}
              /\ Count' = [Count EXCEPT ![n] = @ + 1] /\ Roles' = TRUE
<1>1. TypeOK /\ pc[r] = "commit" /\ Holds(r) /\ HoldsNoMore(r)
  BY DEF JInv, IInv, Commit
<1>2. \A k \in Keys : holder'[k] = Kept <=> holder[k] \in {Kept, r}
  BY Marks DEF Commit
<1>3. EmailOf[r] \in Emails /\ Emails \subseteq Keys /\ SystemRows \subseteq Keys
  BY KeysOf DEF Keys
<1>4. ASSUME holder[EmailOf[r]] = r
      PROVE  EmailOf[r] \notin Users /\ Users' = Users \cup {EmailOf[r]}
  BY <1>1, <1>2, <1>3, <1>4, Marks DEF Users, HoldsNoMore
<1>5. CASE r \in Registers
  <2>1. r \notin Founders /\ holder[EmailOf[r]] = r
    BY <1>1, <1>5, OnboardingConstants DEF Holds
  <2>2. Count' = Count
    BY <2>1, CommitTakes DEF Count
  <2>3. Roles' = Roles
    BY <1>1, <1>2, <1>3, <2>1 DEF Roles, HoldsNoMore
  <2> QED BY <1>3, <1>4, <2>1, <2>2, <2>3
<1>6. CASE r \in Founders
  <2>1. Roles' = TRUE
    <3>1. \A k \in SystemRows : Sees(r, k)
      BY <1>1, <1>6 DEF JInv, IInv, RowsBehind
    <3> QED BY <1>2, <1>3, <3>1 DEF Roles, Sees
  <2>2. Count' = [Count EXCEPT ![NameOf[r]] = @ + 1] /\ NameOf[r] \in Names
    <3>1. /\ NameOf[r] \in Names /\ at[r] \notin Taken(NameOf[r])
          /\ Taken(NameOf[r])' = Taken(NameOf[r]) \cup {at[r]}
          /\ \A n \in Names \ {NameOf[r]} : Taken(n)' = Taken(n)
      BY <1>6, CommitTakes
    <3>2. Taken(NameOf[r]) \in SUBSET Numbers
      BY DEF Taken
    <3>3. Cardinality(Taken(NameOf[r])') = Cardinality(Taken(NameOf[r])) + 1
      BY <3>1, <3>2, NumbersAreFinite, FS_AddElement
    <3> QED BY <3>1, <3>3 DEF Count
  <2>3. CASE r \in Bootstraps
    <3>1. holder[EmailOf[r]] = r
      BY <1>1, <2>3 DEF Holds, WithAccount
    <3> QED BY <1>3, <1>4, <2>1, <2>2, <3>1
  <2>4. CASE r \in Creators
    <3>1. \A e \in Emails : holder[e] # r
      BY <1>1, <2>4 DEF HoldsNoMore
    <3>2. Users' = Users
      BY <1>2, <1>3, <3>1 DEF Users
    <3> QED BY <2>1, <2>2, <3>2
  <2> QED BY <1>6, <2>3, <2>4 DEF Founders
<1> QED BY <1>5, <1>6 DEF Requests, Founders

\* What register_user, bootstrap_owner and create_workspace_for_user commit is
\* what a directory promises that does one of them at a time: every account is
\* added once, and every workspace gets the next number of its name, after the
\* system roles are complete.
THEOREM OnboardingImplementsDirectory == Spec => ImplementsDirectory
<1>0. /\ {e \in Emails : holder[e] = Kept} = Users
      /\ [n \in Names |-> Cardinality({i \in Numbers : holder[<<n, i>>] = Kept})] = Count
      /\ (\A k \in SystemRows : holder[k] = Kept) = Roles
  BY DEF Users, Count, Taken, Roles
<1>1. Init => Recorded!Init
  <2>1. SUFFICES ASSUME Init PROVE Recorded!Init
    OBVIOUS
  <2>2. \A n \in Names : Taken(n) = {}
    BY <2>1, KeysOf, Marks DEF Init, Taken
  <2>3. Count = [n \in Names |-> 0]
    BY <2>2, FS_EmptySet DEF Count
  <2> QED BY <1>0, <2>3 DEF Recorded!Init, Users, Roles
<1>2. JInv /\ [Next]_vars => [Recorded!Next]_(Recorded!vars)
  <2>1. SUFFICES ASSUME JInv, [Next]_vars PROVE [Recorded!Next]_(Recorded!vars)
    OBVIOUS
  <2>2. CASE UNCHANGED vars
    <3>1. UNCHANGED holder
      BY <2>2 DEF vars
    <3> QED BY <3>1 DEF Recorded!vars
  <2>3. ASSUME NEW r \in Requests, Step(r), ~Commit(r)
        PROVE  UNCHANGED (Recorded!vars)
    <3>1. UNCHANGED <<Users, Count, Roles>>
      BY <2>1, <2>3, OnlyCommitsKeep, RecordedStutters DEF JInv, IInv
    <3> QED BY <3>1 DEF Recorded!vars, Users, Count, Roles, Taken
  <2>4. ASSUME NEW r \in Requests, Commit(r) PROVE Recorded!Next
    BY <2>1, <2>4, CommitRecords
    DEF Recorded!Next, Recorded!AddUser, Recorded!AddWorkspace, Recorded!AddBoth,
        Users, Count, Roles, Taken
  <2> QED BY <2>1, <2>2, <2>3, <2>4 DEF Next, Step
<1> QED BY <1>1, <1>2, JInvInit, JInvStep, PTL DEF Spec, ImplementsDirectory, Recorded!Spec
-----------------------------------------------------------------------------
\* Two requests that are under way together know of each other.
Overlap ==
  \A r, s \in Requests : r # s /\ Begun(r) /\ Begun(s) => s \in rivals[r]

\* While r has met no other request, nothing comes between its looking for a
\* row and inserting it; a bootstrap, which asks for accounts when it begins,
\* finds none when it inserts its own.
Alone(r) ==
  rivals[r] = {} =>
    /\ pc[r] # "failed"
    /\ r \in Bootstraps /\ pc[r] \in {"findRow", "insertRow", "insertUser"} =>
         \A e \in Emails : holder[e] # Kept
    /\ pc[r] \in Inserting => holder[KeyOf(r)] = Free

RaceInv ==
  /\ JInv
  /\ Overlap
  /\ \A r \in Requests : Alone(r)

\* A request that inserts a row does so at a key of the table.
KeysAreThere == \A r \in Requests : pc[r] \in Inserting => KeyOf(r) \in Keys

LEMMA KeyIsThere == JInv => KeysAreThere
<1> SUFFICES ASSUME JInv, NEW r \in Requests, pc[r] \in Inserting
             PROVE  KeyOf(r) \in Keys
  BY DEF KeysAreThere
<1>1. CASE pc[r] = "insertRow"
  <2>1. r \in Founders /\ KeyOf(r) = Order(r)[at[r]]
    BY <1>1 DEF JInv, IInv, StepsOfFounders, KeyOf, Order
  <2>2. at[r] \in 1..Len(Order(r)) /\ Order(r) \in Seq(SystemRows)
    BY <1>1, <2>1, OnboardingConstants DEF JInv, IInv, RowsBehind, Order
  <2> QED BY <2>1, <2>2, KeysOf
<1>2. CASE pc[r] = "insertUser"
  BY <1>2, KeysOf DEF KeyOf, Keys
<1>3. CASE pc[r] = "insertSlug"
  <2>1. r \in Founders /\ KeyOf(r) = <<NameOf[r], at[r]>>
    BY <1>3 DEF JInv, IInv, StepsOfFounders, KeyOf
  <2> QED BY <1>3, <2>1, NumberIsThere
<1> QED BY <1>1, <1>2, <1>3 DEF Inserting

\* What a request alone does not see is free.
LEMMA UnseenIsFree ==
  ASSUME RaceInv, NEW r \in Requests, Begun(r), rivals[r] = {},
         NEW k \in Keys, ~Sees(r, k)
  PROVE  holder[k] = Free
<1>1. holder[k] \in Requests => Begun(holder[k]) /\ holder[k] \in Requests \ {r}
  BY DEF RaceInv, JInv, IInv, TypeOK, Sees
<1>2. holder[k] \notin Requests
  BY <1>1 DEF RaceInv, Overlap
<1> QED BY <1>2 DEF RaceInv, JInv, IInv, TypeOK, Sees

\* Who has met whom after a step.
LEMMA StepMeets ==
  ASSUME TypeOK, NEW r \in Requests, Step(r)
  PROVE  \/ /\ UNCHANGED rivals
            /\ \A s \in Requests : Begun(s)' => Begun(s)
            /\ pc[r] # "idle"
         \/ /\ Begin(r) /\ pc[r] = "idle" /\ UNCHANGED holder
            /\ r \in Bootstraps /\ Begun(r)' => \A e \in Emails : ~Sees(r, e)
            /\ pc'[r] \in {"findUser", "findRow", "refused"}
            /\ r \in Bootstraps => pc'[r] # "findUser"
<1>1. CASE Register(r) \/ Bootstrap(r) \/ Create(r)
  <2>1. Begin(r) /\ pc[r] = "idle" /\ UNCHANGED holder
    BY <1>1 DEF Register, Bootstrap, Create
  <2>2. pc'[r] \in {"findUser", "findRow", "refused"}
    BY <1>1 DEF Register, Bootstrap, Create, Goto, TypeOK
  <2>3. r \in Bootstraps => Bootstrap(r)
    BY <1>1, OnboardingConstants DEF Register, Create, Founders
  <2>4. r \in Bootstraps => pc'[r] = IF \E e \in Emails : Sees(r, e) THEN "refused" ELSE "findRow"
    BY <2>3 DEF Bootstrap, Goto, TypeOK
  <2> QED BY <2>1, <2>2, <2>4 DEF Begun, Ended
<1>2. CASE Proceed(r)
  <2>1. UNCHANGED rivals
    BY <1>2 DEF Proceed, FindRow, FindUser, FindSlug, InsertRow, InsertUser,
       InsertSlug, Commit, Fail
  <2>2. Begun(r) /\ pc[r] # "idle"
    BY <1>2 DEF Proceed, FindRow, FindUser, FindSlug, InsertRow, InsertUser,
       InsertSlug, Commit, Fail, Begun, Ended, Inserting
  <2>3. \A s \in Requests \ {r} : pc'[s] = pc[s]
    BY StepKeeps
  <2> QED BY <2>1, <2>2, <2>3 DEF Begun
<1> QED BY <1>1, <1>2 DEF Step

\* When r begins, the requests under way and r meet.
LEMMA BeginMeets ==
  ASSUME NEW r \in Requests, Begin(r), ~Begun(r)
  PROVE  /\ \A s, t \in Requests : t \in rivals[s] /\ s # r => t \in rivals'[s]
         /\ \A s \in Requests \ {r} : Begun(s) => s \in rivals'[r] /\ r \in rivals'[s]
BY DEF Begin, Begun

LEMMA OverlapStep ==
  ASSUME RaceInv, NEW r \in Requests, Step(r)
  PROVE  Overlap'
<1>1. TypeOK /\ Overlap
  BY DEF RaceInv, JInv, IInv
<1>2. \A s \in Requests \ {r} : pc'[s] = pc[s] /\ (Begun(s)' <=> Begun(s))
  BY <1>1, StepKeeps DEF Begun
<1>3. CASE UNCHANGED rivals /\ \A s \in Requests : Begun(s)' => Begun(s)
  BY <1>1, <1>3 DEF Overlap
<1>4. CASE /\ Begin(r) /\ pc[r] = "idle" /\ UNCHANGED holder
           /\ r \in Bootstraps /\ Begun(r)' => \A e \in Emails : ~Sees(r, e)
           /\ pc'[r] \in {"findUser", "findRow", "refused"}
  <2>1. ~Begun(r)
    BY <1>4 DEF Begun
  <2>2. /\ \A s, t \in Requests : t \in rivals[s] /\ s # r => t \in rivals'[s]
        /\ \A s \in Requests \ {r} : Begun(s) => s \in rivals'[r] /\ r \in rivals'[s]
    BY <1>4, <2>1, BeginMeets
  <2> QED BY <1>1, <1>2, <2>2 DEF Overlap
<1> QED BY <1>1, <1>3, <1>4, StepMeets

\* A request without rivals is not disturbed by another's step: there is none.
LEMMA OthersLeaveAlone ==
  ASSUME RaceInv, NEW r \in Requests, Step(r), NEW s \in Requests, s # r
  PROVE  Alone(s)'
<1>1. TypeOK /\ Alone(s) /\ pc'[s] = pc[s] /\ at'[s] = at[s]
  BY StepKeeps DEF RaceInv, JInv, IInv
<1>2. SUFFICES ASSUME rivals'[s] = {} PROVE Alone(s)'
  BY DEF Alone
<1>3. KeyOf(s)' = KeyOf(s)
  BY <1>1 DEF KeyOf
<1>4. CASE ~Begun(s)
  <2>1. pc[s] # "failed" \/ rivals[s] # {}
    BY <1>1 DEF Alone
  <2>2. rivals'[s] = rivals[s]
    BY <1>4, StepMeets, <1>1 DEF Begin, TypeOK
  <2> QED BY <1>1, <1>4, <2>1, <2>2 DEF Alone, Begun, Ended, Inserting
<1>5. CASE Begun(s)
  <2>1. UNCHANGED rivals /\ (Begun(r)' => Begun(r)) /\ pc[r] # "idle"
    BY <1>1, <1>2, <1>5, StepMeets, BeginMeets DEF Begun
  <2>2. ~Begun(r)
    BY <1>2, <1>5, <2>1 DEF RaceInv, Overlap
  <2>3. FALSE
    BY <2>1, <2>2 DEF Step, Register, Bootstrap, Create, Proceed, FindRow, FindUser,
       FindSlug, InsertRow, InsertUser, InsertSlug, Commit, Fail, Begun, Ended, Inserting
  <2> QED BY <2>3
<1> QED BY <1>4, <1>5

\* A request without rivals finds free what it has not seen.
LEMMA StaysAlone ==
  ASSUME RaceInv, NEW r \in Requests, Step(r)
  PROVE  Alone(r)'
<1>1. TypeOK /\ Alone(r) /\ JInv /\ JInv'
  BY JInvStep DEF RaceInv, JInv, IInv, Next, Step
<1>2. SUFFICES ASSUME rivals'[r] = {} PROVE Alone(r)'
  BY DEF Alone
<1>3. CASE /\ Begin(r) /\ pc[r] = "idle" /\ UNCHANGED holder
           /\ r \in Bootstraps /\ Begun(r)' => \A e \in Emails : ~Sees(r, e)
           /\ pc'[r] \in {"findUser", "findRow", "refused"}
  <2>1. r \in Bootstraps /\ pc'[r] = "findRow" => \A e \in Emails : holder'[e] # Kept
    BY <1>3 DEF Begun, Ended, Sees
  <2> QED BY <1>3, <2>1 DEF Alone, Inserting
<1>4. CASE UNCHANGED rivals /\ pc[r] # "idle"
  <2>1. rivals[r] = {} /\ Proceed(r) /\ Begun(r)
    BY <1>2, <1>4 DEF Step, Register, Bootstrap, Create, Proceed, FindRow, FindUser,
       FindSlug, InsertRow, InsertUser, InsertSlug, Commit, Fail, Begun, Ended, Inserting
  <2>2. ~Fail(r)
    <3>1. SUFFICES ASSUME Fail(r) PROVE FALSE
      OBVIOUS
    <3>2. pc[r] \in Inserting /\ holder[KeyOf(r)] = Free
      BY <1>1, <2>1, <3>1 DEF Fail, Alone
    <3>3. Stuck(r)
      BY <3>1, <3>2, Marks DEF Fail
    <3>4. PICK t \in Requests : WaitsFor(r, t)
      BY <3>3 DEF Stuck
    <3> QED BY <3>2, <3>4, Marks DEF WaitsFor
  \* A bootstrap goes on finding no account.
  <2>3. ASSUME FindRow(r) \/ InsertRow(r), r \in Bootstraps
        PROVE  \A e \in Emails : holder[e] # Kept /\ holder'[e] # Kept
    <3>1. ~Commit(r) /\ pc[r] \in {"findRow", "insertRow"}
      BY <2>3 DEF Commit, FindRow, InsertRow
    <3>2. \A e \in Emails : holder[e] # Kept
      BY <1>1, <2>1, <2>3, <3>1 DEF Alone
    <3> QED BY <1>1, <3>1, <3>2, OnlyCommitsKeep DEF Keys
  \* The key of the row that r turns to is free.
  <2>4. ASSUME pc'[r] \in Inserting PROVE holder'[KeyOf(r)'] = Free
    <3>1. KeysAreThere'
      BY <1>1, KeyIsThere, PTL
    <3>2. KeyOf(r)' \in Keys
      BY <2>4, <3>1 DEF KeysAreThere
    <3>3. ASSUME UNCHANGED holder, KeyOf(r)' = KeyOf(r), ~Sees(r, KeyOf(r))
          PROVE  holder'[KeyOf(r)'] = Free
      BY <2>1, <3>2, <3>3, UnseenIsFree
    <3>4. CASE FindUser(r) \/ FindSlug(r) \/ (FindRow(r) /\ ~Sees(r, KeyOf(r)))
      <4>1. UNCHANGED holder /\ ~Sees(r, KeyOf(r))
        BY <1>1, <2>4, <3>4 DEF FindUser, FindSlug, FindRow, Goto, TypeOK, Inserting
      <4>2. /\ UNCHANGED at
            /\ \/ pc[r] = "findUser" /\ pc'[r] = "insertUser"
               \/ pc[r] = "findSlug" /\ pc'[r] = "insertSlug"
               \/ pc[r] = "findRow" /\ pc'[r] = "insertRow"
        BY <1>1, <2>4, <3>4 DEF FindUser, FindSlug, FindRow, Goto, TypeOK, Inserting
      <4>3. KeyOf(r)' = KeyOf(r)
        BY <4>2 DEF KeyOf
      <4> QED BY <3>3, <4>1, <4>3
    <3>5. CASE (FindRow(r) /\ Sees(r, KeyOf(r))) \/ InsertRow(r)
      <4>1. AfterRow(r, at[r]) /\ pc[r] \in {"findRow", "insertRow"}
        BY <3>5 DEF FindRow, InsertRow
      <4>2. pc'[r] = "insertUser" /\ r \in Bootstraps
        BY <1>1, <2>4, <4>1 DEF AfterRow, Goto, TypeOK, Inserting
      <4>3. KeyOf(r)' = EmailOf[r] /\ EmailOf[r] \in Emails /\ EmailOf[r] \in Keys
        BY <4>2, KeysOf DEF KeyOf, Keys
      <4>4. holder[EmailOf[r]] # r
        BY <1>1, <4>1, <4>3 DEF JInv, HoldsNoMore, WithAccount
      <4>5. holder[EmailOf[r]] = Free
        BY <2>1, <2>3, <3>5, <4>2, <4>3, <4>4, UnseenIsFree DEF Sees
      <4>6. holder'[EmailOf[r]] \in {Free, r, Kept}
        BY <1>1, <4>3, <4>5, StepKeeps
      <4>7. holder'[EmailOf[r]] # r
        BY <1>1, <4>2, <4>3 DEF JInv, HoldsNoMore, WithAccount
      <4> QED BY <2>3, <3>5, <4>2, <4>3, <4>6, <4>7
    <3>6. ~InsertUser(r) /\ ~InsertSlug(r) /\ ~Commit(r)
      BY <1>1, <2>4 DEF InsertUser, InsertSlug, Commit, Goto, TypeOK, Inserting
    <3> QED BY <2>1, <2>2, <3>4, <3>5, <3>6 DEF Proceed
  <2>5. pc'[r] # "failed"
    BY <1>1, <2>1, <2>2 DEF Proceed, FindRow, FindUser, FindSlug, InsertRow,
       InsertUser, InsertSlug, AfterRow, Commit, Goto, TypeOK
  <2>6. ASSUME r \in Bootstraps, pc'[r] \in {"findRow", "insertRow", "insertUser"}
        PROVE  \A e \in Emails : holder'[e] # Kept
    <3>1. ~FindUser(r)
      BY <1>1, <2>6, OnboardingConstants DEF JInv, IInv, StepsOfFounders, FindUser, Founders
    <3>2. FindRow(r) \/ InsertRow(r)
      BY <1>1, <2>1, <2>2, <2>6, <3>1 DEF Proceed, FindSlug, InsertUser,
         InsertSlug, Commit, Goto, TypeOK
    <3> QED BY <2>3, <2>6, <3>2
  <2> QED BY <2>4, <2>5, <2>6 DEF Alone
<1> QED BY <1>1, <1>3, <1>4, StepMeets

LEMMA RaceInvInit == Init => RaceInv
<1>1. SUFFICES ASSUME Init PROVE RaceInv
  OBVIOUS
<1>2. \A r \in Requests : pc[r] = "idle"
  BY <1>1 DEF Init
<1> QED BY <1>1, <1>2, JInvInit DEF RaceInv, Overlap, Alone,
      Begun, Inserting, Requests, Founders

LEMMA RaceInvStep == RaceInv /\ [Next]_vars => RaceInv'
<1>1. SUFFICES ASSUME RaceInv, [Next]_vars PROVE RaceInv'
  OBVIOUS
<1>2. JInv'
  BY <1>1, JInvStep DEF RaceInv
<1>3. CASE UNCHANGED vars
  BY <1>1, <1>2, <1>3 DEF vars, RaceInv, Overlap, Alone, Begun, KeyOf
<1>4. ASSUME NEW r \in Requests, Step(r) PROVE RaceInv'
  <2>1. \A s \in Requests : Alone(s)'
    BY <1>1, <1>4, StaysAlone, OthersLeaveAlone
  <2> QED BY <1>1, <1>2, <1>4, <2>1, OverlapStep DEF RaceInv
<1> QED BY <1>1, <1>3, <1>4 DEF Next, Step

\* A registration, bootstrap or creation that no other request has overlapped
\* is never answered with status 500: each row it inserts is one that it has
\* just looked for, or that its check at the beginning rules out
\* (register_user, bootstrap_owner, create_workspace_for_user).
THEOREM FailuresAreRaces == Spec => []OnlyRacesFail
<1>1. RaceInv => OnlyRacesFail
  BY DEF RaceInv, Alone, OnlyRacesFail
<1> QED BY <1>1, RaceInvInit, RaceInvStep, PTL DEF Spec
=============================================================================
