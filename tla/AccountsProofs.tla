--------------------------- MODULE AccountsProofs ---------------------------
(***************************************************************************)
(* Proofs about the accounts and the conversations that MCAccounts puts    *)
(* side by side: one account for a phone or an e-mail and none signed in   *)
(* that is blocked (Session), an approved driver who has one active vehicle*)
(* (DriverAccount), chats referred to that are open (Chat), and messages   *)
(* marked as read that were sent (Messages).  Every theorem is about       *)
(* WorldSpec, the specification TLC runs.                                  *)
(***************************************************************************)
EXTENDS MCAccounts, SumProofs, FiniteSetTheorems, WellFoundedInduction, TLAPS

-----------------------------------------------------------------------------
(***************************************************************************)
(* Session: who holds a phone or an e-mail, who is signed in, and who is   *)
(* blocked.                                                                *)
(***************************************************************************)

AccountType ==
    [state : {"none", "live", "deleted"}, phone : Phones \cup {None},
     email : Emails \cup {None}, blocked : BOOLEAN, codes : SUBSET S!Fields,
     temp : [phone : Phones \cup {None}, email : Emails \cup {None}]]

\* What a request carries at each of its steps.
JobOK(j) ==
    /\ j.val \in S!Contacts(j.kind) \cup {None}
    /\ j.pc \in {"temp", "take"} => j.kind = "phone"
    /\ j.pc \in {"temp", "take", "create", "edit"} => j.val \in S!Contacts(j.kind)
    /\ j.pc \in {"take", "device", "login", "session", "edit", "edited"} => j.user \in Users
    /\ j.pc \in {"idle", "temp", "create"} => j.user = None
    /\ j.pc = "take" => j.val \in contested
    /\ j.mail # None => j.pc \in {"create", "temp", "take", "login", "session"}

\* Who is signed in, named by a request or being blocked has an account; who has none is not blocked.
KnownInv ==
    /\ \A d \in Devices :
          JobOK(job[d]) /\ (job[d].user # None => account[job[d].user].state # "none")
    /\ \A s \in sessions : account[s.user].state # "none"
    /\ \A u \in Users : account[u].state = "none" => ~account[u].blocked
    /\ block # None => account[block].state # "none"

\* The account u has v, has it kept aside, or is asking for it.
HeldBy(f, v, u) ==
    /\ account[u].state = "live"
    /\ \/ account[u][f] = v
       \/ account[u].temp[f] = v
       \/ \E d \in Devices :
             /\ job[d].pc \in {"edit", "edited"} /\ job[d].user = u
             /\ job[d].kind = f /\ job[d].val = v

\* An account with v is being made on d.
MadeBy(f, v, d) ==
    \/ job[d].pc \in {"temp", "take", "create"} /\ job[d].kind = f /\ job[d].val = v
    \/ f = "email" /\ job[d].mail = v

\* What is not contested has one owner, an account or a sign-up.
OwnerInv ==
    \A f \in S!Fields : \A v \in S!Contacts(f) \ contested :
       /\ \A u, w \in Users : HeldBy(f, v, u) /\ HeldBy(f, v, w) => u = w
       /\ \A d, e \in Devices : MadeBy(f, v, d) /\ MadeBy(f, v, e) => d = e
       /\ \A u \in Users, d \in Devices : ~(HeldBy(f, v, u) /\ MadeBy(f, v, d))

\* One device signs in to an account at a time, after its sessions are gone.
EntryInv ==
    \A u \in Users \ doubled :
       /\ \A d, e \in Devices : S!SigningIn(d, u) /\ S!SigningIn(e, u) => d = e
       /\ \A d \in Devices :
             job[d].pc \in {"device", "session"} /\ job[d].user = u => S!Rows(u) = {}
       /\ \A s, t \in S!Rows(u) : s = t

Out(u) ==
    /\ u \notin late /\ account[u].blocked
    /\ account[u].phone \notin contested /\ account[u].email \notin contested

\* Who is blocked has no session, no request, no phone on its way, and no token of a code
\* for his phone is left, nor can one be asked for.
NoWayIn(u) ==
    /\ S!Rows(u) = {}
    /\ \A d \in Devices : job[d].user # u
    /\ account[u].temp.phone \in {None, account[u].phone}
    /\ account[u].state = "live" =>
          \A d \in Devices : \A t \in token[d] : t.phone # account[u].phone
    /\ account[u].state = "live" /\ account[u].phone # None =>
          \A w \in Users \ {u} :
             account[w].state = "deleted" => account[w].phone # account[u].phone

OutInv ==
    /\ block # None /\ block \notin late => S!Rows(block) = {}
    /\ \A u \in Users : Out(u) => NoWayIn(u)

SessionInv == S!TypeOK /\ KnownInv /\ OwnerInv /\ EntryInv /\ OutInv

LEMMA SessionInit == WorldInit => SessionInv
  <1>. SUFFICES ASSUME S!Init PROVE SessionInv
    BY DEF WorldInit
  <1>. USE SessionAssumption
  <1>0. S!NoAccount \in AccountType /\ S!Idle \in S!Jobs
    BY DEF S!NoAccount, S!Idle, AccountType, S!Jobs, S!Fields
  <1>1. /\ \A u \in Users : account[u] = S!NoAccount
        /\ \A d \in Devices : job[d] = S!Idle
        /\ sessions = {} /\ block = None
    BY DEF S!Init
  <1>2. S!TypeOK
    BY <1>0 DEF S!Init, S!TypeOK, AccountType
  <1>3. KnownInv
    <2>1. JobOK(S!Idle)
      BY DEF JobOK, S!Idle
    <2>. QED  BY <1>1, <2>1 DEF KnownInv, JobOK, S!Idle, S!NoAccount
  <1>4. OwnerInv
    <2>1. ASSUME NEW f \in S!Fields, NEW v \in S!Contacts(f) PROVE v # None
      BY <2>1 DEF S!Fields, S!Contacts
    <2>2. ASSUME NEW f \in S!Fields, NEW v \in S!Contacts(f), NEW u \in Users
          PROVE  ~HeldBy(f, v, u)
      BY <1>1, <2>2 DEF HeldBy, S!NoAccount
    <2>3. ASSUME NEW f \in S!Fields, NEW v \in S!Contacts(f), NEW d \in Devices
          PROVE  ~MadeBy(f, v, d)
      BY <1>1, <2>1, <2>3 DEF MadeBy, S!Idle
    <2>. QED  BY <2>2, <2>3 DEF OwnerInv
  <1>5. EntryInv
    BY <1>1 DEF EntryInv, S!Idle, S!Rows, S!SigningIn
  <1>6. OutInv
    BY <1>1 DEF OutInv, NoWayIn, Out, S!NoAccount
  <1>. QED  BY <1>2, <1>3, <1>4, <1>5, <1>6 DEF SessionInv

LEMMA SessionStep == [WorldNext]_WorldVars => [S!Next]_(S!vars)
  BY DEF WorldNext, WorldVars, StillSession, S!vars

\* The first of a set of accounts, when there is one.
LEMMA FirstOf ==
  ASSUME NEW X \in SUBSET Users
  PROVE  IF X = {} THEN S!First(X) = None ELSE S!First(X) \in X /\ S!First(X) # None
  <1>1. CASE X = {}
    BY <1>1 DEF S!First
  <1>2. CASE X # {}
    <2>1. X \in SUBSET Nat
      BY SessionAssumption
    <2>2. \E x \in X : \A y \in X : x <= y
      BY <1>2, <2>1, NatMin
    <2>3. S!Min(X) \in X
      BY <2>2 DEF S!Min
    <2>. QED  BY <1>2, <2>3, SessionAssumption DEF S!First
  <1>. QED  BY <1>1, <1>2

\* What a request goes on with.
LEMMA JobSet ==
  ASSUME S!TypeOK, NEW d \in Devices, NEW j \in S!Jobs, job' = [job EXCEPT ![d] = j]
  PROVE  job' \in [Devices -> S!Jobs] /\ job'[d] = j /\ \A e \in Devices \ {d} : job'[e] = job[e]
  BY DEF S!TypeOK

\* A request moves, and no account is taken back.
LEMMA KnownMove ==
  ASSUME S!TypeOK, KnownInv, block' \in {block, None}, contested \subseteq contested',
         NEW d \in Devices, NEW j, JobOK(j)', job'[d] = j,
         \A e \in Devices \ {d} : job'[e] = job[e],
         j.user # None => account'[j.user].state # "none",
         \A u \in Users : account'[u].state = "none" => account[u].state = "none",
         \A u \in Users : account'[u].state = "none" => ~account'[u].blocked,
         \A s \in sessions' : s \in sessions \/ account'[s.user].state # "none"
  PROVE  KnownInv'
  <1>0. /\ \A s \in sessions : s.user \in Users
        /\ \A e \in Devices : job[e].user \in Users \cup {None}
        /\ block \in Users \cup {None}
    BY DEF S!TypeOK, S!Jobs
  <1>1. ASSUME NEW e \in Devices
        PROVE  JobOK(job[e])' /\ (job'[e].user # None => account'[job'[e].user].state # "none")
    <2>1. CASE e = d
      BY <2>1 DEF JobOK
    <2>2. CASE e # d
      BY <1>0, <2>2 DEF KnownInv, JobOK
    <2>. QED  BY <2>1, <2>2
  <1>. QED  BY <1>0, <1>1 DEF KnownInv

\* Nobody moves, and no account is taken back.
LEMMA KnownStay ==
  ASSUME S!TypeOK, KnownInv, block' \in {block, None}, contested' = contested, UNCHANGED job,
         \A u \in Users : account'[u].state = "none" => account[u].state = "none",
         \A u \in Users : account'[u].state = "none" => ~account'[u].blocked,
         \A s \in sessions' : s \in sessions \/ account'[s.user].state # "none"
  PROVE  KnownInv'
  <1>0. /\ \A s \in sessions : s.user \in Users
        /\ \A e \in Devices : job[e].user \in Users \cup {None}
        /\ block \in Users \cup {None}
    BY DEF S!TypeOK, S!Jobs
  <1>. QED  BY <1>0 DEF KnownInv, JobOK

\* Nothing is claimed.
LEMMA OwnerStay ==
  ASSUME OwnerInv, contested \subseteq contested',
         \A f \in S!Fields : \A v \in S!Contacts(f) \ contested' :
            /\ \A u \in Users : HeldBy(f, v, u)' => HeldBy(f, v, u)
            /\ \A d \in Devices : MadeBy(f, v, d)' => MadeBy(f, v, d)
  PROVE  OwnerInv'
  <1>. SUFFICES ASSUME NEW f \in S!Fields, NEW v \in S!Contacts(f) \ contested'
                PROVE  /\ \A u, w \in Users : HeldBy(f, v, u)' /\ HeldBy(f, v, w)' => u = w
                       /\ \A d, e \in Devices : MadeBy(f, v, d)' /\ MadeBy(f, v, e)' => d = e
                       /\ \A u \in Users, d \in Devices : ~(HeldBy(f, v, u)' /\ MadeBy(f, v, d)')
    BY DEF OwnerInv, S!Contacts
  <1>. QED  BY DEF OwnerInv

\* Nobody begins to sign in.
LEMMA EntryStay ==
  ASSUME EntryInv, doubled \subseteq doubled', sessions' \subseteq sessions,
         \A e \in Devices : \A u \in Users \ doubled' :
            /\ S!SigningIn(e, u)' => S!SigningIn(e, u)
            /\ job'[e].pc \in {"device", "session"} /\ job'[e].user = u =>
                  \/ job[e].pc \in {"device", "session"} /\ job[e].user = u
                  \/ S!Rows(u)' = {}
  PROVE  EntryInv'
  <1>1. \A u : S!Rows(u)' \subseteq S!Rows(u)
    BY DEF S!Rows
  <1>. QED  BY <1>1 DEF EntryInv

\* A device begins to sign in to the account u.
LEMMA EntryEnter ==
  ASSUME EntryInv, UNCHANGED sessions, NEW d \in Devices, NEW u \in Users, S!Enter(d, u),
         ~(job[d].pc \in {"device", "session", "login"}),
         job'[d].pc = "login", job'[d].user = u,
         \A e \in Devices \ {d} : job'[e] = job[e]
  PROVE  EntryInv'
  <1>1. \A w : S!Rows(w)' = S!Rows(w)
    BY DEF S!Rows
  <1>2. doubled \subseteq doubled'
    BY DEF S!Enter
  <1>3. ASSUME NEW w \in Users \ doubled'
        PROVE  /\ \A b, e \in Devices : S!SigningIn(b, w)' /\ S!SigningIn(e, w)' => b = e
               /\ \A e \in Devices :
                     job'[e].pc \in {"device", "session"} /\ job'[e].user = w => S!Rows(w)' = {}
               /\ \A s, t \in S!Rows(w)' : s = t
    <2>1. CASE w = u
      <3>1. \A e \in Devices \ {d} : ~S!SigningIn(e, u)
        BY <1>3, <2>1 DEF S!Enter
      <3>. QED  BY <1>1, <1>2, <2>1, <3>1 DEF EntryInv, S!SigningIn
    <2>2. CASE w # u
      BY <1>1, <1>2, <2>2 DEF EntryInv, S!SigningIn
    <2>. QED  BY <2>1, <2>2
  <1>. QED  BY <1>3 DEF EntryInv

\* A request moves, and its account is not blocked.
LEMMA OutMove ==
  ASSUME OutInv, UNCHANGED <<account, token, block>>, sessions' \subseteq sessions,
         late \subseteq late', contested \subseteq contested',
         NEW d \in Devices, NEW j, job'[d] = j, \A e \in Devices \ {d} : job'[e] = job[e],
         \A u \in Users : Out(u) /\ Out(u)' => j.user # u
  PROVE  OutInv'
  <1>1. \A u : S!Rows(u)' \subseteq S!Rows(u)
    BY DEF S!Rows
  <1>2. \A u \in Users : Out(u)' => Out(u)
    BY DEF Out
  <1>3. \A u \in Users : Out(u)' => \A e \in Devices : job'[e].user # u
    BY <1>2 DEF OutInv, NoWayIn
  <1>4. block' # None /\ block' \notin late' => S!Rows(block)' = {}
    BY <1>1 DEF OutInv, NoWayIn, S!Rows
  <1>. QED  BY <1>1, <1>2, <1>3, <1>4 DEF OutInv, NoWayIn

\* The account w changes, or what is under way for it: who else is blocked stays out.
LEMMA OutOthers ==
  ASSUME OutInv, UNCHANGED token, NEW w \in Users,
         \A x \in Users \ {w} : account'[x] = account[x],
         late \subseteq late' \cup {w}, contested \subseteq contested',
         \A x \in Users \ {w} : S!Rows(x)' \subseteq S!Rows(x),
         \A e \in Devices : job'[e].user \in {job[e].user, w, None},
         \A x \in Users \ {w} :
            /\ Out(x) /\ Out(x)' /\ account[x].state = "live" /\ account[x].phone # None
            /\ account'[w].state = "deleted"
            => account'[w].phone # account[x].phone
  PROVE  \A x \in Users \ {w} : Out(x)' => NoWayIn(x)'
  <1>. SUFFICES ASSUME NEW x \in Users \ {w}, Out(x)' PROVE NoWayIn(x)'
    OBVIOUS
  <1>1. Out(x) /\ NoWayIn(x) /\ account'[x] = account[x] /\ x # None
    BY SessionAssumption DEF Out, OutInv, NoWayIn
  <1>2. S!Rows(x)' = {}
    BY <1>1 DEF NoWayIn
  <1>3. \A e \in Devices : job'[e].user # x
    BY <1>1 DEF NoWayIn
  <1>4. account'[x].state = "live" =>
          \A e \in Devices : \A y \in token'[e] : y.phone # account'[x].phone
    BY <1>1 DEF NoWayIn
  <1>5. account'[x].state = "live" /\ account'[x].phone # None =>
          \A y \in Users \ {x} : account'[y].state = "deleted" => account'[y].phone # account'[x].phone
    BY <1>1 DEF NoWayIn
  <1>. QED  BY <1>1, <1>2, <1>3, <1>4, <1>5 DEF NoWayIn

\* What every step keeps but for the accounts, the requests and the sessions.
LEMMA TypeKept ==
  ASSUME S!TypeOK, UNCHANGED <<scope, token>>, asked' = asked \/ (asked < MaxRequests /\ asked' = asked + 1),
         block' \in Users \cup {None}, contested' \subseteq Phones \cup Emails,
         doubled' \subseteq Users, late' \subseteq Users,
         account' \in [Users -> AccountType], job' \in [Devices -> S!Jobs],
         sessions' \subseteq [user : Users, by : Devices, fcm : Devices, no : 1 .. 2]
  PROVE  S!TypeOK'
  BY SessionAssumption DEF S!TypeOK, AccountType

\* The steps of a request that change neither accounts nor sessions: what the request
\* goes on with, and what it claims.
LEMMA JobStep ==
  ASSUME SessionInv, NEW d \in Devices, NEW j \in S!Jobs, job' = [job EXCEPT ![d] = j],
         asked' = asked \/ (asked < MaxRequests /\ asked' = asked + 1),
         UNCHANGED <<scope, account, sessions, token, block>>,
         JobOK(j)', j.user # None => account[j.user].state # "none",
         contested \subseteq contested', contested' \subseteq Phones \cup Emails,
         doubled \subseteq doubled', doubled' \subseteq Users,
         late \subseteq late', late' \subseteq Users,
         OwnerInv', EntryInv',
         \A u \in Users : Out(u) /\ Out(u)' => j.user # u
  PROVE  SessionInv'
  <1>0. /\ job' \in [Devices -> S!Jobs] /\ job'[d] = j
        /\ \A e \in Devices \ {d} : job'[e] = job[e]
    BY JobSet DEF SessionInv
  <1>1. S!TypeOK'
    BY <1>0, TypeKept DEF SessionInv, S!TypeOK, AccountType
  <1>2. KnownInv'
    <2>1. KnownInv /\ S!TypeOK
      BY DEF SessionInv
    <2>2. \A u : account'[u].state = "none" => account[u].state = "none"
      OBVIOUS
    <2>3. \A u \in Users : account'[u].state = "none" => ~account'[u].blocked
      BY <2>1 DEF KnownInv
    <2>. QED  BY <1>0, <2>1, <2>2, <2>3, KnownMove
  <1>3. OutInv'
    BY <1>0, OutMove DEF SessionInv
  <1>. QED  BY <1>1, <1>2, <1>3 DEF SessionInv

\* A request claims nothing new.
LEMMA OwnerJob ==
  ASSUME OwnerInv, UNCHANGED account, contested \subseteq contested',
         NEW d \in Devices, NEW j, job'[d] = j, \A e \in Devices \ {d} : job'[e] = job[e],
         \A f \in S!Fields : \A v \in S!Contacts(f) \ contested' :
            /\ j.pc \in {"temp", "take", "create"} /\ j.kind = f /\ j.val = v => MadeBy(f, v, d)
            /\ f = "email" /\ j.mail = v => MadeBy(f, v, d)
            /\ j.pc \in {"edit", "edited"} /\ j.kind = f /\ j.val = v /\ j.user \in Users
               /\ account[j.user].state = "live" => HeldBy(f, v, j.user)
  PROVE  OwnerInv'
  <1>1. ASSUME NEW f \in S!Fields, NEW v \in S!Contacts(f) \ contested', NEW u \in Users,
               HeldBy(f, v, u)'
        PROVE  HeldBy(f, v, u)
    <2>1. CASE account[u][f] = v \/ account[u].temp[f] = v
      BY <1>1, <2>1 DEF HeldBy
    <2>2. ASSUME NEW e \in Devices, job'[e].pc \in {"edit", "edited"}, job'[e].user = u,
                 job'[e].kind = f, job'[e].val = v
          PROVE  HeldBy(f, v, u)
      <3>1. CASE e = d
        BY <1>1, <2>2, <3>1 DEF HeldBy
      <3>2. CASE e # d
        BY <1>1, <2>2, <3>2 DEF HeldBy
      <3>. QED  BY <3>1, <3>2
    <2>. QED  BY <1>1, <2>1, <2>2 DEF HeldBy
  <1>2. ASSUME NEW f \in S!Fields, NEW v \in S!Contacts(f) \ contested', NEW e \in Devices,
               MadeBy(f, v, e)'
        PROVE  MadeBy(f, v, e)
    BY <1>2 DEF MadeBy
  <1>. QED  BY <1>1, <1>2, OwnerStay

\* A request claims what no account has, and nobody claims.
LEMMA OwnerClaim ==
  ASSUME OwnerInv, UNCHANGED account, NEW d \in Devices, NEW j, job'[d] = j,
         \A e \in Devices \ {d} : job'[e] = job[e],
         ~(job[d].pc \in {"edit", "edited"}),
         NEW g \in S!Fields, NEW c \in S!Contacts(g), S!Claim(d, g, c), S!Holders(g, c) = {},
         \A f \in S!Fields : \A v \in S!Contacts(f) :
            /\ j.pc \in {"temp", "take", "create"} /\ j.kind = f /\ j.val = v =>
                  MadeBy(f, v, d) \/ (f = g /\ v = c)
            /\ f = "email" /\ j.mail = v => MadeBy(f, v, d) \/ (f = g /\ v = c)
            /\ j.pc \in {"edit", "edited"} => j.kind = g /\ j.val = c /\ j.mail = None
  PROVE  OwnerInv'
  <1>0. contested \subseteq contested' /\ (c \in contested' \/ ~S!Claimed(g, c, d))
    BY DEF S!Claim
  <1>. SUFFICES ASSUME NEW f \in S!Fields, NEW v \in S!Contacts(f) \ contested'
                PROVE  /\ \A u, w \in Users : HeldBy(f, v, u)' /\ HeldBy(f, v, w)' => u = w
                       /\ \A b, e \in Devices : MadeBy(f, v, b)' /\ MadeBy(f, v, e)' => b = e
                       /\ \A u \in Users, e \in Devices : ~(HeldBy(f, v, u)' /\ MadeBy(f, v, e)')
    BY DEF OwnerInv, S!Contacts
  <1>1. v # None /\ v \notin contested
    BY <1>0, SessionAssumption DEF S!Fields, S!Contacts
  <1>2. CASE f = g /\ v = c
    <2>1. ~S!Claimed(g, c, d)
      BY <1>0, <1>2
    <2>2. \A e \in Devices \ {d} : ~S!Claims(e, g, c)
      BY <2>1 DEF S!Claimed
    <2>3. \A u \in Users : account[u].state = "live" =>
             account[u][f] # v /\ account[u].temp[f] # v
      BY <1>2, <2>1 DEF S!Claimed, S!Holders, S!Live
    <2>4. \A e \in Devices \ {d} : ~MadeBy(f, v, e)'
      BY <1>1, <1>2, <2>2 DEF MadeBy, S!Claims
    <2>5. ASSUME NEW u \in Users, HeldBy(f, v, u)'
          PROVE  job'[d].pc \in {"edit", "edited"} /\ job'[d].user = u
      BY <1>2, <2>2, <2>3, <2>5 DEF HeldBy, S!Claims
    <2>6. j.pc \in {"edit", "edited"} => ~MadeBy(f, v, d)'
      BY <1>1 DEF MadeBy
    <2>. QED  BY <2>4, <2>5, <2>6
  <1>3. CASE ~(f = g /\ v = c)
    <2>1. ASSUME NEW u \in Users, HeldBy(f, v, u)' PROVE HeldBy(f, v, u)
      BY <1>3, <2>1 DEF HeldBy
    <2>2. ASSUME NEW e \in Devices, MadeBy(f, v, e)' PROVE MadeBy(f, v, e)
      <3>1. CASE e = d
        BY <1>3, <2>2, <3>1 DEF MadeBy
      <3>2. CASE e # d
        BY <2>2, <3>2 DEF MadeBy
      <3>. QED  BY <3>1, <3>2
    <2>. QED  BY <1>1, <2>1, <2>2 DEF OwnerInv
  <1>. QED  BY <1>2, <1>3

\* A sign-up claims what no account has, and nobody claims.
LEMMA OwnerSignUp ==
  ASSUME OwnerInv, UNCHANGED account, contested \subseteq contested',
         NEW d \in Devices, NEW j, job'[d] = j,
         \A e \in Devices \ {d} : job'[e] = job[e],
         ~(job[d].pc \in {"edit", "edited"}), j.pc \in {"temp", "create"},
         \A f \in S!Fields : \A v \in S!Contacts(f) \ contested' :
            (j.kind = f /\ j.val = v) \/ (f = "email" /\ j.mail = v) =>
               ~S!Claimed(f, v, d) /\ S!Holders(f, v) = {}
  PROVE  OwnerInv'
  <1>. SUFFICES ASSUME NEW f \in S!Fields, NEW v \in S!Contacts(f) \ contested'
                PROVE  /\ \A u, w \in Users : HeldBy(f, v, u)' /\ HeldBy(f, v, w)' => u = w
                       /\ \A b, e \in Devices : MadeBy(f, v, b)' /\ MadeBy(f, v, e)' => b = e
                       /\ \A u \in Users, e \in Devices : ~(HeldBy(f, v, u)' /\ MadeBy(f, v, e)')
    BY DEF OwnerInv, S!Contacts
  <1>1. v # None /\ v \notin contested
    BY SessionAssumption DEF S!Fields, S!Contacts
  <1>2. CASE (j.kind = f /\ j.val = v) \/ (f = "email" /\ j.mail = v)
    <2>1. ~S!Claimed(f, v, d) /\ S!Holders(f, v) = {}
      BY <1>2
    <2>2. \A e \in Devices \ {d} : ~S!Claims(e, f, v)
      BY <2>1 DEF S!Claimed
    <2>3. \A u \in Users : account[u].state = "live" =>
             account[u][f] # v /\ account[u].temp[f] # v
      BY <2>1 DEF S!Claimed, S!Holders, S!Live
    <2>4. \A e \in Devices \ {d} : ~MadeBy(f, v, e)'
      BY <1>1, <2>2 DEF MadeBy, S!Claims
    <2>5. ASSUME NEW u \in Users PROVE ~HeldBy(f, v, u)'
      BY <2>2, <2>3, <2>5 DEF HeldBy, S!Claims
    <2>. QED  BY <2>4, <2>5
  <1>3. CASE ~((j.kind = f /\ j.val = v) \/ (f = "email" /\ j.mail = v))
    <2>1. ASSUME NEW u \in Users, HeldBy(f, v, u)' PROVE HeldBy(f, v, u)
      BY <2>1 DEF HeldBy
    <2>2. ASSUME NEW e \in Devices, MadeBy(f, v, e)' PROVE MadeBy(f, v, e)
      <3>1. e # d
        BY <1>3, <2>2 DEF MadeBy
      <3>. QED  BY <2>2, <3>1 DEF MadeBy
    <2>. QED  BY <1>1, <2>1, <2>2 DEF OwnerInv
  <1>. QED  BY <1>2, <1>3

\* A step that changes nothing but the count of requests.
LEMMA NothingStep ==
  ASSUME SessionInv, asked' = asked \/ (asked < MaxRequests /\ asked' = asked + 1),
         UNCHANGED <<scope, account, sessions, job, token, block, contested, doubled, late>>
  PROVE  SessionInv'
  <1>1. S!TypeOK'
    BY TypeKept DEF SessionInv, S!TypeOK, AccountType
  <1>2. KnownInv' /\ OwnerInv'
    BY DEF SessionInv, KnownInv, JobOK, OwnerInv, HeldBy, MadeBy
  <1>3. EntryInv' /\ OutInv'
    BY DEF SessionInv, EntryInv, S!Rows, S!SigningIn, OutInv, NoWayIn, Out
  <1>. QED  BY <1>1, <1>2, <1>3 DEF SessionInv

\* The tokens of a device change, and none is left or asked for that is of the phone of
\* who is blocked.
LEMMA TokenStep ==
  ASSUME SessionInv, NEW d \in Devices,
         NEW new \in SUBSET [phone : Phones, email : Emails \cup {None}],
         token' = [token EXCEPT ![d] = new],
         asked' = asked \/ (asked < MaxRequests /\ asked' = asked + 1),
         UNCHANGED <<scope, account, sessions, job, block, contested, doubled, late>>,
         \A t \in new \ token[d] : \A u \in Users :
            Out(u) /\ account[u].state = "live" => account[u].phone # t.phone
  PROVE  SessionInv'
  <1>1. S!TypeOK'
    BY SessionAssumption DEF SessionInv, S!TypeOK
  <1>2. KnownInv' /\ OwnerInv'
    BY DEF SessionInv, KnownInv, JobOK, OwnerInv, HeldBy, MadeBy
  <1>3. EntryInv'
    BY DEF SessionInv, EntryInv, S!Rows, S!SigningIn
  <1>4. OutInv'
    <2>1. token'[d] = new /\ \A e \in Devices \ {d} : token'[e] = token[e]
      BY DEF SessionInv, S!TypeOK
    <2>2. ASSUME NEW u \in Users, Out(u)' PROVE NoWayIn(u)'
      <3>1. Out(u) /\ NoWayIn(u)
        BY <2>2 DEF Out, SessionInv, OutInv
      <3>2. account[u].state = "live" =>
               \A e \in Devices : \A t \in token'[e] : t.phone # account[u].phone
        BY <2>1, <3>1 DEF NoWayIn
      <3>. QED  BY <3>1, <3>2 DEF NoWayIn, S!Rows
    <2>3. (block # None /\ block \notin late => S!Rows(block) = {})'
      BY DEF SessionInv, OutInv, S!Rows
    <2>. QED  BY <2>2, <2>3 DEF OutInv
  <1>. QED  BY <1>1, <1>2, <1>3, <1>4 DEF SessionInv

LEMMA ContinueWithPhoneStep ==
  ASSUME SessionInv, NEW d \in Devices, NEW p \in Phones, S!ContinueWithPhone(d, p)
  PROVE  SessionInv'
  <1>. DEFINE known == IF scope = "customer" THEN S!Holders("phone", p)
                       ELSE {w \in Users : account[w].state # "none" /\ account[w].phone = p}
              u == S!First(known)
  <1>0. /\ asked < MaxRequests /\ asked' = asked + 1
        /\ UNCHANGED <<scope, account, sessions, job, block, contested, doubled, late>>
    BY DEF S!ContinueWithPhone, S!Begin
  <1>1. CASE UNCHANGED token
    BY <1>0, <1>1, NothingStep
  <1>2. CASE token' # token
    <2>1. /\ ~(u # None /\ account[u].blocked)
          /\ token' = [token EXCEPT ![d] = token[d] \cup {S!Code(p, None)}]
      BY <1>2 DEF S!ContinueWithPhone
    <2>2. ASSUME NEW w \in Users, Out(w), account[w].state = "live", account[w].phone = p
          PROVE  FALSE
      <3>1. known \subseteq Users /\ w \in known
        BY <2>2 DEF S!Holders, S!Live
      <3>2. u \in known /\ u \in Users /\ u # None
        BY <3>1, FirstOf
      <3>3. u # w
        BY <2>1, <2>2, <3>2 DEF Out
      <3>4. account[u].phone = p /\ account[u].state \in {"live", "deleted"}
        BY <3>2 DEF SessionInv, S!TypeOK, S!Holders, S!Live
      <3>5. account[u].state # "deleted"
        BY <2>2, <3>2, <3>3, <3>4, SessionAssumption DEF SessionInv, OutInv, NoWayIn
      <3>6. HeldBy("phone", p, u) /\ HeldBy("phone", p, w)
        BY <2>2, <3>4, <3>5 DEF HeldBy
      <3>7. p \in S!Contacts("phone") \ contested /\ "phone" \in S!Fields
        BY <2>2 DEF Out, S!Contacts, S!Fields
      <3>. QED  BY <2>2, <3>2, <3>3, <3>6, <3>7 DEF SessionInv, OwnerInv
    <2>. HIDE DEF known, u
    <2>3. PICK new \in SUBSET [phone : Phones, email : Emails \cup {None}] :
             new = token[d] \cup {S!Code(p, None)}
      <3>1. S!Code(p, None) \in [phone : Phones, email : Emails \cup {None}]
        BY DEF S!Code
      <3>2. token[d] \in SUBSET [phone : Phones, email : Emails \cup {None}]
        BY DEF SessionInv, S!TypeOK
      <3>. QED  BY <3>1, <3>2
    <2>4. \A t \in new \ token[d] : t.phone = p
      BY <2>3 DEF S!Code
    <2>. QED  BY <1>0, <2>1, <2>2, <2>3, <2>4, TokenStep
  <1>. QED  BY <1>1, <1>2


LEMMA DriverFormStep ==
  ASSUME SessionInv, NEW d \in Devices, NEW p \in Phones, NEW e \in Emails,
         S!BecomeDriver(d, p, e) \/ S!UpdateDriver(d, p, e)
  PROVE  SessionInv'
  <1>0. /\ asked < MaxRequests /\ asked' = asked + 1
        /\ UNCHANGED <<scope, account, sessions, job, block, contested, doubled, late>>
    BY DEF S!BecomeDriver, S!UpdateDriver, S!Begin
  <1>1. CASE UNCHANGED token
    BY <1>0, <1>1, NothingStep
  <1>2. CASE token' # token
    <2>1. /\ \A u \in Users : account[u].state # "none" => account[u].phone # p
          /\ token' = [token EXCEPT ![d] = token[d] \cup {S!Code(p, e)}]
      BY <1>2 DEF S!BecomeDriver, S!UpdateDriver
    <2>2. PICK new \in SUBSET [phone : Phones, email : Emails \cup {None}] :
             new = token[d] \cup {S!Code(p, e)}
      <3>1. S!Code(p, e) \in [phone : Phones, email : Emails \cup {None}]
        BY DEF S!Code
      <3>2. token[d] \in SUBSET [phone : Phones, email : Emails \cup {None}]
        BY DEF SessionInv, S!TypeOK
      <3>. QED  BY <3>1, <3>2
    <2>3. \A t \in new \ token[d] : t.phone = p
      BY <2>2 DEF S!Code
    <2>. QED  BY <1>0, <2>1, <2>2, <2>3, TokenStep
  <1>. QED  BY <1>1, <1>2


LEMMA LapseStep ==
  ASSUME SessionInv, NEW d \in Devices, S!Lapse(d)
  PROVE  SessionInv'
  <1>1. PICK t \in token[d] : token' = [token EXCEPT ![d] = token[d] \ {t}]
    BY DEF S!Lapse
  <1>2. PICK new \in SUBSET [phone : Phones, email : Emails \cup {None}] :
           new = token[d] \ {t}
    BY DEF SessionInv, S!TypeOK
  <1>3. UNCHANGED <<scope, account, sessions, job, block, contested, doubled, late>> /\ asked' = asked
    BY DEF S!Lapse
  <1>. QED  BY <1>1, <1>2, <1>3, TokenStep


LEMMA VerifyPhoneStep ==
  ASSUME SessionInv, NEW d \in Devices, NEW t \in token[d], S!VerifyPhone(d, t)
  PROVE  SessionInv'
  <1>. DEFINE X == S!Holders("phone", t.phone)
              u == S!First(X)
  <1>0. /\ job[d].pc = "idle" /\ asked < MaxRequests /\ asked' = asked + 1
        /\ UNCHANGED <<scope, account, sessions, token, block, late>>
        /\ contested \subseteq Phones \cup Emails /\ doubled \subseteq Users /\ late \subseteq Users
    BY DEF S!VerifyPhone, S!Begin, SessionInv, S!TypeOK
  <1>1. t.phone \in Phones /\ t.email \in Emails \cup {None}
    BY DEF SessionInv, S!TypeOK
  <1>2. IF X = {} THEN u = None ELSE u \in X /\ u # None
    <2>1. X \in SUBSET Users
      BY DEF S!Holders, S!Live
    <2>. QED  BY <2>1, FirstOf
  <1>3. CASE u # None
    <2>1. /\ job' = [job EXCEPT ![d] = [S!Idle EXCEPT !.pc = "login", !.val = t.phone, !.user = u]]
          /\ S!Enter(d, u) /\ UNCHANGED contested
      BY <1>3 DEF S!VerifyPhone, S!Goto
    <2>2. u \in Users /\ account[u].state = "live" /\ account[u].phone = t.phone
      BY <1>2, <1>3 DEF S!Holders, S!Live
    <2>. HIDE DEF u, X
    <2>3. PICK j : j = [S!Idle EXCEPT !.pc = "login", !.val = t.phone, !.user = u]
      OBVIOUS
    <2>4. /\ j \in S!Jobs /\ j.pc = "login" /\ j.user = u /\ j.val = t.phone
          /\ j.kind = "phone" /\ j.mail = None
      BY <1>0, <1>1, <2>2, <2>3 DEF S!Jobs, S!Idle, S!Fields
    <2>5. job'[d] = j /\ \A e \in Devices \ {d} : job'[e] = job[e]
      BY <2>1, <2>3, <2>4, JobSet DEF SessionInv
    <2>6. JobOK(j)'
      BY <1>1, <2>2, <2>4 DEF JobOK, S!Contacts
    <2>7. OwnerInv'
      <3>1. \A v : v \in S!Contacts("email") => v # None
        BY SessionAssumption DEF S!Contacts
      <3>. QED  BY <1>0, <2>1, <2>4, <2>5, <3>1, OwnerJob DEF SessionInv
    <2>8. EntryInv'
      BY <1>0, <2>1, <2>2, <2>4, <2>5, EntryEnter DEF SessionInv
    <2>9. doubled \subseteq doubled' /\ doubled' \subseteq Users
      BY <1>0, <2>1, <2>2 DEF S!Enter
    <2>10. ~Out(u)
      BY <1>0, <2>2 DEF SessionInv, OutInv, NoWayIn
    <2>11. job' = [job EXCEPT ![d] = j]
      BY <2>1, <2>3
    <2>. QED
      BY <1>0, <2>1, <2>2, <2>4, <2>6, <2>7, <2>8, <2>9, <2>10, <2>11, JobStep
  <1>4. CASE u = None
    <2>. DEFINE pc == IF scope = "customer" THEN "temp" ELSE "create"
                more == {p \in {t.phone} : S!Claimed("phone", p, d)}
                          \cup {e \in {t.email} \ {None} : S!Outdated(d, e)}
    <2>1. /\ job' = [job EXCEPT ![d] =
                       [S!Idle EXCEPT !.pc = pc, !.val = t.phone, !.mail = t.email]]
          /\ contested' = contested \cup more /\ UNCHANGED doubled
      BY <1>4 DEF S!VerifyPhone, S!Goto
    <2>2. X = {} /\ pc \in {"temp", "create"}
      BY <1>2, <1>4
    <2>. HIDE DEF u, pc
    <2>3. PICK j : j = [S!Idle EXCEPT !.pc = pc, !.val = t.phone, !.mail = t.email]
      OBVIOUS
    <2>4. /\ j \in S!Jobs /\ j.pc = pc /\ j.user = None /\ j.val = t.phone
          /\ j.kind = "phone" /\ j.mail = t.email
      BY <1>0, <1>1, <2>2, <2>3 DEF S!Jobs, S!Idle, S!Fields
    <2>5. job'[d] = j /\ \A e \in Devices \ {d} : job'[e] = job[e]
      BY <2>1, <2>3, <2>4, JobSet DEF SessionInv
    <2>6. JobOK(j)'
      BY <1>1, <2>2, <2>4 DEF JobOK, S!Contacts
    <2>7. contested \subseteq contested' /\ contested' \subseteq Phones \cup Emails
      BY <1>0, <1>1, <2>1
    <2>8. OwnerInv'
      <3>1. ASSUME NEW f \in S!Fields, NEW v \in S!Contacts(f) \ contested',
                   (j.kind = f /\ j.val = v) \/ (f = "email" /\ j.mail = v)
            PROVE  ~S!Claimed(f, v, d) /\ S!Holders(f, v) = {}
        <4>1. CASE f = "phone"
          <5>1. v = t.phone
            BY <2>4, <3>1, <4>1
          <5>2. v \notin more
            BY <2>1, <3>1
          <5>. QED  BY <2>2, <4>1, <5>1, <5>2
        <4>2. CASE f = "email"
          <5>1. v = t.email /\ v # None
            BY <2>4, <3>1, <4>2, SessionAssumption DEF S!Contacts
          <5>2. v \notin more
            BY <2>1, <3>1
          <5>3. ~S!Outdated(d, v)
            BY <5>1, <5>2
          <5>. QED  BY <4>2, <5>3 DEF S!Outdated
        <4>. QED  BY <4>1, <4>2 DEF S!Fields
      <3>2. ~(job[d].pc \in {"edit", "edited"}) /\ j.pc \in {"temp", "create"}
        BY <1>0, <2>2, <2>4
      <3>. HIDE DEF more, X
      <3>. QED  BY <1>0, <2>5, <2>7, <3>1, <3>2, OwnerSignUp DEF SessionInv
    <2>. HIDE DEF more, X
    <2>9. EntryInv'
      BY <1>0, <2>1, <2>2, <2>4, <2>5, EntryStay DEF SessionInv, S!SigningIn
    <2>10. job' = [job EXCEPT ![d] = j]
      BY <2>1, <2>3
    <2>. QED
      BY <1>0, <2>1, <2>2, <2>4, <2>6, <2>7, <2>8, <2>9, <2>10, JobStep, SessionAssumption
  <1>. QED  BY <1>3, <1>4


LEMMA FindTempPhoneStep ==
  ASSUME SessionInv, NEW d \in Devices, S!FindTempPhone(d)
  PROVE  SessionInv'
  <1>. DEFINE X == {x \in S!Live : account[x].temp.phone = job[d].val}
              u == S!First(X)
  <1>0. /\ job[d].pc = "temp" /\ job[d] \in S!Jobs /\ JobOK(job[d])
        /\ UNCHANGED <<scope, account, sessions, token, block, asked, contested, doubled, late>>
        /\ contested \subseteq Phones \cup Emails /\ doubled \subseteq Users /\ late \subseteq Users
    BY DEF S!FindTempPhone, SessionInv, S!TypeOK, KnownInv
  <1>1. job[d].val \in Phones /\ job[d].kind = "phone" /\ job[d].user = None
    BY <1>0 DEF JobOK, S!Contacts
  <1>2. IF X = {} THEN u = None ELSE u \in X /\ u # None
    <2>1. X \in SUBSET Users
      BY DEF S!Live
    <2>. QED  BY <2>1, FirstOf
  <1>3. u # None => /\ u \in Users /\ account[u].state = "live"
                    /\ account[u].temp.phone = job[d].val
    BY <1>2 DEF S!Live
  <1>4. u # None => job[d].val \in contested
    <2>1. u # None => HeldBy("phone", job[d].val, u)
      BY <1>3 DEF HeldBy
    <2>2. MadeBy("phone", job[d].val, d)
      BY <1>0, <1>1 DEF MadeBy
    <2>3. "phone" \in S!Fields /\ job[d].val \in S!Contacts("phone")
      BY <1>1 DEF S!Fields, S!Contacts
    <2>. HIDE DEF u
    <2>. QED  BY <1>3, <2>1, <2>2, <2>3 DEF SessionInv, OwnerInv
  <1>5. \/ u # None /\ job' = [job EXCEPT ![d] = [job[d] EXCEPT !.pc = "take", !.user = u]]
        \/ u = None /\ job' = [job EXCEPT ![d] = [job[d] EXCEPT !.pc = "create"]]
    BY DEF S!FindTempPhone, S!Goto
  <1>. HIDE DEF X, u
  <1>6. PICK j \in S!Jobs :
           /\ job' = [job EXCEPT ![d] = j] /\ j.val = job[d].val /\ j.kind = "phone"
           /\ j.mail = job[d].mail /\ j.user = u
           /\ j.pc = IF u = None THEN "create" ELSE "take"
    <2>1. PICK q : q = [job[d] EXCEPT !.pc = "take", !.user = u]
      OBVIOUS
    <2>2. u # None => /\ q \in S!Jobs /\ q.val = job[d].val /\ q.kind = "phone"
                      /\ q.mail = job[d].mail /\ q.user = u /\ q.pc = "take"
      BY <1>0, <1>1, <1>3, <2>1 DEF S!Jobs
    <2>3. PICK r : r = [job[d] EXCEPT !.pc = "create"]
      OBVIOUS
    <2>4. /\ r \in S!Jobs /\ r.val = job[d].val /\ r.kind = "phone"
          /\ r.mail = job[d].mail /\ r.user = None /\ r.pc = "create"
      BY <1>0, <1>1, <2>3 DEF S!Jobs
    <2>. QED  BY <1>5, <2>1, <2>2, <2>3, <2>4
  <1>7. job'[d] = j /\ \A e \in Devices \ {d} : job'[e] = job[e]
    BY <1>6, JobSet DEF SessionInv
  <1>8. JobOK(j)'
    BY <1>0, <1>1, <1>3, <1>4, <1>6 DEF JobOK, S!Contacts
  <1>9. OwnerInv'
    BY <1>0, <1>1, <1>6, <1>7, OwnerJob DEF SessionInv, MadeBy
  <1>10. EntryInv'
    BY <1>0, <1>6, <1>7, EntryStay DEF SessionInv, S!SigningIn
  <1>11. u # None => ~Out(u)
    BY <1>3, <1>4, <1>1, SessionAssumption DEF SessionInv, OutInv, NoWayIn, Out
  <1>. QED
    BY <1>0, <1>3, <1>6, <1>8, <1>9, <1>10, <1>11, JobStep, SessionAssumption

LEMMA SocialLoginStep ==
  ASSUME SessionInv, NEW d \in Devices, NEW e \in Emails,
         S!LoginWithGoogle(d, e) \/ S!LoginWithApple(d, e)
  PROVE  SessionInv'
  <1>. DEFINE X == S!Holders("email", e)
              u == S!First(X)
              i == [S!Idle EXCEPT !.kind = "email", !.val = e, !.user = u]
  <1>0. /\ job[d].pc = "idle" /\ asked < MaxRequests /\ asked' = asked + 1
        /\ UNCHANGED <<scope, account, sessions, token, block>>
        /\ contested \subseteq Phones \cup Emails /\ doubled \subseteq Users /\ late \subseteq Users
    BY DEF S!LoginWithGoogle, S!LoginWithApple, S!Begin, SessionInv, S!TypeOK
  <1>1. IF X = {} THEN u = None ELSE u \in X /\ u # None
    <2>1. X \in SUBSET Users
      BY DEF S!Holders, S!Live
    <2>. QED  BY <2>1, FirstOf
  <1>2. u # None => u \in Users /\ account[u].state = "live"
    BY <1>1 DEF S!Holders, S!Live
  <1>3. \/ /\ u = None /\ job' = [job EXCEPT ![d] = [i EXCEPT !.pc = "create"]]
           /\ S!Claim(d, "email", e) /\ UNCHANGED <<doubled, late>>
        \/ /\ u # None /\ job' = [job EXCEPT ![d] = [i EXCEPT !.pc = "login"]]
           /\ ~account[u].blocked /\ S!Enter(d, u) /\ UNCHANGED <<contested, late>>
        \/ /\ u # None /\ job' = [job EXCEPT ![d] = [i EXCEPT !.pc = "session"]]
           /\ doubled' = doubled \cup {u} /\ late' = late \cup {u} /\ UNCHANGED contested
    BY DEF S!LoginWithGoogle, S!LoginWithApple, S!Goto
  <1>. DEFINE pc == IF u = None THEN "create" ELSE IF u \in late' THEN "session" ELSE "login"
  <1>4. u # None => u \in Users
    BY <1>2
  <1>5. X = {} <=> u = None
    BY <1>1
  <1>. HIDE DEF u, X
  <1>6. ASSUME NEW p \in {"create", "login", "session"}
        PROVE  /\ [i EXCEPT !.pc = p] \in S!Jobs
               /\ [i EXCEPT !.pc = p].pc = p /\ [i EXCEPT !.pc = p].user = u
               /\ [i EXCEPT !.pc = p].kind = "email" /\ [i EXCEPT !.pc = p].val = e
               /\ [i EXCEPT !.pc = p].mail = None
    <2>1. PICK q : q = [i EXCEPT !.pc = p]
      OBVIOUS
    <2>2. /\ q \in S!Jobs /\ q.pc = p /\ q.user = u
          /\ q.kind = "email" /\ q.val = e /\ q.mail = None
      BY <1>4, <2>1 DEF S!Idle, S!Jobs, S!Fields
    <2>. QED  BY <2>1, <2>2
  <1>. HIDE DEF i
  <1>7. ASSUME NEW p \in {"create", "login", "session"}, NEW j, j = [i EXCEPT !.pc = p],
               job' = [job EXCEPT ![d] = j]
        PROVE  /\ j \in S!Jobs /\ j.pc = p /\ j.user = u /\ j.kind = "email" /\ j.val = e
               /\ j.mail = None /\ job'[d] = j
               /\ \A b \in Devices \ {d} : job'[b] = job[b]
    BY <1>6, <1>7, JobSet DEF SessionInv
  <1>8. CASE u = None
    <2>1. PICK j : j = [i EXCEPT !.pc = "create"]
      OBVIOUS
    <2>2. /\ job' = [job EXCEPT ![d] = j]
          /\ S!Claim(d, "email", e) /\ UNCHANGED <<doubled, late>>
      BY <1>3, <1>8, <2>1
    <2>3. /\ j \in S!Jobs /\ j.pc = "create" /\ j.user = None /\ j.kind = "email" /\ j.val = e
          /\ j.mail = None /\ job'[d] = j /\ \A b \in Devices \ {d} : job'[b] = job[b]
      BY <1>7, <1>8, <2>1, <2>2
    <2>4. "email" \in S!Fields /\ e \in S!Contacts("email") /\ S!Holders("email", e) = {}
      BY <1>5, <1>8 DEF S!Fields, S!Contacts, X
    <2>5. JobOK(j)'
      BY <2>3, <2>4 DEF JobOK
    <2>6. contested \subseteq contested' /\ contested' \subseteq Phones \cup Emails
      BY <1>0, <2>2 DEF S!Claim
    <2>7. OwnerInv'
      <3>1. \A v : v \in S!Contacts("email") => v # None
        BY SessionAssumption DEF S!Contacts
      <3>. QED  BY <1>0, <2>2, <2>3, <2>4, <3>1, OwnerClaim DEF SessionInv
    <2>8. EntryInv'
      BY <1>0, <2>2, <2>3, EntryStay DEF SessionInv, S!SigningIn
    <2>. QED
      BY <1>0, <2>2, <2>3, <2>5, <2>6, <2>7, <2>8, JobStep, SessionAssumption
  <1>9. ASSUME u # None, ~account[u].blocked, S!Enter(d, u), UNCHANGED <<contested, late>>,
               job' = [job EXCEPT ![d] = [i EXCEPT !.pc = "login"]]
        PROVE  SessionInv'
    <2>1. PICK j : j = [i EXCEPT !.pc = "login"]
      OBVIOUS
    <2>2. job' = [job EXCEPT ![d] = j]
      BY <1>9, <2>1
    <2>3. /\ j \in S!Jobs /\ j.pc = "login" /\ j.user = u /\ j.kind = "email" /\ j.val = e
          /\ j.mail = None /\ job'[d] = j /\ \A b \in Devices \ {d} : job'[b] = job[b]
      BY <1>7, <2>1, <2>2
    <2>4. JobOK(j)'
      BY <1>2, <1>9, <2>3 DEF JobOK, S!Contacts
    <2>5. OwnerInv'
      <3>1. \A v : v \in S!Contacts("email") => v # None
        BY SessionAssumption DEF S!Contacts
      <3>. QED  BY <1>0, <1>9, <2>3, <3>1, OwnerJob DEF SessionInv
    <2>6. EntryInv'
      BY <1>0, <1>2, <1>9, <2>3, EntryEnter DEF SessionInv
    <2>7. doubled \subseteq doubled' /\ doubled' \subseteq Users
      BY <1>0, <1>2, <1>9 DEF S!Enter
    <2>8. ~Out(u)
      BY <1>9 DEF Out
    <2>. QED  BY <1>0, <1>2, <1>9, <2>2, <2>3, <2>4, <2>5, <2>6, <2>7, <2>8, JobStep
  <1>10. ASSUME u # None, doubled' = doubled \cup {u}, late' = late \cup {u},
                UNCHANGED contested,
                job' = [job EXCEPT ![d] = [i EXCEPT !.pc = "session"]]
         PROVE  SessionInv'
    <2>1. PICK j : j = [i EXCEPT !.pc = "session"]
      OBVIOUS
    <2>2. job' = [job EXCEPT ![d] = j]
      BY <1>10, <2>1
    <2>3. /\ j \in S!Jobs /\ j.pc = "session" /\ j.user = u /\ j.kind = "email" /\ j.val = e
          /\ j.mail = None /\ job'[d] = j /\ \A b \in Devices \ {d} : job'[b] = job[b]
      BY <1>7, <2>1, <2>2
    <2>4. JobOK(j)'
      BY <1>2, <1>10, <2>3 DEF JobOK, S!Contacts
    <2>5. OwnerInv'
      <3>1. \A v : v \in S!Contacts("email") => v # None
        BY SessionAssumption DEF S!Contacts
      <3>. QED  BY <1>0, <1>10, <2>3, <3>1, OwnerJob DEF SessionInv
    <2>6. EntryInv'
      BY <1>0, <1>10, <2>3, EntryStay DEF SessionInv, S!SigningIn
    <2>7. \A w \in Users : Out(w)' => w # u
      BY <1>10 DEF Out
    <2>. QED  BY <1>0, <1>2, <1>10, <2>2, <2>3, <2>4, <2>5, <2>6, <2>7, JobStep
  <1>. QED  BY <1>3, <1>8, <1>9, <1>10

\* Whoever has a session is not among the blocked.
LEMMA AuthorizedIn ==
  ASSUME SessionInv, NEW d \in Devices, NEW u \in Users, S!Authorized(d, u)
  PROVE  ~Out(u) /\ account[u].state # "none" /\ S!Rows(u) # {}
  <1>1. PICK s \in sessions : s.user = u
    BY DEF S!Authorized, S!Rows
  <1>. QED  BY <1>1 DEF SessionInv, OutInv, NoWayIn, KnownInv, S!Rows

LEMMA EditProfileStep ==
  ASSUME SessionInv, NEW d \in Devices, NEW u \in Users, NEW g \in S!Fields,
         NEW c \in S!Contacts(g), S!EditProfile(d, u, g, c)
  PROVE  SessionInv'
  <1>0. /\ job[d].pc = "idle" /\ asked < MaxRequests /\ asked' = asked + 1
        /\ UNCHANGED <<scope, account, sessions, token, block, doubled, late>>
        /\ contested \subseteq Phones \cup Emails /\ doubled \subseteq Users /\ late \subseteq Users
        /\ ~Out(u) /\ account[u].state # "none"
    BY AuthorizedIn DEF S!EditProfile, S!Begin, SessionInv, S!TypeOK
  <1>1. CASE UNCHANGED <<job, contested>>
    BY <1>0, <1>1, NothingStep
  <1>2. ASSUME ~UNCHANGED <<job, contested>> PROVE SessionInv'
    <2>1. PICK j : j = [S!Idle EXCEPT !.pc = "edit", !.kind = g, !.val = c, !.user = u]
      OBVIOUS
    <2>2. /\ S!Holders(g, c) = {} /\ S!Claim(d, g, c) /\ job' = [job EXCEPT ![d] = j]
      BY <1>2, <2>1 DEF S!EditProfile, S!Goto
    <2>3. c \in Phones \cup Emails
      BY DEF S!Contacts
    <2>4. /\ j \in S!Jobs /\ j.pc = "edit" /\ j.kind = g /\ j.val = c /\ j.user = u
          /\ j.mail = None
      BY <2>1, <2>3 DEF S!Idle, S!Jobs, S!Fields
    <2>5. job'[d] = j /\ \A e \in Devices \ {d} : job'[e] = job[e]
      BY <2>2, <2>4, JobSet DEF SessionInv
    <2>6. JobOK(j)'
      BY <2>4 DEF JobOK
    <2>7. contested \subseteq contested' /\ contested' \subseteq Phones \cup Emails
      BY <1>0, <2>2, <2>3 DEF S!Claim
    <2>8. OwnerInv'
      <3>1. \A v : v \in S!Contacts("email") => v # None
        BY SessionAssumption DEF S!Contacts
      <3>. QED  BY <1>0, <2>2, <2>4, <2>5, <3>1, OwnerClaim DEF SessionInv
    <2>9. EntryInv'
      BY <1>0, <2>4, <2>5, EntryStay DEF SessionInv, S!SigningIn
    <2>. QED  BY <1>0, <2>2, <2>4, <2>6, <2>7, <2>8, <2>9, JobStep
  <1>. QED  BY <1>1, <1>2

LEMMA VerifyEditStep ==
  ASSUME SessionInv, NEW d \in Devices, NEW u \in Users, NEW g \in S!Fields,
         S!VerifyEdit(d, u, g)
  PROVE  SessionInv'
  <1>0. /\ job[d].pc = "idle" /\ asked < MaxRequests /\ asked' = asked + 1
        /\ UNCHANGED <<scope, account, sessions, token, block, contested, doubled, late>>
        /\ contested \subseteq Phones \cup Emails /\ doubled \subseteq Users /\ late \subseteq Users
        /\ ~Out(u) /\ account[u].state # "none"
    BY AuthorizedIn DEF S!VerifyEdit, S!Begin, SessionInv, S!TypeOK
  <1>1. account[u] \in AccountType
    BY DEF SessionInv, S!TypeOK, AccountType
  <1>2. account[u].temp[g] \in S!Contacts(g) \cup {None} /\ S!Contacts(g) \subseteq Phones \cup Emails
    <2>1. CASE g = "phone"
      BY <1>1, <2>1 DEF AccountType, S!Contacts
    <2>2. CASE g = "email"
      BY <1>1, <2>2 DEF AccountType, S!Contacts
    <2>. QED  BY <2>1, <2>2 DEF S!Fields
  <1>3. PICK c : c = account[u].temp[g]
    OBVIOUS
  <1>4. PICK j : j = [S!Idle EXCEPT !.pc = "edited", !.kind = g, !.val = c, !.user = u]
    OBVIOUS
  <1>5. job' = [job EXCEPT ![d] = j]
    BY <1>3, <1>4 DEF S!VerifyEdit, S!Goto
  <1>6. /\ j \in S!Jobs /\ j.pc = "edited" /\ j.kind = g /\ j.val = c /\ j.user = u
        /\ j.mail = None
    BY <1>2, <1>3, <1>4 DEF S!Idle, S!Jobs, S!Fields
  <1>7. job'[d] = j /\ \A e \in Devices \ {d} : job'[e] = job[e]
    BY <1>5, <1>6, JobSet DEF SessionInv
  <1>8. JobOK(j)'
    BY <1>2, <1>3, <1>6 DEF JobOK
  <1>9. OwnerInv'
    <2>1. \A v : v \in S!Contacts("email") => v # None
      BY SessionAssumption DEF S!Contacts
    <2>2. account[u].state = "live" => HeldBy(g, c, u)
      BY <1>3 DEF HeldBy
    <2>. QED  BY <1>0, <1>6, <1>7, <2>1, <2>2, OwnerJob DEF SessionInv
  <1>10. EntryInv'
    BY <1>0, <1>6, <1>7, EntryStay DEF SessionInv, S!SigningIn
  <1>. QED  BY <1>0, <1>5, <1>6, <1>8, <1>9, <1>10, JobStep

\* What an account goes on with.
LEMMA AccountSet ==
  ASSUME S!TypeOK, NEW w \in Users, NEW q \in AccountType, account' = [account EXCEPT ![w] = q]
  PROVE  /\ account' \in [Users -> AccountType] /\ account'[w] = q
         /\ \A x \in Users \ {w} : account'[x] = account[x]
  BY DEF S!TypeOK, AccountType

\* The steps that change one account, and perhaps the request that changes it.
LEMMA AccountStep ==
  ASSUME SessionInv, NEW w \in Users, NEW q \in AccountType, account' = [account EXCEPT ![w] = q],
         scope' = scope, asked' = asked \/ (asked < MaxRequests /\ asked' = asked + 1),
         UNCHANGED <<sessions, contested, token>>, job' \in [Devices -> S!Jobs],
         block' \in {block, None}, doubled' \subseteq Users,
         late' \subseteq Users, late \subseteq late' \cup {w}, block' # None => late \subseteq late',
         \A e \in Devices : job'[e].user \in {job[e].user, w, None},
         KnownInv', OwnerInv', EntryInv', Out(w)' => NoWayIn(w)',
         \A x \in Users \ {w} :
            /\ Out(x) /\ Out(x)' /\ account[x].state = "live" /\ account[x].phone # None
            /\ q.state = "deleted"
            => q.phone # account[x].phone
  PROVE  SessionInv'
  <1>1. /\ account' \in [Users -> AccountType] /\ account'[w] = q
        /\ \A x \in Users \ {w} : account'[x] = account[x]
    BY AccountSet DEF SessionInv
  <1>2. S!TypeOK'
    BY <1>1, TypeKept DEF SessionInv, S!TypeOK
  <1>3. OutInv'
    <2>1. \A x : S!Rows(x)' = S!Rows(x)
      BY DEF S!Rows
    <2>2. \A x \in Users \ {w} : Out(x)' => NoWayIn(x)'
      BY <1>1, <2>1, OutOthers DEF SessionInv
    <2>3. block' # None /\ block' \notin late' => S!Rows(block)' = {}
      BY <2>1 DEF SessionInv, OutInv, S!Rows
    <2>. QED  BY <2>2, <2>3 DEF OutInv
  <1>. QED  BY <1>2, <1>3 DEF SessionInv

\* An account changes, and gets nothing that it did not hold.
LEMMA OwnerAccount ==
  ASSUME OwnerInv, contested \subseteq contested', NEW w \in Users,
         \A x \in Users \ {w} : account'[x] = account[x],
         \A e \in Devices :
            \/ job'[e] = job[e]
            \/ /\ ~(job'[e].pc \in {"edit", "edited", "temp", "take", "create"})
               /\ job'[e].mail \in {None, job[e].mail},
         account'[w].state = "live" => account[w].state = "live",
         \A f \in S!Fields : \A v \in S!Contacts(f) \ contested' :
            /\ account[w].state = "live"
            /\ account'[w][f] = v \/ account'[w].temp[f] = v
            => HeldBy(f, v, w)
  PROVE  OwnerInv'
  <1>1. ASSUME NEW f \in S!Fields, NEW v \in S!Contacts(f) \ contested', NEW u \in Users,
               HeldBy(f, v, u)'
        PROVE  HeldBy(f, v, u)
    <2>1. CASE account'[u][f] = v \/ account'[u].temp[f] = v
      <3>1. CASE u = w
        BY <1>1, <2>1, <3>1 DEF HeldBy
      <3>2. CASE u # w
        BY <1>1, <2>1, <3>2 DEF HeldBy
      <3>. QED  BY <3>1, <3>2
    <2>2. ASSUME NEW e \in Devices, job'[e].pc \in {"edit", "edited"}, job'[e].user = u,
                 job'[e].kind = f, job'[e].val = v
          PROVE  HeldBy(f, v, u)
      <3>1. job'[e] = job[e] /\ account[u].state = "live"
        BY <1>1, <2>2 DEF HeldBy
      <3>. QED  BY <2>2, <3>1 DEF HeldBy
    <2>. QED  BY <1>1, <2>1, <2>2 DEF HeldBy
  <1>2. ASSUME NEW f \in S!Fields, NEW v \in S!Contacts(f) \ contested', NEW e \in Devices,
               MadeBy(f, v, e)'
        PROVE  MadeBy(f, v, e)
    <2>1. f = "email" => v # None
      BY SessionAssumption DEF S!Contacts
    <2>. QED  BY <1>2, <2>1 DEF MadeBy
  <1>. QED  BY <1>1, <1>2, OwnerStay

\* Whom the phone of a blocked account finds.
LEMMA PhoneFinds ==
  ASSUME SessionInv, NEW x \in Users, Out(x), account[x].state = "live", account[x].phone # None,
         NEW w \in Users \ {x}, account[w].state = "deleted"
  PROVE  account[w].phone # account[x].phone
  <1>1. NoWayIn(x)
    BY DEF SessionInv, OutInv
  <1>. QED  BY <1>1 DEF NoWayIn

\* A request is done, or goes on with another step.
LEMMA JobsOthers ==
  ASSUME NEW d \in Devices, NEW w, job'[d].user \in {w, None},
         \A e \in Devices \ {d} : job'[e] = job[e]
  PROVE  \A e \in Devices : job'[e].user \in {job[e].user, w, None}
  OBVIOUS

LEMMA TakePhoneStep ==
  ASSUME SessionInv, NEW d \in Devices, S!TakePhone(d)
  PROVE  SessionInv'
  <1>0. /\ job[d].pc = "take" /\ job[d] \in S!Jobs /\ JobOK(job[d])
        /\ UNCHANGED <<scope, sessions, token, block, asked, contested, late>>
        /\ S!Enter(d, job[d].user) /\ late \subseteq Users /\ doubled \subseteq Users
    BY DEF S!TakePhone, SessionInv, S!TypeOK, KnownInv
  <1>1. PICK w \in Users : w = job[d].user
    BY <1>0 DEF JobOK
  <1>2. PICK v \in Phones : v = job[d].val
    BY <1>0 DEF JobOK, S!Contacts
  <1>3. v \in contested /\ job[d].kind = "phone"
    BY <1>0, <1>2 DEF JobOK
  <1>4. account[w] \in AccountType /\ account \in [Users -> AccountType]
    BY DEF SessionInv, S!TypeOK, AccountType
  <1>5. PICK q \in AccountType :
           /\ account' = [account EXCEPT ![w] = q]
           /\ q.phone = v /\ q.temp.phone = None /\ q.email = account[w].email
           /\ q.temp.email = account[w].temp.email
           /\ q.state = account[w].state /\ q.blocked = account[w].blocked
    <2>1. account' = [account EXCEPT ![w].phone = v, ![w].temp.phone = None]
      BY <1>1, <1>2 DEF S!TakePhone
    <2>2. PICK t : t = [account[w].temp EXCEPT !.phone = None]
      OBVIOUS
    <2>3. PICK q : q = [account[w] EXCEPT !.phone = v, !.temp = t]
      OBVIOUS
    <2>4. t.phone = None /\ t.email = account[w].temp.email /\ t = [phone |-> t.phone, email |-> t.email]
      BY <1>4, <2>2 DEF AccountType
    <2>5. /\ q \in AccountType
          /\ q.phone = v /\ q.temp.phone = None /\ q.email = account[w].email
          /\ q.temp.email = account[w].temp.email
          /\ q.state = account[w].state /\ q.blocked = account[w].blocked
      BY <1>4, <2>3, <2>4 DEF AccountType
    <2>6. account' = [account EXCEPT ![w] = q]
      BY <1>4, <2>1, <2>2, <2>3 DEF AccountType
    <2>. QED  BY <2>5, <2>6
  <1>6. PICK j : j = [job[d] EXCEPT !.pc = "login"]
    OBVIOUS
  <1>7. /\ j \in S!Jobs /\ j.pc = "login" /\ j.user = w /\ j.kind = "phone" /\ j.val = v
        /\ j.mail = job[d].mail /\ job' = [job EXCEPT ![d] = j]
    BY <1>0, <1>1, <1>2, <1>3, <1>6 DEF S!Jobs, S!TakePhone, S!Goto
  <1>8. /\ job' \in [Devices -> S!Jobs] /\ job'[d] = j
        /\ \A e \in Devices \ {d} : job'[e] = job[e]
    BY <1>7, JobSet DEF SessionInv
  <1>9. account'[w] = q /\ \A x \in Users \ {w} : account'[x] = account[x]
    BY <1>5, AccountSet DEF SessionInv
  <1>10. KnownInv'
    <2>1. JobOK(j)'
      BY <1>7 DEF JobOK, S!Contacts
    <2>2. account[w].state # "none"
      BY <1>1, SessionAssumption DEF SessionInv, KnownInv
    <2>3. \A u \in Users : account'[u].state = account[u].state /\ account'[u].blocked = account[u].blocked
      BY <1>5, <1>9
    <2>4. \A u \in Users : account[u].state = "none" => ~account[u].blocked
      BY DEF SessionInv, KnownInv
    <2>. QED  BY <1>0, <1>7, <1>8, <2>1, <2>2, <2>3, <2>4, KnownMove DEF SessionInv
  <1>11. OwnerInv'
    <2>1. \A v1 : v1 \in S!Contacts("phone") => v1 # None
      BY SessionAssumption DEF S!Contacts
    <2>2. ASSUME NEW f \in S!Fields, NEW v1 \in S!Contacts(f) \ contested',
                 account[w].state = "live",
                 account'[w][f] = v1 \/ account'[w].temp[f] = v1
          PROVE  HeldBy(f, v1, w)
      <3>1. f = "email"
        BY <1>0, <1>3, <1>5, <1>9, <2>1, <2>2 DEF S!Fields
      <3>. QED  BY <1>5, <1>9, <2>2, <3>1 DEF HeldBy
    <2>. QED  BY <1>0, <1>5, <1>7, <1>8, <1>9, <2>2, OwnerAccount DEF SessionInv
  <1>12. EntryInv'
    BY <1>0, <1>1, <1>7, <1>8, EntryEnter DEF SessionInv
  <1>13. Out(w)' => NoWayIn(w)'
    BY <1>0, <1>3, <1>5, <1>9 DEF Out
  <1>14. \A x \in Users \ {w} :
            /\ Out(x) /\ Out(x)' /\ account[x].state = "live" /\ account[x].phone # None
            /\ q.state = "deleted"
            => q.phone # account[x].phone
    BY <1>3, <1>5 DEF Out
  <1>15. doubled' \subseteq Users
    BY <1>0, <1>1 DEF S!Enter
  <1>16. \A e \in Devices : job'[e].user \in {job[e].user, w, None}
    BY <1>7, <1>8, JobsOthers
  <1>17. /\ UNCHANGED <<scope, sessions, token, contested>> /\ asked' = asked
        /\ block' \in {block, None} /\ doubled' \subseteq Users /\ late' \subseteq Users
        /\ late \subseteq late' \cup {w} /\ (block' # None => late \subseteq late')
    BY <1>0, <1>15
  <1>20. account' = [account EXCEPT ![w] = q]
    BY <1>5
  <1>. QED
    BY <1>20, <1>8, <1>10, <1>11, <1>12, <1>13, <1>14, <1>16, <1>17, AccountStep

LEMMA KeepAsideStep ==
  ASSUME SessionInv, NEW d \in Devices, S!KeepAside(d)
  PROVE  SessionInv'
  <1>0. /\ job[d].pc = "edit" /\ job[d] \in S!Jobs /\ JobOK(job[d])
        /\ UNCHANGED <<scope, sessions, token, block, asked, contested, doubled, late>>
        /\ late \subseteq Users /\ doubled \subseteq Users
    BY DEF S!KeepAside, SessionInv, S!TypeOK, KnownInv
  <1>1. PICK w \in Users : w = job[d].user
    BY <1>0 DEF JobOK
  <1>2. PICK g \in S!Fields : g = job[d].kind
    BY <1>0 DEF S!Jobs
  <1>3. PICK v \in S!Contacts(g) : v = job[d].val
    BY <1>0, <1>2 DEF JobOK
  <1>4. account[w] \in AccountType /\ account \in [Users -> AccountType]
    BY DEF SessionInv, S!TypeOK, AccountType
  <1>5. PICK q \in AccountType :
           /\ account' = [account EXCEPT ![w] = q]
           /\ q.phone = account[w].phone /\ q.email = account[w].email
           /\ \A f \in S!Fields : q.temp[f] = IF f = g THEN v ELSE account[w].temp[f]
           /\ q.state = account[w].state /\ q.blocked = account[w].blocked
    <2>1. account' = [account EXCEPT ![w].temp[g] = v, ![w].codes = @ \cup {g}]
      BY <1>1, <1>2, <1>3 DEF S!KeepAside
    <2>2. PICK t : t = [account[w].temp EXCEPT ![g] = v]
      OBVIOUS
    <2>3. PICK q : q = [account[w] EXCEPT !.temp = t, !.codes = account[w].codes \cup {g}]
      OBVIOUS
    <2>4. /\ t \in [phone : Phones \cup {None}, email : Emails \cup {None}]
          /\ \A f \in S!Fields : t[f] = IF f = g THEN v ELSE account[w].temp[f]
      <3>1. CASE g = "phone"
        BY <1>4, <2>2, <3>1 DEF AccountType, S!Contacts, S!Fields
      <3>2. CASE g = "email"
        BY <1>4, <2>2, <3>2 DEF AccountType, S!Contacts, S!Fields
      <3>. QED  BY <3>1, <3>2 DEF S!Fields
    <2>5. /\ q \in AccountType /\ q.temp = t
          /\ q.phone = account[w].phone /\ q.email = account[w].email
          /\ q.state = account[w].state /\ q.blocked = account[w].blocked
      BY <1>4, <2>3, <2>4 DEF AccountType
    <2>6. account' = [account EXCEPT ![w] = q]
      BY <1>4, <2>1, <2>2, <2>3 DEF AccountType
    <2>. QED  BY <2>4, <2>5, <2>6
  <1>6. /\ S!Idle \in S!Jobs /\ S!Idle.pc = "idle" /\ S!Idle.user = None /\ S!Idle.mail = None
        /\ job' = [job EXCEPT ![d] = S!Idle]
    BY <1>0 DEF S!KeepAside, S!End, S!Goto, S!Jobs, S!Idle, S!Fields
  <1>7. /\ job' \in [Devices -> S!Jobs] /\ job'[d] = S!Idle
        /\ \A e \in Devices \ {d} : job'[e] = job[e]
    BY <1>6, JobSet DEF SessionInv
  <1>8. account'[w] = q /\ \A x \in Users \ {w} : account'[x] = account[x]
    BY <1>5, AccountSet DEF SessionInv
  <1>9. KnownInv'
    <2>1. JobOK(S!Idle)'
      BY <1>6 DEF JobOK, S!Idle
    <2>2. \A u \in Users : account'[u].state = account[u].state /\ account'[u].blocked = account[u].blocked
      BY <1>5, <1>8
    <2>3. \A u \in Users : account[u].state = "none" => ~account[u].blocked
      BY DEF SessionInv, KnownInv
    <2>. QED  BY <1>0, <1>6, <1>7, <2>1, <2>2, <2>3, KnownMove DEF SessionInv
  <1>10. OwnerInv'
    <2>1. ASSUME NEW f \in S!Fields, NEW c \in S!Contacts(f) \ contested',
                 account[w].state = "live",
                 account'[w][f] = c \/ account'[w].temp[f] = c
          PROVE  HeldBy(f, c, w)
      <3>1. CASE account'[w][f] = c
        BY <1>5, <1>8, <2>1, <3>1 DEF HeldBy, S!Fields
      <3>2. CASE account'[w].temp[f] = c /\ f # g
        BY <1>5, <1>8, <2>1, <3>2 DEF HeldBy
      <3>3. CASE account'[w].temp[f] = c /\ f = g
        BY <1>0, <1>1, <1>2, <1>3, <1>5, <1>8, <2>1, <3>3 DEF HeldBy
      <3>. QED  BY <2>1, <3>1, <3>2, <3>3
    <2>. QED  BY <1>0, <1>5, <1>6, <1>7, <1>8, <2>1, OwnerAccount DEF SessionInv
  <1>11. EntryInv'
    BY <1>0, <1>6, <1>7, EntryStay DEF SessionInv, S!SigningIn
  <1>12. Out(w)' => NoWayIn(w)'
    <2>1. ~Out(w)
      BY <1>0, <1>1 DEF SessionInv, OutInv, NoWayIn
    <2>. QED  BY <1>0, <1>5, <1>8, <2>1 DEF Out
  <1>13. \A x \in Users \ {w} :
            /\ Out(x) /\ Out(x)' /\ account[x].state = "live" /\ account[x].phone # None
            /\ q.state = "deleted"
            => q.phone # account[x].phone
    BY <1>5, PhoneFinds
  <1>14. \A e \in Devices : job'[e].user \in {job[e].user, w, None}
    BY <1>6, <1>7, JobsOthers
  <1>15. /\ UNCHANGED <<scope, sessions, token, contested>> /\ asked' = asked
        /\ block' \in {block, None} /\ doubled' \subseteq Users /\ late' \subseteq Users
        /\ late \subseteq late' \cup {w} /\ (block' # None => late \subseteq late')
    BY <1>0
  <1>20. account' = [account EXCEPT ![w] = q]
    BY <1>5
  <1>. QED
    BY <1>20, <1>7, <1>9, <1>10, <1>11, <1>12, <1>13, <1>14, <1>15, AccountStep

LEMMA WriteContactStep ==
  ASSUME SessionInv, NEW d \in Devices, S!WriteContact(d)
  PROVE  SessionInv'
  <1>0. /\ job[d].pc = "edited" /\ job[d] \in S!Jobs /\ JobOK(job[d])
        /\ UNCHANGED <<scope, sessions, token, block, asked, contested, doubled>>
        /\ late \subseteq Users /\ doubled \subseteq Users
    BY DEF S!WriteContact, SessionInv, S!TypeOK, KnownInv
  <1>1. PICK w \in Users : w = job[d].user
    BY <1>0 DEF JobOK
  <1>2. PICK g \in S!Fields : g = job[d].kind
    BY <1>0 DEF S!Jobs
  <1>3. PICK v \in S!Contacts(g) \cup {None} : v = job[d].val
    BY <1>0, <1>2 DEF JobOK
  <1>4. account[w] \in AccountType /\ account \in [Users -> AccountType]
    BY DEF SessionInv, S!TypeOK, AccountType
  <1>5. PICK q \in AccountType :
           /\ account' = [account EXCEPT ![w] = q]
           /\ q.temp = account[w].temp
           /\ \A f \in S!Fields : q[f] = IF f = g THEN v ELSE account[w][f]
           /\ q.state = account[w].state /\ q.blocked = account[w].blocked
    <2>1. account' = [account EXCEPT ![w][g] = v]
      BY <1>1, <1>2, <1>3 DEF S!WriteContact
    <2>2. PICK q : q = [account[w] EXCEPT ![g] = v]
      OBVIOUS
    <2>3. /\ q \in AccountType /\ q.temp = account[w].temp
          /\ \A f \in S!Fields : q[f] = IF f = g THEN v ELSE account[w][f]
          /\ q.state = account[w].state /\ q.blocked = account[w].blocked
      <3>1. CASE g = "phone"
        BY <1>4, <2>2, <3>1 DEF AccountType, S!Contacts, S!Fields
      <3>2. CASE g = "email"
        BY <1>4, <2>2, <3>2 DEF AccountType, S!Contacts, S!Fields
      <3>. QED  BY <3>1, <3>2 DEF S!Fields
    <2>4. account' = [account EXCEPT ![w] = q]
      BY <1>4, <2>1, <2>2
    <2>. QED  BY <2>3, <2>4
  <1>6. /\ S!Idle \in S!Jobs /\ S!Idle.pc = "idle" /\ S!Idle.user = None /\ S!Idle.mail = None
        /\ job' = [job EXCEPT ![d] = S!Idle]
    BY <1>0 DEF S!WriteContact, S!End, S!Goto, S!Jobs, S!Idle, S!Fields
  <1>7. /\ job' \in [Devices -> S!Jobs] /\ job'[d] = S!Idle
        /\ \A e \in Devices \ {d} : job'[e] = job[e]
    BY <1>6, JobSet DEF SessionInv
  <1>8. account'[w] = q /\ \A x \in Users \ {w} : account'[x] = account[x]
    BY <1>5, AccountSet DEF SessionInv
  <1>9. /\ late \subseteq late' /\ late' \subseteq Users
        /\ account[w].blocked /\ account[w][g] \in contested => w \in late'
        /\ \A x \in Users \ {w} :
              /\ account[x].blocked /\ g = "phone" /\ account[w].state = "deleted"
              /\ account[x].phone = v
              => x \in late'
    BY <1>0, <1>1, <1>2, <1>3 DEF S!WriteContact
  <1>10. KnownInv'
    <2>1. JobOK(S!Idle)'
      BY <1>6 DEF JobOK, S!Idle
    <2>2. \A u \in Users : account'[u].state = account[u].state /\ account'[u].blocked = account[u].blocked
      BY <1>5, <1>8
    <2>3. \A u \in Users : account[u].state = "none" => ~account[u].blocked
      BY DEF SessionInv, KnownInv
    <2>. QED  BY <1>0, <1>6, <1>7, <2>1, <2>2, <2>3, KnownMove DEF SessionInv
  <1>11. OwnerInv'
    <2>1. ASSUME NEW f \in S!Fields, NEW c \in S!Contacts(f) \ contested',
                 account[w].state = "live",
                 account'[w][f] = c \/ account'[w].temp[f] = c
          PROVE  HeldBy(f, c, w)
      <3>1. CASE account'[w].temp[f] = c
        BY <1>5, <1>8, <2>1, <3>1 DEF HeldBy
      <3>2. CASE account'[w][f] = c /\ f # g
        BY <1>5, <1>8, <2>1, <3>2 DEF HeldBy
      <3>3. CASE account'[w][f] = c /\ f = g
        BY <1>0, <1>1, <1>2, <1>3, <1>5, <1>8, <2>1, <3>3 DEF HeldBy
      <3>. QED  BY <2>1, <3>1, <3>2, <3>3
    <2>. QED  BY <1>0, <1>5, <1>6, <1>7, <1>8, <2>1, OwnerAccount DEF SessionInv
  <1>12. EntryInv'
    BY <1>0, <1>6, <1>7, EntryStay DEF SessionInv, S!SigningIn
  <1>13. Out(w)' => NoWayIn(w)'
    <2>1. ~Out(w)
      BY <1>0, <1>1 DEF SessionInv, OutInv, NoWayIn
    <2>2. \A f \in S!Fields : f # g => q[f] = account[w][f]
      BY <1>5
    <2>3. CASE g = "phone"
      BY <1>0, <1>5, <1>8, <1>9, <2>1, <2>2, <2>3 DEF Out, S!Fields
    <2>4. CASE g = "email"
      BY <1>0, <1>5, <1>8, <1>9, <2>1, <2>2, <2>4 DEF Out, S!Fields
    <2>. QED  BY <2>3, <2>4 DEF S!Fields
  <1>14. \A x \in Users \ {w} :
            /\ Out(x) /\ Out(x)' /\ account[x].state = "live" /\ account[x].phone # None
            /\ q.state = "deleted"
            => q.phone # account[x].phone
    <2>. SUFFICES ASSUME NEW x \in Users \ {w}, Out(x), Out(x)', account[x].state = "live",
                         account[x].phone # None, q.state = "deleted"
                  PROVE  q.phone # account[x].phone
      OBVIOUS
    <2>1. CASE g = "phone"
      BY <1>5, <1>9, <2>1 DEF Out, S!Fields
    <2>2. CASE g # "phone"
      <3>1. q.phone = account[w].phone
        BY <1>5, <2>2 DEF S!Fields
      <3>. QED  BY <1>5, <3>1, PhoneFinds
    <2>. QED  BY <2>1, <2>2
  <1>15. \A e \in Devices : job'[e].user \in {job[e].user, w, None}
    BY <1>6, <1>7, JobsOthers
  <1>16. /\ UNCHANGED <<scope, sessions, token, contested>> /\ asked' = asked
        /\ block' \in {block, None} /\ doubled' \subseteq Users /\ late' \subseteq Users
        /\ late \subseteq late' \cup {w} /\ (block' # None => late \subseteq late')
    BY <1>0, <1>9
  <1>20. account' = [account EXCEPT ![w] = q]
    BY <1>5
  <1>. QED
    BY <1>20, <1>7, <1>10, <1>11, <1>12, <1>13, <1>14, <1>15, <1>16, AccountStep

LEMMA CreateAccountStep ==
  ASSUME SessionInv, NEW d \in Devices, S!CreateAccount(d)
  PROVE  SessionInv'
  <1>0. /\ job[d].pc = "create" /\ job[d] \in S!Jobs /\ JobOK(job[d])
        /\ UNCHANGED <<scope, sessions, token, block, asked, contested, doubled, late>>
        /\ late \subseteq Users /\ doubled \subseteq Users
    BY DEF S!CreateAccount, SessionInv, S!TypeOK, KnownInv
  <1>. DEFINE X == {x \in Users : account[x].state = "none"}
  <1>1. PICK w \in Users : w = S!Min(X) /\ account[w].state = "none"
    <2>1. X # {} /\ X \in SUBSET Users
      BY DEF S!CreateAccount
    <2>2. S!First(X) = S!Min(X)
      BY <2>1 DEF S!First
    <2>. QED  BY <2>1, <2>2, FirstOf
  <1>2. PICK g \in S!Fields : g = job[d].kind
    BY <1>0 DEF S!Jobs
  <1>3. PICK v \in S!Contacts(g) : v = job[d].val
    BY <1>0, <1>2 DEF JobOK
  <1>4. PICK m \in Emails \cup {None} : m = job[d].mail
    BY <1>0 DEF S!Jobs
  <1>5. PICK q \in AccountType :
           /\ account' = [account EXCEPT ![w] = q]
           /\ q.state = "live" /\ q.blocked = FALSE
           /\ q.temp.phone = None /\ q.temp.email = m
           /\ \A f \in S!Fields : q[f] = IF f = g THEN v ELSE None
    <2>. DEFINE codes == IF m = None THEN {} ELSE {"email"}
    <2>1. PICK q : q = [S!NoAccount EXCEPT !.state = "live", ![g] = v,
                                           !.temp.email = m, !.codes = codes]
      OBVIOUS
    <2>2. account' = [account EXCEPT ![w] = q]
      BY <1>1, <1>2, <1>3, <1>4, <2>1 DEF S!CreateAccount
    <2>3. codes \in SUBSET S!Fields
      BY DEF S!Fields
    <2>. HIDE DEF codes
    <2>4. PICK t : t = [S!NoAccount.temp EXCEPT !.email = m]
      OBVIOUS
    <2>5. t.phone = None /\ t.email = m /\ t = [phone |-> t.phone, email |-> t.email]
      BY <2>4 DEF S!NoAccount
    <2>6. /\ q \in AccountType
          /\ q.state = "live" /\ q.blocked = FALSE /\ q.temp = t
          /\ \A f \in S!Fields : q[f] = IF f = g THEN v ELSE None
      <3>1. t \in [phone : Phones \cup {None}, email : Emails \cup {None}]
        BY <2>5
      <3>2. CASE g = "phone"
        <4>1. q = [state |-> "live", phone |-> v, email |-> None, temp |-> t,
                   codes |-> codes, blocked |-> FALSE]
          BY <2>1, <2>4, <3>2 DEF S!NoAccount
        <4>2. v \in Phones
          BY <3>2 DEF S!Contacts
        <4>. QED  BY <2>3, <3>1, <3>2, <4>1, <4>2 DEF AccountType, S!Fields
      <3>3. CASE g = "email"
        <4>1. q = [state |-> "live", phone |-> None, email |-> v, temp |-> t,
                   codes |-> codes, blocked |-> FALSE]
          BY <2>1, <2>4, <3>3 DEF S!NoAccount
        <4>2. v \in Emails
          BY <3>3 DEF S!Contacts
        <4>. QED  BY <2>3, <3>1, <3>3, <4>1, <4>2 DEF AccountType, S!Fields
      <3>. QED  BY <3>2, <3>3 DEF S!Fields
    <2>. QED  BY <2>2, <2>5, <2>6
  <1>. DEFINE pc == IF g = "phone" THEN "device" ELSE "session"
  <1>6. job' = [job EXCEPT ![d] = [job[d] EXCEPT !.user = w, !.mail = None, !.pc = pc]]
    BY <1>1, <1>2 DEF S!CreateAccount, S!Goto
  <1>7. pc \in {"device", "session"}
    OBVIOUS
  <1>. HIDE DEF pc, X
  <1>8. PICK j : j = [job[d] EXCEPT !.user = w, !.mail = None, !.pc = pc]
    OBVIOUS
  <1>9. /\ j \in S!Jobs /\ j.pc = pc /\ j.user = w /\ j.kind = g /\ j.val = v
        /\ j.mail = None /\ job' = [job EXCEPT ![d] = j]
    BY <1>0, <1>2, <1>3, <1>6, <1>7, <1>8 DEF S!Jobs
  <1>10. /\ job' \in [Devices -> S!Jobs] /\ job'[d] = j
         /\ \A e \in Devices \ {d} : job'[e] = job[e]
    BY <1>9, JobSet DEF SessionInv
  <1>11. account'[w] = q /\ \A x \in Users \ {w} : account'[x] = account[x]
    BY <1>5, AccountSet DEF SessionInv
  <1>12. /\ \A e \in Devices : job[e].user # w
         /\ S!Rows(w) = {} /\ \A x : S!Rows(x)' = S!Rows(x)
    BY <1>0, <1>1, SessionAssumption DEF SessionInv, KnownInv, S!Rows
  <1>13. KnownInv'
    <2>1. JobOK(j)'
      BY <1>7, <1>9 DEF JobOK
    <2>2. \A u \in Users : account'[u].state = "none" =>
             account[u].state = "none" /\ account'[u].blocked = account[u].blocked
      BY <1>5, <1>11
    <2>3. \A u \in Users : account[u].state = "none" => ~account[u].blocked
      BY DEF SessionInv, KnownInv
    <2>. QED  BY <1>0, <1>5, <1>9, <1>10, <1>11, <2>1, <2>2, <2>3, KnownMove DEF SessionInv
  <1>14. OwnerInv'
    <2>. SUFFICES ASSUME NEW f \in S!Fields, NEW c \in S!Contacts(f) \ contested'
                  PROVE  /\ \A u, y \in Users : HeldBy(f, c, u)' /\ HeldBy(f, c, y)' => u = y
                         /\ \A b, e \in Devices : MadeBy(f, c, b)' /\ MadeBy(f, c, e)' => b = e
                         /\ \A u \in Users, e \in Devices : ~(HeldBy(f, c, u)' /\ MadeBy(f, c, e)')
      BY DEF OwnerInv, S!Contacts
    <2>1. c # None /\ c \notin contested
      BY <1>0, SessionAssumption DEF S!Fields, S!Contacts
    <2>2. ASSUME NEW x \in Users \ {w}, HeldBy(f, c, x)' PROVE HeldBy(f, c, x)
      <3>1. \A e \in Devices : job'[e].pc \in {"edit", "edited"} => job'[e] = job[e]
        BY <1>7, <1>9, <1>10
      <3>. QED  BY <1>11, <2>2, <3>1 DEF HeldBy
    <2>3. ASSUME HeldBy(f, c, w)' PROVE MadeBy(f, c, d)
      <3>1. \A e \in Devices : job'[e].pc \in {"edit", "edited"} => job'[e].user # w
        BY <1>7, <1>9, <1>10, <1>12
      <3>2. q[f] = c \/ q.temp[f] = c
        BY <1>11, <2>3, <3>1 DEF HeldBy
      <3>3. q[f] = c => f = g /\ c = v
        BY <1>5, <2>1
      <3>4. q.temp[f] = c => f = "email" /\ c = m
        BY <1>5, <2>1 DEF S!Fields
      <3>. QED  BY <1>0, <1>2, <1>3, <1>4, <3>2, <3>3, <3>4 DEF MadeBy
    <2>4. ASSUME NEW e \in Devices, MadeBy(f, c, e)' PROVE e # d /\ MadeBy(f, c, e)
      <3>1. e # d
        BY <1>7, <1>9, <1>10, <2>1, <2>4 DEF MadeBy
      <3>. QED  BY <1>10, <2>4, <3>1 DEF MadeBy
    <2>. QED  BY <2>1, <2>2, <2>3, <2>4 DEF SessionInv, OwnerInv
  <1>15. EntryInv'
    <2>1. ASSUME NEW x \in Users \ doubled
          PROVE  /\ \A b, e \in Devices : S!SigningIn(b, x)' /\ S!SigningIn(e, x)' => b = e
                 /\ \A e \in Devices :
                       job'[e].pc \in {"device", "session"} /\ job'[e].user = x => S!Rows(x)' = {}
                 /\ \A s, t \in S!Rows(x)' : s = t
      <3>1. CASE x = w
        BY <1>10, <1>12, <3>1 DEF S!SigningIn
      <3>2. CASE x # w
        BY <1>9, <1>10, <1>12, <3>2 DEF SessionInv, EntryInv, S!SigningIn
      <3>. QED  BY <3>1, <3>2
    <2>. QED  BY <1>0, <2>1 DEF EntryInv
  <1>16. Out(w)' => NoWayIn(w)'
    BY <1>5, <1>11 DEF Out
  <1>17. \A x \in Users \ {w} :
            /\ Out(x) /\ Out(x)' /\ account[x].state = "live" /\ account[x].phone # None
            /\ q.state = "deleted"
            => q.phone # account[x].phone
    BY <1>5
  <1>18. \A e \in Devices : job'[e].user \in {job[e].user, w, None}
    BY <1>7, <1>9, <1>10, JobsOthers
  <1>19. /\ UNCHANGED <<scope, sessions, token, contested>> /\ asked' = asked
         /\ block' \in {block, None} /\ doubled' \subseteq Users /\ late' \subseteq Users
         /\ late \subseteq late' \cup {w} /\ (block' # None => late \subseteq late')
    BY <1>0
  <1>20. account' = [account EXCEPT ![w] = q]
    BY <1>5
  <1>. QED
    BY <1>10, <1>13, <1>14, <1>15, <1>16, <1>17, <1>18, <1>19, <1>20, AccountStep

\* Only the account w changes: its state, its codes or its mark, and no contact.
LEMMA MarkStep ==
  ASSUME SessionInv, NEW w \in Users, NEW q \in AccountType, account' = [account EXCEPT ![w] = q],
         UNCHANGED <<scope, sessions, job, token, contested, doubled>>,
         asked' = asked \/ (asked < MaxRequests /\ asked' = asked + 1),
         block' \in {block, None}, late' \subseteq Users, late \subseteq late' \cup {w},
         block' # None => late \subseteq late',
         q.phone = account[w].phone, q.email = account[w].email, q.temp = account[w].temp,
         q.state = account[w].state \/ (q.state = "deleted" /\ account[w].state # "none"),
         q.state = "none" => ~q.blocked, Out(w)' => NoWayIn(w)',
         \A x \in Users \ {w} :
            /\ Out(x) /\ Out(x)' /\ account[x].state = "live" /\ account[x].phone # None
            /\ q.state = "deleted"
            => q.phone # account[x].phone
  PROVE  SessionInv'
  <1>0. account'[w] = q /\ \A x \in Users \ {w} : account'[x] = account[x]
    BY AccountSet DEF SessionInv
  <1>1. KnownInv'
    <2>1. /\ \A u \in Users : account'[u].state = "none" => account[u].state = "none"
          /\ \A u \in Users : account'[u].state = "none" => ~account'[u].blocked
      BY <1>0 DEF SessionInv, KnownInv
    <2>. QED  BY <2>1, KnownStay DEF SessionInv
  <1>2. OwnerInv'
    <2>1. ASSUME NEW f \in S!Fields, NEW c \in S!Contacts(f) \ contested',
                 account[w].state = "live",
                 account'[w][f] = c \/ account'[w].temp[f] = c
          PROVE  HeldBy(f, c, w)
      <3>1. account'[w][f] = account[w][f] /\ account'[w].temp[f] = account[w].temp[f]
        BY <1>0 DEF S!Fields
      <3>. QED  BY <2>1, <3>1 DEF HeldBy
    <2>. QED  BY <1>0, <2>1, OwnerAccount DEF SessionInv
  <1>3. EntryInv'
    BY EntryStay DEF SessionInv, S!SigningIn
  <1>4. \A e \in Devices : job'[e].user \in {job[e].user, w, None}
    OBVIOUS
  <1>5. job' \in [Devices -> S!Jobs] /\ doubled' \subseteq Users
    BY DEF SessionInv, S!TypeOK
  <1>. QED  BY <1>1, <1>2, <1>3, <1>4, <1>5, AccountStep

LEMMA DeleteAccountStep ==
  ASSUME SessionInv, NEW d \in Devices, NEW w \in Users, S!DeleteAccount(d, w)
  PROVE  SessionInv'
  <1>1. account[w] \in AccountType /\ account \in [Users -> AccountType] /\ late \subseteq Users
    BY DEF SessionInv, S!TypeOK, AccountType
  <1>2. /\ UNCHANGED <<scope, sessions, job, token, block, contested, doubled, late>>
        /\ asked < MaxRequests /\ asked' = asked + 1
        /\ account' = [account EXCEPT ![w].state = "deleted"]
        /\ ~Out(w) /\ account[w].state # "none"
    BY AuthorizedIn DEF S!DeleteAccount, S!Begin
  <1>3. PICK q : q = [account[w] EXCEPT !.state = "deleted"]
    OBVIOUS
  <1>4. /\ q \in AccountType /\ q.state = "deleted" /\ q.phone = account[w].phone
        /\ q.email = account[w].email /\ q.temp = account[w].temp
        /\ q.blocked = account[w].blocked
    BY <1>1, <1>3 DEF AccountType
  <1>5. account' = [account EXCEPT ![w] = q]
    BY <1>1, <1>2, <1>3
  <1>6. account'[w] = q
    BY <1>4, <1>5, AccountSet DEF SessionInv
  <1>7. Out(w)' => NoWayIn(w)'
    BY <1>2, <1>4, <1>6 DEF Out
  <1>8. \A x \in Users \ {w} :
            /\ Out(x) /\ Out(x)' /\ account[x].state = "live" /\ account[x].phone # None
            /\ q.state = "deleted"
            => q.phone # account[x].phone
    <2>. SUFFICES ASSUME NEW x \in Users \ {w}, Out(x), account[x].state = "live",
                         account[x].phone # None, account[w].phone = account[x].phone
                  PROVE  FALSE
      BY <1>4
    <2>1. account[w].state = "live"
      BY <1>1, <1>2, PhoneFinds DEF AccountType
    <2>2. account[x].phone \in S!Contacts("phone") \ contested /\ "phone" \in S!Fields
      BY DEF Out, S!Contacts, S!Fields, SessionInv, S!TypeOK
    <2>3. HeldBy("phone", account[x].phone, x) /\ HeldBy("phone", account[x].phone, w)
      BY <2>1 DEF HeldBy
    <2>. QED  BY <2>2, <2>3 DEF SessionInv, OwnerInv
  <1>9. /\ block' \in {block, None} /\ late' \subseteq Users /\ late \subseteq late' \cup {w}
        /\ (block' # None => late \subseteq late')
    BY <1>1, <1>2
  <1>. QED  BY <1>2, <1>4, <1>5, <1>7, <1>8, <1>9, MarkStep

LEMMA ResendOtpStep ==
  ASSUME SessionInv, NEW f \in S!Fields, NEW e \in Emails \cup {None}, S!ResendOtp(f, e)
  PROVE  SessionInv'
  <1>. DEFINE X == {x \in Users :
                       /\ account[x].state # "none"
                       /\ e = None \/ e \in {account[x].email, account[x].temp.email}}
  <1>1. PICK w \in Users : w = S!First(X) /\ account[w].state # "none"
    <2>1. X \in SUBSET Users /\ S!First(X) # None
      BY DEF S!ResendOtp
    <2>. QED  BY <2>1, FirstOf
  <1>2. account[w] \in AccountType /\ account \in [Users -> AccountType] /\ late \subseteq Users
    BY DEF SessionInv, S!TypeOK, AccountType
  <1>3. /\ UNCHANGED <<scope, sessions, job, token, block, contested, doubled, late>>
        /\ asked < MaxRequests /\ asked' = asked + 1
        /\ account' = [account EXCEPT ![w].codes = @ \cup {f}]
    BY <1>1 DEF S!ResendOtp
  <1>4. PICK q : q = [account[w] EXCEPT !.codes = account[w].codes \cup {f}]
    OBVIOUS
  <1>5. /\ q \in AccountType /\ q.state = account[w].state /\ q.phone = account[w].phone
        /\ q.email = account[w].email /\ q.temp = account[w].temp
        /\ q.blocked = account[w].blocked
    BY <1>2, <1>4 DEF AccountType
  <1>6. account' = [account EXCEPT ![w] = q]
    BY <1>2, <1>3, <1>4
  <1>7. account'[w] = q /\ \A x \in Users \ {w} : account'[x] = account[x]
    BY <1>5, <1>6, AccountSet DEF SessionInv
  <1>8. Out(w)' => NoWayIn(w)'
    <2>1. Out(w)' => Out(w) /\ NoWayIn(w)
      BY <1>3, <1>5, <1>7 DEF Out, SessionInv, OutInv
    <2>2. NoWayIn(w) => NoWayIn(w)'
      BY <1>3, <1>5, <1>7 DEF NoWayIn, S!Rows
    <2>. QED  BY <2>1, <2>2
  <1>9. \A x \in Users \ {w} :
            /\ Out(x) /\ Out(x)' /\ account[x].state = "live" /\ account[x].phone # None
            /\ q.state = "deleted"
            => q.phone # account[x].phone
    BY <1>5, PhoneFinds
  <1>10. /\ block' \in {block, None} /\ late' \subseteq Users /\ late \subseteq late' \cup {w}
         /\ (block' # None => late \subseteq late')
    BY <1>2, <1>3
  <1>. QED  BY <1>1, <1>3, <1>5, <1>6, <1>8, <1>9, <1>10, MarkStep

LEMMA BlockMarkStep ==
  ASSUME SessionInv, S!BlockMark
  PROVE  SessionInv'
  <1>1. PICK w \in Users : w = block
    BY DEF S!BlockMark, SessionInv, S!TypeOK
  <1>2. account[w] \in AccountType /\ account \in [Users -> AccountType] /\ late \subseteq Users
    BY DEF SessionInv, S!TypeOK, AccountType
  <1>3. /\ UNCHANGED <<scope, sessions, job, token, asked, contested, doubled>>
        /\ account' = [account EXCEPT ![w].blocked = TRUE]
        /\ late' = (IF S!Escapes(w) THEN late \cup {w} ELSE late) /\ block' = None
        /\ w # None
    BY <1>1 DEF S!BlockMark
  <1>4. PICK yes \in BOOLEAN : yes = TRUE
    OBVIOUS
  <1>5. PICK q : q = [account[w] EXCEPT !.blocked = yes]
    OBVIOUS
  <1>6. /\ q \in AccountType /\ q.state = account[w].state /\ q.phone = account[w].phone
        /\ q.email = account[w].email /\ q.temp = account[w].temp
    BY <1>2, <1>5 DEF AccountType
  <1>7. account' = [account EXCEPT ![w] = q]
    BY <1>2, <1>3, <1>4, <1>5
  <1>8. account'[w] = q /\ \A x \in Users \ {w} : account'[x] = account[x]
    BY <1>6, <1>7, AccountSet DEF SessionInv
  <1>9. Out(w)' => NoWayIn(w)'
    <2>. SUFFICES ASSUME Out(w)' PROVE NoWayIn(w)'
      OBVIOUS
    <2>1. w \notin late /\ ~S!Escapes(w)
      BY <1>3 DEF Out
    <2>2. S!Rows(w) = {}
      BY <1>1, <1>3, <2>1 DEF SessionInv, OutInv
    <2>3. /\ \A d \in Devices : job[d].pc = "idle"
          /\ account[w].temp.phone \in {None, account[w].phone}
          /\ \A x \in Users \ {w} : account[x].state = "deleted" => account[x].phone # account[w].phone
      BY <2>1 DEF S!Escapes
    <2>4. \A d \in Devices : job[d].user = None
      BY <2>3 DEF SessionInv, KnownInv, JobOK
    <2>5. \A d \in Devices : \A t \in token[d] : t.phone # account[w].phone
      BY <2>1 DEF S!Escapes
    <2>. QED  BY <1>3, <1>6, <1>8, <2>2, <2>3, <2>4, <2>5 DEF NoWayIn, S!Rows
  <1>10. account[w].state # "none"
    BY <1>1, <1>3 DEF SessionInv, KnownInv
  <1>11. \A x \in Users \ {w} :
            /\ Out(x) /\ Out(x)' /\ account[x].state = "live" /\ account[x].phone # None
            /\ q.state = "deleted"
            => q.phone # account[x].phone
    BY <1>6, PhoneFinds
  <1>12. /\ block' \in {block, None} /\ late' \subseteq Users /\ late \subseteq late' \cup {w}
         /\ (block' # None => late \subseteq late')
    BY <1>2, <1>3
  <1>. QED  BY <1>3, <1>6, <1>7, <1>9, <1>10, <1>11, <1>12, MarkStep

LEMMA UnblockStep ==
  ASSUME SessionInv, NEW w \in Users, S!Unblock(w)
  PROVE  SessionInv'
  <1>1. account[w] \in AccountType /\ account \in [Users -> AccountType] /\ late \subseteq Users
    BY DEF SessionInv, S!TypeOK, AccountType
  <1>2. /\ UNCHANGED <<scope, sessions, job, token, block, contested, doubled>>
        /\ asked < MaxRequests /\ asked' = asked + 1
        /\ account' = [account EXCEPT ![w].blocked = FALSE]
        /\ late' = late \ {w} /\ block = None
    BY DEF S!Unblock
  <1>3. PICK no \in BOOLEAN : no = FALSE
    OBVIOUS
  <1>4. PICK q : q = [account[w] EXCEPT !.blocked = no]
    OBVIOUS
  <1>5. /\ q \in AccountType /\ q.state = account[w].state /\ q.phone = account[w].phone
        /\ q.email = account[w].email /\ q.temp = account[w].temp /\ q.blocked = no
    BY <1>1, <1>4 DEF AccountType
  <1>6. account' = [account EXCEPT ![w] = q]
    BY <1>1, <1>2, <1>3, <1>4
  <1>7. account'[w] = q
    BY <1>5, <1>6, AccountSet DEF SessionInv
  <1>8. Out(w)' => NoWayIn(w)'
    BY <1>3, <1>5, <1>7 DEF Out
  <1>9. \A x \in Users \ {w} :
            /\ Out(x) /\ Out(x)' /\ account[x].state = "live" /\ account[x].phone # None
            /\ q.state = "deleted"
            => q.phone # account[x].phone
    BY <1>5, PhoneFinds
  <1>10. /\ block' \in {block, None} /\ late' \subseteq Users /\ late \subseteq late' \cup {w}
         /\ (block' # None => late \subseteq late')
    BY <1>1, <1>2
  <1>11. ~q.blocked
    BY <1>3, <1>5
  <1>. QED  BY <1>2, <1>5, <1>6, <1>8, <1>9, <1>10, <1>11, MarkStep
\* A set without two members has at most one.
LEMMA AtMostOne ==
  ASSUME NEW X, \A x, y \in X : x = y
  PROVE  S!Cardinality(X) <= 1
  <1>1. S!Cardinality(X) = Cardinality(X)
    BY DEF S!Cardinality, Cardinality
  <1>2. CASE X = {}
    BY <1>1, <1>2, FS_EmptySet
  <1>3. CASE X # {}
    <2>1. PICK x \in X : X = {x}
      BY <1>3
    <2>. QED  BY <1>1, <2>1, FS_Singleton
  <1>. QED  BY <1>2, <1>3


\* The steps that change the sessions, and perhaps the request that changes them.
LEMMA SessionsStep ==
  ASSUME SessionInv, UNCHANGED <<scope, account, contested, token>>,
         asked' = asked \/ (asked < MaxRequests /\ asked' = asked + 1),
         job' \in [Devices -> S!Jobs], block' \in Users \cup {None}, doubled' \subseteq Users,
         late' \subseteq Users, late \subseteq late',
         sessions' \subseteq [user : Users, by : Devices, fcm : Devices, no : 1 .. 2],
         \A e \in Devices : job'[e].user \in {job[e].user, None},
         KnownInv', OwnerInv', EntryInv',
         \A x \in Users : Out(x) /\ Out(x)' => S!Rows(x)' = {},
         block' # None /\ block' \notin late' => S!Rows(block)' = {}
  PROVE  SessionInv'
  <1>1. S!TypeOK'
    BY TypeKept DEF SessionInv, S!TypeOK, AccountType
  <1>2. OutInv'
    <2>1. ASSUME NEW x \in Users, Out(x)' PROVE NoWayIn(x)'
      <3>1. Out(x) /\ NoWayIn(x)
        BY <2>1 DEF Out, SessionInv, OutInv
      <3>2. S!Rows(x)' = {}
        BY <2>1, <3>1
      <3>3. \A e \in Devices : job'[e].user # x
        BY <3>1, SessionAssumption DEF NoWayIn
      <3>. QED  BY <3>1, <3>2, <3>3 DEF NoWayIn
    <2>. QED  BY <2>1 DEF OutInv
  <1>. QED  BY <1>1, <1>2 DEF SessionInv

\* The sessions of a user end, as far as the step goes.
LEMMA RowsEnd ==
  ASSUME SessionInv, sessions' \subseteq sessions
  PROVE  /\ sessions' \subseteq [user : Users, by : Devices, fcm : Devices, no : 1 .. 2]
         /\ \A x \in Users : Out(x) /\ Out(x)' => S!Rows(x)' = {}
         /\ \A x : S!Rows(x)' \subseteq S!Rows(x)
         /\ block' = block /\ late' = late =>
               (block' # None /\ block' \notin late' => S!Rows(block)' = {})
  <1>1. \A x : S!Rows(x)' \subseteq S!Rows(x)
    BY DEF S!Rows
  <1>2. sessions' \subseteq [user : Users, by : Devices, fcm : Devices, no : 1 .. 2]
    BY DEF SessionInv, S!TypeOK
  <1>3. \A x \in Users : Out(x) => S!Rows(x) = {}
    BY DEF SessionInv, OutInv, NoWayIn
  <1>4. block' = block /\ late' = late =>
               (block' # None /\ block' \notin late' => S!Rows(block)' = {})
    BY DEF SessionInv, OutInv, S!Rows
  <1>. QED  BY <1>1, <1>2, <1>3, <1>4

LEMMA LoginDeleteStep ==
  ASSUME SessionInv, NEW d \in Devices, S!LoginDelete(d)
  PROVE  SessionInv'
  <1>0. /\ job[d].pc = "login" /\ job[d] \in S!Jobs /\ JobOK(job[d])
        /\ UNCHANGED <<scope, account, token, block, asked, contested, late>>
        /\ contested \subseteq Phones \cup Emails /\ late \subseteq Users /\ doubled \subseteq Users
    BY DEF S!LoginDelete, SessionInv, S!TypeOK, KnownInv
  <1>1. PICK w \in Users : w = job[d].user
    BY <1>0 DEF JobOK
  <1>2. /\ sessions' = sessions \ S!Rows(w)
        /\ doubled' = IF \E e \in Devices \ {d} : S!SigningIn(e, w)
                      THEN doubled ELSE doubled \ {w}
    BY <1>1 DEF S!LoginDelete
  <1>3. PICK j : j = [job[d] EXCEPT !.pc = "session"]
    OBVIOUS
  <1>4. /\ j \in S!Jobs /\ j.pc = "session" /\ j.user = w /\ j.kind = job[d].kind
        /\ j.val = job[d].val /\ j.mail = job[d].mail /\ job' = [job EXCEPT ![d] = j]
    BY <1>0, <1>1, <1>3 DEF S!Jobs, S!LoginDelete, S!Goto
  <1>5. /\ job' \in [Devices -> S!Jobs] /\ job'[d] = j
        /\ \A e \in Devices \ {d} : job'[e] = job[e]
    BY <1>4, JobSet DEF SessionInv
  <1>6. /\ sessions' \subseteq sessions /\ S!Rows(w)' = {}
        /\ \A x : S!Rows(x)' \subseteq S!Rows(x)
    BY <1>2 DEF S!Rows
  <1>7. KnownInv'
    <2>1. JobOK(j)'
      BY <1>0, <1>1, <1>4 DEF JobOK
    <2>2. account[w].state # "none"
      BY <1>1, SessionAssumption DEF SessionInv, KnownInv
    <2>3. \A u \in Users : account[u].state = "none" => ~account[u].blocked
      BY DEF SessionInv, KnownInv
    <2>. QED  BY <1>0, <1>4, <1>5, <1>6, <2>1, <2>2, <2>3, KnownMove DEF SessionInv
  <1>8. OwnerInv'
    BY <1>0, <1>4, <1>5, OwnerJob DEF SessionInv, MadeBy
  <1>9. EntryInv'
    <2>1. ASSUME NEW x \in Users \ doubled'
          PROVE  /\ \A b, e \in Devices : S!SigningIn(b, x)' /\ S!SigningIn(e, x)' => b = e
                 /\ \A e \in Devices :
                       job'[e].pc \in {"device", "session"} /\ job'[e].user = x => S!Rows(x)' = {}
                 /\ \A s, t \in S!Rows(x)' : s = t
      <3>1. CASE x = w
        <4>1. \A b, e \in Devices : S!SigningIn(b, x)' /\ S!SigningIn(e, x)' => b = e
          <5>1. CASE w \in doubled
            <6>1. \A e \in Devices \ {d} : ~S!SigningIn(e, w)
              BY <1>2, <2>1, <3>1, <5>1
            <6>. QED  BY <1>5, <3>1, <6>1 DEF S!SigningIn
          <5>2. CASE w \notin doubled
            <6>1. \A b, e \in Devices : S!SigningIn(b, w) /\ S!SigningIn(e, w) => b = e
              BY <5>2 DEF SessionInv, EntryInv
            <6>2. \A e \in Devices : S!SigningIn(e, w)' => S!SigningIn(e, w)
              BY <1>0, <1>1, <1>5 DEF S!SigningIn
            <6>. QED  BY <3>1, <6>1, <6>2
          <5>. QED  BY <5>1, <5>2
        <4>. QED  BY <1>6, <3>1, <4>1
      <3>2. CASE x # w
        <4>1. x \notin doubled
          BY <1>2, <2>1, <3>2
        <4>. QED  BY <1>4, <1>5, <1>6, <3>2, <4>1 DEF SessionInv, EntryInv, S!SigningIn
      <3>. QED  BY <3>1, <3>2
    <2>. QED  BY <2>1 DEF EntryInv
  <1>10. \A e \in Devices : job'[e].user \in {job[e].user, None}
    BY <1>1, <1>4, <1>5
  <1>11. doubled' \subseteq Users
    BY <1>0, <1>2
  <1>12. block' \in Users \cup {None}
    BY <1>0 DEF SessionInv, S!TypeOK
  <1>. QED
    BY <1>0, <1>5, <1>6, <1>7, <1>8, <1>9, <1>10, <1>11, <1>12, RowsEnd, SessionsStep

LEMMA ForgetDeviceStep ==
  ASSUME SessionInv, NEW d \in Devices, S!ForgetDevice(d)
  PROVE  SessionInv'
  <1>0. /\ job[d].pc = "device" /\ job[d] \in S!Jobs /\ JobOK(job[d])
        /\ UNCHANGED <<scope, account, token, block, asked, contested, doubled, late>>
        /\ sessions' \subseteq sessions
        /\ contested \subseteq Phones \cup Emails /\ late \subseteq Users /\ doubled \subseteq Users
    BY DEF S!ForgetDevice, SessionInv, S!TypeOK, KnownInv
  <1>1. PICK w \in Users : w = job[d].user
    BY <1>0 DEF JobOK
  <1>2. PICK j : j = [job[d] EXCEPT !.pc = "session"]
    OBVIOUS
  <1>3. /\ j \in S!Jobs /\ j.pc = "session" /\ j.user = w /\ j.kind = job[d].kind
        /\ j.val = job[d].val /\ j.mail = job[d].mail /\ job' = [job EXCEPT ![d] = j]
    BY <1>0, <1>1, <1>2 DEF S!Jobs, S!ForgetDevice, S!Goto
  <1>4. /\ job' \in [Devices -> S!Jobs] /\ job'[d] = j
        /\ \A e \in Devices \ {d} : job'[e] = job[e]
    BY <1>3, JobSet DEF SessionInv
  <1>5. KnownInv'
    <2>1. JobOK(j)'
      BY <1>0, <1>1, <1>3 DEF JobOK
    <2>2. account[w].state # "none"
      BY <1>1, SessionAssumption DEF SessionInv, KnownInv
    <2>3. \A u \in Users : account[u].state = "none" => ~account[u].blocked
      BY DEF SessionInv, KnownInv
    <2>. QED  BY <1>0, <1>3, <1>4, <2>1, <2>2, <2>3, KnownMove DEF SessionInv
  <1>6. OwnerInv'
    BY <1>0, <1>3, <1>4, OwnerJob DEF SessionInv, MadeBy
  <1>7. EntryInv'
    BY <1>0, <1>1, <1>3, <1>4, EntryStay DEF SessionInv, S!SigningIn
  <1>8. \A e \in Devices : job'[e].user \in {job[e].user, None}
    BY <1>1, <1>3, <1>4
  <1>9. block' \in Users \cup {None}
    BY <1>0 DEF SessionInv, S!TypeOK
  <1>. QED
    BY <1>0, <1>4, <1>5, <1>6, <1>7, <1>8, <1>9, RowsEnd, SessionsStep

LEMMA CreateSessionStep ==
  ASSUME SessionInv, NEW d \in Devices, S!CreateSession(d)
  PROVE  SessionInv'
  <1>0. /\ job[d].pc = "session" /\ job[d] \in S!Jobs /\ JobOK(job[d])
        /\ UNCHANGED <<scope, account, token, block, asked, contested, doubled>>
        /\ contested \subseteq Phones \cup Emails /\ late \subseteq Users /\ doubled \subseteq Users
    BY DEF S!CreateSession, SessionInv, S!TypeOK, KnownInv
  <1>1. PICK w \in Users : w = job[d].user
    BY <1>0 DEF JobOK
  <1>2. PICK n \in 1 .. 2 :
           sessions' = sessions \cup {[user |-> w, by |-> d, fcm |-> d, no |-> n]}
    BY <1>1 DEF S!CreateSession
  <1>3. late' = IF w = block THEN late \cup {block} ELSE late
    BY <1>1 DEF S!CreateSession
  <1>4. /\ S!Idle \in S!Jobs /\ S!Idle.pc = "idle" /\ S!Idle.user = None /\ S!Idle.mail = None
        /\ job' = [job EXCEPT ![d] = S!Idle]
    BY DEF S!CreateSession, S!End, S!Goto, S!Jobs, S!Idle, S!Fields
  <1>5. /\ job' \in [Devices -> S!Jobs] /\ job'[d] = S!Idle
        /\ \A e \in Devices \ {d} : job'[e] = job[e]
    BY <1>4, JobSet DEF SessionInv
  <1>6. PICK row : row = [user |-> w, by |-> d, fcm |-> d, no |-> n]
    OBVIOUS
  <1>7. /\ sessions' = sessions \cup {row} /\ row.user = w
        /\ row \in [user : Users, by : Devices, fcm : Devices, no : 1 .. 2]
    BY <1>2, <1>6
  <1>8. /\ S!Rows(w)' = S!Rows(w) \cup {row}
        /\ \A x : x # w => S!Rows(x)' = S!Rows(x)
    BY <1>7 DEF S!Rows
  <1>9. account[w].state # "none"
    BY <1>1, SessionAssumption DEF SessionInv, KnownInv
  <1>10. KnownInv'
    <2>1. JobOK(S!Idle)'
      BY <1>4 DEF JobOK, S!Idle
    <2>2. \A u \in Users : account[u].state = "none" => ~account[u].blocked
      BY DEF SessionInv, KnownInv
    <2>. QED  BY <1>0, <1>4, <1>5, <1>7, <1>9, <2>1, <2>2, KnownMove DEF SessionInv
  <1>11. OwnerInv'
    <2>1. \A v : v \in S!Contacts("email") => v # None
      BY SessionAssumption DEF S!Contacts
    <2>. QED  BY <1>0, <1>4, <1>5, <2>1, OwnerJob DEF SessionInv
  <1>12. EntryInv'
    <2>1. ASSUME NEW x \in Users \ doubled
          PROVE  /\ \A b, e \in Devices : S!SigningIn(b, x)' /\ S!SigningIn(e, x)' => b = e
                 /\ \A e \in Devices :
                       job'[e].pc \in {"device", "session"} /\ job'[e].user = x => S!Rows(x)' = {}
                 /\ \A s, t \in S!Rows(x)' : s = t
      <3>1. CASE x = w
        <4>1. S!Rows(w) = {}
          BY <1>0, <1>1, <2>1, <3>1 DEF SessionInv, EntryInv
        <4>2. \A e \in Devices : ~S!SigningIn(e, w)'
          <5>1. S!SigningIn(d, w)
            BY <1>0, <1>1 DEF S!SigningIn
          <5>2. \A e \in Devices \ {d} : ~S!SigningIn(e, w)
            BY <2>1, <3>1, <5>1 DEF SessionInv, EntryInv
          <5>. QED  BY <1>4, <1>5, <5>2 DEF S!SigningIn
        <4>. QED  BY <1>8, <3>1, <4>1, <4>2 DEF S!SigningIn
      <3>2. CASE x # w
        BY <1>4, <1>5, <1>8, <2>1, <3>2 DEF SessionInv, EntryInv, S!SigningIn
      <3>. QED  BY <3>1, <3>2
    <2>. QED  BY <1>0, <2>1 DEF EntryInv
  <1>13. \A e \in Devices : job'[e].user \in {job[e].user, None}
    BY <1>4, <1>5
  <1>14. \A x \in Users : Out(x) /\ Out(x)' => S!Rows(x)' = {}
    <2>1. ~Out(w)
      BY <1>1 DEF SessionInv, OutInv, NoWayIn
    <2>. QED  BY <1>8, <2>1 DEF SessionInv, OutInv, NoWayIn
  <1>15. block' # None /\ block' \notin late' => S!Rows(block)' = {}
    <2>1. block' # None /\ block' \notin late' => block # w /\ S!Rows(block) = {}
      BY <1>0, <1>3 DEF SessionInv, OutInv
    <2>2. block # w => S!Rows(block)' = S!Rows(block)
      BY <1>0, <1>7 DEF S!Rows
    <2>. QED  BY <2>1, <2>2
  <1>16. /\ block' \in Users \cup {None} /\ late' \subseteq Users /\ late \subseteq late'
         /\ doubled' \subseteq Users
         /\ sessions' \subseteq [user : Users, by : Devices, fcm : Devices, no : 1 .. 2]
    BY <1>0, <1>1, <1>3, <1>7 DEF SessionInv, S!TypeOK
  <1>. QED
    BY <1>0, <1>5, <1>10, <1>11, <1>12, <1>13, <1>14, <1>15, <1>16, SessionsStep

\* Sessions end, and nothing else changes but who is being blocked.
LEMMA SessionsEnd ==
  ASSUME SessionInv, UNCHANGED <<scope, account, job, token, contested, doubled, late>>,
         asked' = asked \/ (asked < MaxRequests /\ asked' = asked + 1),
         sessions' \subseteq sessions, block' \in Users \cup {None},
         \/ block' = block
         \/ block' # None /\ account[block'].state # "none" /\ S!Rows(block)' = {}
  PROVE  SessionInv'
  <1>1. KnownInv'
    <2>1. KnownInv
      BY DEF SessionInv
    <2>. QED  BY <2>1 DEF KnownInv, JobOK
  <1>2. OwnerInv'
    BY DEF SessionInv, OwnerInv, HeldBy, MadeBy
  <1>3. EntryInv'
    BY EntryStay DEF SessionInv, S!SigningIn
  <1>4. /\ job' \in [Devices -> S!Jobs] /\ doubled' \subseteq Users /\ late' \subseteq Users
        /\ late \subseteq late'
    BY DEF SessionInv, S!TypeOK
  <1>5. \A e \in Devices : job'[e].user \in {job[e].user, None}
    OBVIOUS
  <1>6. block' # None /\ block' \notin late' => S!Rows(block)' = {}
    BY RowsEnd
  <1>. QED  BY <1>1, <1>2, <1>3, <1>4, <1>5, <1>6, RowsEnd, SessionsStep

LEMMA UpdateFcmTokenStep ==
  ASSUME SessionInv, NEW d \in Devices, NEW w \in Users, S!UpdateFcmToken(d, w)
  PROVE  SessionInv'
  <1>0. /\ UNCHANGED <<scope, account, job, token, block, contested, doubled, late>>
        /\ asked < MaxRequests /\ asked' = asked + 1
        /\ ~Out(w) /\ account[w].state # "none" /\ S!Rows(w) # {}
    BY AuthorizedIn DEF S!UpdateFcmToken, S!Begin
  <1>1. PICK s \in S!Rows(w) : sessions' = (sessions \ {s}) \cup {[s EXCEPT !.fcm = d]}
    BY DEF S!UpdateFcmToken
  <1>2. PICK row : row = [s EXCEPT !.fcm = d]
    OBVIOUS
  <1>3. s \in sessions /\ s.user = w
    BY DEF S!Rows
  <1>4. row.user = w /\ row \in [user : Users, by : Devices, fcm : Devices, no : 1 .. 2]
    BY <1>2, <1>3 DEF SessionInv, S!TypeOK
  <1>5. sessions' = (sessions \ {s}) \cup {row}
    BY <1>1, <1>2
  <1>6. /\ S!Rows(w)' = (S!Rows(w) \ {s}) \cup {row}
        /\ \A x : x # w => S!Rows(x)' = S!Rows(x)
    BY <1>3, <1>4, <1>5 DEF S!Rows
  <1>7. KnownInv'
    <2>1. KnownInv
      BY DEF SessionInv
    <2>2. \A t \in sessions' : account'[t.user].state # "none"
      BY <1>0, <1>4, <1>5, <2>1 DEF KnownInv
    <2>. QED  BY <1>0, <2>1, <2>2 DEF KnownInv, JobOK
  <1>8. OwnerInv'
    BY <1>0 DEF SessionInv, OwnerInv, HeldBy, MadeBy
  <1>9. EntryInv'
    <2>1. ASSUME NEW x \in Users \ doubled
          PROVE  /\ \A b, e \in Devices : S!SigningIn(b, x)' /\ S!SigningIn(e, x)' => b = e
                 /\ \A e \in Devices :
                       job'[e].pc \in {"device", "session"} /\ job'[e].user = x => S!Rows(x)' = {}
                 /\ \A r, t \in S!Rows(x)' : r = t
      <3>1. \A b, e \in Devices : S!SigningIn(b, x)' /\ S!SigningIn(e, x)' => b = e
        BY <1>0, <2>1 DEF SessionInv, EntryInv, S!SigningIn
      <3>2. /\ \A e \in Devices :
                  job[e].pc \in {"device", "session"} /\ job[e].user = x => S!Rows(x) = {}
            /\ \A r, t \in S!Rows(x) : r = t
        BY <2>1 DEF SessionInv, EntryInv
      <3>3. CASE x = w
        BY <1>0, <1>6, <3>1, <3>2, <3>3
      <3>4. CASE x # w
        BY <1>0, <1>6, <3>1, <3>2, <3>4
      <3>. QED  BY <3>3, <3>4
    <2>. QED  BY <1>0, <2>1 DEF EntryInv
  <1>10. \A x \in Users : Out(x) /\ Out(x)' => S!Rows(x)' = {}
    BY <1>0, <1>6 DEF SessionInv, OutInv, NoWayIn
  <1>11. block' # None /\ block' \notin late' => S!Rows(block)' = {}
    <2>1. block' # None /\ block' \notin late' => S!Rows(block) = {}
      BY <1>0 DEF SessionInv, OutInv
    <2>2. block # w => S!Rows(block)' = S!Rows(block)
      BY <1>0, <1>3, <1>4, <1>5 DEF S!Rows
    <2>. QED  BY <1>0, <2>1, <2>2
  <1>12. /\ job' \in [Devices -> S!Jobs] /\ doubled' \subseteq Users /\ late' \subseteq Users
         /\ late \subseteq late' /\ block' \in Users \cup {None}
         /\ sessions' \subseteq [user : Users, by : Devices, fcm : Devices, no : 1 .. 2]
    BY <1>0, <1>4, <1>5 DEF SessionInv, S!TypeOK
  <1>13. \A e \in Devices : job'[e].user \in {job[e].user, None}
    BY <1>0
  <1>. QED
    BY <1>0, <1>7, <1>8, <1>9, <1>10, <1>11, <1>12, <1>13, SessionsStep

LEMMA EndingSteps ==
  ASSUME SessionInv, NEW w \in Users,
         \/ \E d \in Devices : S!LogOut(d, w)
         \/ S!BlockSessions(w) \/ S!Deactivate(w)
  PROVE  SessionInv'
  <1>1. /\ UNCHANGED <<scope, account, job, token, contested, doubled, late>>
        /\ asked < MaxRequests /\ asked' = asked + 1
        /\ sessions' = sessions \ S!Rows(w)
        /\ block' = block \/ (block' = w /\ account[w].state # "none")
    BY DEF S!LogOut, S!Begin, S!BlockSessions, S!Deactivate
  <1>2. sessions' \subseteq sessions
    BY <1>1
  <1>3. block' \in Users \cup {None}
    BY <1>1 DEF SessionInv, S!TypeOK
  <1>4. block' = w => S!Rows(block)' = {}
    BY <1>1 DEF S!Rows
  <1>5. w # None
    BY SessionAssumption
  <1>. QED  BY <1>1, <1>2, <1>3, <1>4, <1>5, SessionsEnd

LEMMA SessionInvStep == SessionInv /\ [S!Next]_(S!vars) => SessionInv'
  <1>. SUFFICES ASSUME SessionInv, [S!Next]_(S!vars) PROVE SessionInv'
    OBVIOUS
  <1>1. CASE UNCHANGED S!vars
    BY <1>1, NothingStep DEF S!vars
  <1>2. ASSUME NEW d \in Devices, S!SignIn(d) PROVE SessionInv'
    BY <1>2, ContinueWithPhoneStep, DriverFormStep, LapseStep, VerifyPhoneStep,
       FindTempPhoneStep, TakePhoneStep, LoginDeleteStep, CreateAccountStep,
       ForgetDeviceStep, CreateSessionStep, SocialLoginStep
       DEF S!SignIn
  <1>3. ASSUME NEW d \in Devices, S!Signed(d) PROVE SessionInv'
    BY <1>3, VerifyEditStep, EditProfileStep, KeepAsideStep, WriteContactStep,
       DeleteAccountStep, EndingSteps, UpdateFcmTokenStep
       DEF S!Signed
  <1>4. CASE S!Administration
    BY <1>4, BlockMarkStep, EndingSteps, UnblockStep DEF S!Administration
  <1>. QED  BY <1>1, <1>2, <1>3, <1>4, ResendOtpStep DEF S!Next

\* Session: a phone or an e-mail finds one account, unless two requests were taking it at
\* the same time, or a new driver's form was outdated by the time its code came back.
THEOREM ContactsFindOne == WorldSpec => []OneAccount
  <1>1. SessionInv => OneAccount
    <2>. SUFFICES ASSUME SessionInv, NEW f \in S!Fields, NEW v \in S!Contacts(f) \ contested
                  PROVE  S!Cardinality(S!Holders(f, v)) <= 1
      BY DEF OneAccount, S!OneAccount
    <2>1. \A u, w \in S!Holders(f, v) : u = w
      BY DEF S!Holders, S!Live, SessionInv, OwnerInv, HeldBy
    <2>. QED  BY <2>1, AtMostOne
  <1>. QED
    BY <1>1, SessionInit, SessionStep, SessionInvStep, PTL DEF WorldSpec

\* Session: a user is signed in on one device, unless two of his sign-ins overlapped, and
\* nobody who is blocked is signed in, unless a request or a change of phone was under way,
\* or a code for his phone had not lapsed, when the mark was written.
THEOREM BlockedStayOut == WorldSpec => []SessionsHold
  <1>1. SessionInv => SessionsHold
    <2>. SUFFICES ASSUME SessionInv PROVE S!OneSession /\ S!BlockedIsOut
      BY DEF SessionsHold, S!SessionsHold
    <2>1. S!OneSession
      <3>. SUFFICES ASSUME NEW u \in Users \ doubled PROVE S!Cardinality(S!Rows(u)) <= 1
        BY DEF S!OneSession
      <3>. QED  BY AtMostOne DEF SessionInv, EntryInv
    <2>2. S!BlockedIsOut
      BY DEF S!BlockedIsOut, SessionInv, OutInv, Out, NoWayIn
    <2>. QED  BY <2>1, <2>2
  <1>. QED
    BY <1>1, SessionInit, SessionStep, SessionInvStep, PTL DEF WorldSpec

-----------------------------------------------------------------------------
(* The driver's account: his vehicles, and the requests that change them.   *)

CarType ==
    [status : {"none", "requested", "active", "deactivate", "deactive"},
     details : BOOLEAN, dates : [D!Papers -> D!Dates]]
RequestType ==
    [pc : {"idle", "add", "create", "added", "edit", "edited", "make", "made", "ask",
           "accept", "expiry", "accepted", "decline", "declined", "dates"},
     vehicle : Vehicles \cup {None}, was : BOOLEAN, due : D!Expiries \cup {None}]
DocumentType ==
    [approved : BOOLEAN \cup {None}, update : BOOLEAN, active : BOOLEAN, online : BOOLEAN,
     set_up : SUBSET D!Set_up, doc_expiry_type : D!Expiries \cup {None}, licence : D!Dates]

LEMMA DriverTypes ==
  D!TypeOK <=> /\ driver \in DocumentType
               /\ garage \in [Vehicles -> CarType]
               /\ request \in [Slots -> RequestType]
               /\ changes \in 0 .. MaxChanges /\ mixed \in BOOLEAN /\ bare \in BOOLEAN
  BY DEF D!TypeOK, DocumentType, CarType, RequestType

LEMMA DriverStepIs == [WorldNext]_WorldVars => [D!Next]_(D!vars)
  BY DEF WorldNext, WorldVars, StillDriver, D!vars

LEMMA DriverTypeInit == WorldInit => D!TypeOK
  <1>. SUFFICES ASSUME D!Init PROVE D!TypeOK
    BY DEF WorldInit
  <1>1. driver \in DocumentType
    BY DEF D!Init, DocumentType, D!Set_up, D!Dates
  <1>2. D!NoVehicle \in CarType
    <2>1. [x \in D!Papers |-> "none"] \in [D!Papers -> D!Dates]
      BY DEF D!Dates
    <2>. QED  BY <2>1 DEF D!NoVehicle, CarType
  <1>3. D!Quiet \in RequestType
    BY DEF D!Quiet, RequestType
  <1>4. garage \in [Vehicles -> CarType] /\ request \in [Slots -> RequestType]
    BY <1>2, <1>3 DEF D!Init
  <1>5. changes \in 0 .. MaxChanges
    BY DriverAssumption DEF D!Init
  <1>6. mixed \in BOOLEAN /\ bare \in BOOLEAN
    BY DEF D!Init
  <1>. QED  BY <1>1, <1>4, <1>5, <1>6, DriverTypes

\* The requests under way.
LEMMA RequestTypeStep ==
  ASSUME D!TypeOK, [D!Next]_(D!vars)
  PROVE  request' \in [Slots -> RequestType]
  <1>0. request \in [Slots -> RequestType] /\ driver.doc_expiry_type \in D!Expiries \cup {None}
    BY DriverTypes DEF DocumentType
  <1>1. CASE UNCHANGED request
    BY <1>0, <1>1
  <1>2. ASSUME NEW r \in Slots, NEW q \in RequestType, request' = [request EXCEPT ![r] = q]
        PROVE  request' \in [Slots -> RequestType]
    BY <1>0, <1>2
  <1>3. D!Quiet \in RequestType
    BY DEF D!Quiet, RequestType
  <1>4. ASSUME NEW r \in Slots,
               NEW pc \in {"create", "added", "edited", "made", "ask", "expiry", "accepted",
                           "declined", "dates"},
               D!Goto(r, pc)
        PROVE  request' \in [Slots -> RequestType]
    BY <1>0, <1>4 DEF D!Goto, RequestType
  <1>5. ASSUME NEW r \in Slots, D!DriverStep(r) PROVE request' \in [Slots -> RequestType]
    <2>1. ASSUME NEW v \in Vehicles, D!AddVehicle(r, v)
          PROVE  request' \in [Slots -> RequestType]
      <3>1. \A b \in BOOLEAN : [D!Quiet EXCEPT !.pc = "add", !.vehicle = v, !.was = b]
                                  \in RequestType
        BY DEF D!Quiet, RequestType
      <3>. QED  BY <1>2, <2>1, <3>1 DEF D!AddVehicle
    <2>2. ASSUME NEW v \in Vehicles, D!EditVehicle(r, v)
          PROVE  request' \in [Slots -> RequestType]
      <3>1. [D!Quiet EXCEPT !.pc = "edit", !.vehicle = v] \in RequestType
        BY DEF D!Quiet, RequestType
      <3>. QED  BY <1>2, <2>2, <3>1 DEF D!EditVehicle
    <2>3. ASSUME NEW v \in Vehicles, D!MakeActive(r, v)
          PROVE  request' \in [Slots -> RequestType]
      <3>1. \A d \in D!Expiries \cup {None} :
               [D!Quiet EXCEPT !.pc = "make", !.vehicle = v, !.due = d] \in RequestType
        BY DEF D!Quiet, RequestType
      <3>. QED  BY <1>0, <1>2, <2>3, <3>1 DEF D!MakeActive
    <2>. QED
      BY <1>1, <1>2, <1>3, <1>4, <1>5, <2>1, <2>2, <2>3
         DEF D!DriverStep, D!AddOthers, D!AddCreate, D!AddDriver, D!EditRequest, D!EditDriver,
             D!MakeRequest, D!MakeOthers, D!MakeDriver, D!EditLicence, D!End
  <1>6. ASSUME NEW r \in Slots, D!DecisionStep(r) PROVE request' \in [Slots -> RequestType]
    <2>1. /\ [D!Quiet EXCEPT !.pc = "accept"] \in RequestType
          /\ [D!Quiet EXCEPT !.pc = "decline"] \in RequestType
      BY DEF D!Quiet, RequestType
    <2>2. D!Accept(r) => request' \in [Slots -> RequestType]
      BY <1>2, <2>1 DEF D!Accept
    <2>3. (\E reason \in BOOLEAN : D!Decline(r, reason)) => request' \in [Slots -> RequestType]
      BY <1>1, <1>2, <2>1 DEF D!Decline
    <2>. QED
      BY <1>2, <1>3, <1>4, <1>6, <2>2, <2>3
         DEF D!DecisionStep, D!AcceptVehicle, D!AcceptExpiry, D!AcceptDriver,
             D!DeclineExpiry, D!DeclineDriver, D!SetExpiryDate, D!SetLicenceDate, D!End
  <1>. QED
    BY <1>1, <1>5, <1>6 DEF D!Next, D!vars, D!SetDocuments, D!GoOnline, D!SwitchActive,
                            D!DatesPass, D!CheckExpiry

\* The vehicles.
LEMMA GarageTypeStep ==
  ASSUME D!TypeOK, [D!Next]_(D!vars)
  PROVE  garage' \in [Vehicles -> CarType]
  <1>0. garage \in [Vehicles -> CarType]
    BY DriverTypes
  <1>1. CASE UNCHANGED garage
    BY <1>0, <1>1
  <1>2. ASSUME NEW v, NEW s \in {"requested", "active", "deactivate", "deactive"}, D!Status(v, s)
        PROVE  garage' \in [Vehicles -> CarType]
    BY <1>0, <1>2 DEF D!Status, CarType
  <1>3. ASSUME NEW v, D!OthersOff(v) PROVE garage' \in [Vehicles -> CarType]
    BY <1>0, <1>3 DEF D!OthersOff, CarType
  <1>4. ASSUME NEW s \in {"active", "deactive"}, D!TakeRequested(s)
        PROVE  garage' \in [Vehicles -> CarType]
    BY <1>1, <1>2, <1>4 DEF D!TakeRequested
  <1>5. ASSUME NEW r \in Slots, D!DriverStep(r) PROVE garage' \in [Vehicles -> CarType]
    BY <1>1, <1>2, <1>3, <1>5
       DEF D!DriverStep, D!AddVehicle, D!EditVehicle, D!MakeActive, D!AddOthers, D!AddCreate,
           D!AddDriver, D!EditRequest, D!EditDriver, D!MakeRequest, D!MakeOthers,
           D!MakeDriver, D!EditLicence
  <1>6. ASSUME NEW r \in Slots, D!DecisionStep(r) PROVE garage' \in [Vehicles -> CarType]
    <2>1. ASSUME NEW v \in Vehicles, D!SetExpiryDate(r, v)
          PROVE  garage' \in [Vehicles -> CarType]
      <3>1. [x \in D!Papers |-> "valid"] \in [D!Papers -> D!Dates]
        BY DEF D!Dates
      <3>. QED  BY <1>0, <2>1, <3>1 DEF D!SetExpiryDate, CarType
    <2>. QED
      BY <1>1, <1>4, <1>6, <2>1
         DEF D!DecisionStep, D!Accept, D!AcceptVehicle, D!AcceptExpiry, D!AcceptDriver,
             D!Decline, D!DeclineExpiry, D!DeclineDriver, D!SetLicenceDate
  <1>7. ASSUME NEW v \in Vehicles, D!SetDocuments(v) PROVE garage' \in [Vehicles -> CarType]
    BY <1>0, <1>7 DEF D!SetDocuments, CarType
  <1>8. ASSUME D!DatesPass PROVE garage' \in [Vehicles -> CarType]
    <2>1. \A v \in Vehicles : [x \in D!Papers |-> IF garage[v].dates[x] = "valid" THEN "past"
                                                  ELSE garage[v].dates[x]]
                                 \in [D!Papers -> D!Dates]
      BY <1>0 DEF CarType, D!Dates
    <2>. QED  BY <1>0, <1>8, <2>1 DEF D!DatesPass, CarType
  <1>9. ASSUME D!CheckExpiry PROVE garage' \in [Vehicles -> CarType]
    <2>1. \A v \in Vehicles : \A X : [x \in D!Papers |-> IF x \in X THEN "none"
                                                         ELSE garage[v].dates[x]]
                                 \in [D!Papers -> D!Dates]
      BY <1>0 DEF CarType, D!Dates
    <2>. DEFINE v == IF D!With("active") = {} THEN None
                     ELSE CHOOSE w \in D!With("active") : TRUE
                gone == D!Gone(v)
                new == [w \in Vehicles |-> IF w # v THEN garage[w] ELSE
                         [garage[w] EXCEPT !.dates =
                            [x \in D!Papers |-> IF x \in gone THEN "none" ELSE @[x]]]]
    <2>2. UNCHANGED garage \/ garage' = new
      BY <1>9 DEF D!CheckExpiry
    <2>. HIDE DEF v, gone
    <2>3. new \in [Vehicles -> CarType]
      BY <1>0, <2>1 DEF CarType
    <2>. HIDE DEF new
    <2>. QED  BY <1>1, <2>2, <2>3
  <1>. QED
    BY <1>1, <1>5, <1>6, <1>7, <1>8, <1>9 DEF D!Next, D!vars, D!GoOnline, D!SwitchActive

\* The document.
LEMMA DocumentTypeStep ==
  ASSUME D!TypeOK, [D!Next]_(D!vars)
  PROVE  driver' \in DocumentType
  <1>0. driver \in DocumentType /\ request \in [Slots -> RequestType]
    BY DriverTypes
  <1>1. CASE UNCHANGED driver
    BY <1>0, <1>1
  <1>2. ASSUME NEW u \in BOOLEAN PROVE D!Ask(driver, u) \in DocumentType
    BY <1>0 DEF D!Ask, DocumentType
  <1>3. ASSUME NEW r \in Slots, D!DriverStep(r) PROVE driver' \in DocumentType
    <2>1. ASSUME D!AddDriver(r) PROVE driver' \in DocumentType
      <3>1. request[r].was \in BOOLEAN
        BY <1>0 DEF RequestType
      <3>2. \A d \in DocumentType : [d EXCEPT !.set_up = @ \cup {"vehicle", "documents"}]
                                        \in DocumentType
        BY DEF DocumentType, D!Set_up
      <3>3. driver' = [D!Ask(driver, request[r].was) EXCEPT
                         !.set_up = @ \cup {"vehicle", "documents"}]
        BY <2>1 DEF D!AddDriver
      <3>. QED  BY <1>2, <3>1, <3>2, <3>3
    <2>2. ASSUME D!MakeDriver(r) PROVE driver' \in DocumentType
      <3>1. \A d \in DocumentType, e \in D!Expiries \cup {None} :
               [d EXCEPT !.doc_expiry_type = e] \in DocumentType
        BY DEF DocumentType
      <3>. DEFINE d == D!Ask(driver, TRUE)
                  e == CASE request[r].due = "docs_expired" -> "licence_expired"
                         [] request[r].due = "vehicle_docs_expired" -> None
                         [] OTHER -> d.doc_expiry_type
      <3>2. d \in DocumentType
        BY <1>2
      <3>3. e \in D!Expiries \cup {None}
        BY <3>2 DEF DocumentType, D!Expiries
      <3>4. driver' = [d EXCEPT !.doc_expiry_type = e]
        BY <2>2 DEF D!MakeDriver
      <3>. HIDE DEF d, e
      <3>. QED  BY <3>1, <3>2, <3>3, <3>4
    <2>3. ASSUME D!EditLicence(r) PROVE driver' \in DocumentType
      BY <1>0, <2>3 DEF D!EditLicence, DocumentType
    <2>4. ASSUME D!EditDriver(r) PROVE driver' \in DocumentType
      BY <1>2, <2>4 DEF D!EditDriver
    <2>. QED
      BY <1>1, <1>3, <2>1, <2>2, <2>3, <2>4
         DEF D!DriverStep, D!AddVehicle, D!EditVehicle, D!MakeActive, D!AddOthers, D!AddCreate,
             D!EditRequest, D!MakeRequest, D!MakeOthers
  <1>4. ASSUME NEW r \in Slots, D!DecisionStep(r) PROVE driver' \in DocumentType
    <2>1. /\ [driver EXCEPT !.doc_expiry_type = None] \in DocumentType
          /\ [driver EXCEPT !.approved = TRUE, !.update = FALSE, !.active = TRUE]
                \in DocumentType
          /\ [driver EXCEPT !.approved = FALSE, !.update = FALSE] \in DocumentType
          /\ [driver EXCEPT !.licence = "valid"] \in DocumentType
      BY <1>0 DEF DocumentType, D!Dates
    <2>. QED
      BY <1>1, <1>4, <2>1
         DEF D!DecisionStep, D!Accept, D!AcceptVehicle, D!AcceptExpiry, D!AcceptDriver,
             D!Decline, D!DeclineExpiry, D!DeclineDriver, D!SetExpiryDate, D!SetLicenceDate
  <1>5. ASSUME NEW v \in Vehicles, D!SetDocuments(v) PROVE driver' \in DocumentType
    BY <1>0, <1>5 DEF D!SetDocuments, DocumentType, D!Set_up
  <1>6. ASSUME NEW to \in BOOLEAN, D!GoOnline(to) \/ D!SwitchActive(to)
        PROVE  driver' \in DocumentType
    BY <1>0, <1>6 DEF D!GoOnline, D!SwitchActive, DocumentType
  <1>7. ASSUME D!DatesPass PROVE driver' \in DocumentType
    BY <1>0, <1>7 DEF D!DatesPass, DocumentType, D!Dates
  <1>8. ASSUME D!CheckExpiry PROVE driver' \in DocumentType
    <2>1. ASSUME NEW X \in SUBSET {"licence", "insurance", "registration"}, X # {}
          PROVE  D!ExpiryType(X) \in D!Expiries
      <3>1. X \in {{"licence", "insurance", "registration"}, {"insurance", "registration"},
                   {"licence", "insurance"}, {"licence", "registration"}, {"insurance"},
                   {"registration"}, {"licence"}}
        BY <2>1
      <3>. QED  BY <3>1 DEF D!ExpiryType, D!Expiries
    <2>2. \A v : D!Gone(v) \in SUBSET {"licence", "insurance", "registration"}
      BY DEF D!Gone, D!Papers
    <2>. DEFINE v == IF D!With("active") = {} THEN None
                     ELSE CHOOSE w \in D!With("active") : TRUE
                gone == D!Gone(v)
                type == D!ExpiryType(gone)
                licence == IF "licence" \in gone THEN "none" ELSE driver.licence
                new == [driver EXCEPT !.active = FALSE, !.approved = FALSE, !.online = FALSE,
                          !.doc_expiry_type = type, !.licence = licence]
    <2>3. UNCHANGED driver \/ (gone # {} /\ driver' = new)
      BY <1>8 DEF D!CheckExpiry
    <2>4. gone # {} => type \in D!Expiries
      BY <2>1, <2>2
    <2>5. licence \in D!Dates
      BY <1>0 DEF DocumentType, D!Dates
    <2>. HIDE DEF gone, type, licence
    <2>6. gone # {} => new \in DocumentType
      BY <1>0, <2>4, <2>5 DEF DocumentType
    <2>. HIDE DEF new
    <2>. QED  BY <1>1, <2>3, <2>6
  <1>. QED
    BY <1>1, <1>3, <1>4, <1>5, <1>6, <1>7, <1>8 DEF D!Next, D!vars

LEMMA DriverTypeStep == D!TypeOK /\ [D!Next]_(D!vars) => D!TypeOK'
  <1>. SUFFICES ASSUME D!TypeOK, [D!Next]_(D!vars) PROVE D!TypeOK'
    OBVIOUS
  <1>1. driver' \in DocumentType /\ garage' \in [Vehicles -> CarType]
        /\ request' \in [Slots -> RequestType]
    BY RequestTypeStep, GarageTypeStep, DocumentTypeStep
  <1>2. changes \in 0 .. MaxChanges /\ mixed \in BOOLEAN /\ bare \in BOOLEAN
    BY DriverTypes
  <1>3. UNCHANGED changes \/ D!Count
    BY DEF D!Next, D!DriverStep, D!DecisionStep, D!vars, D!AddVehicle, D!EditVehicle,
       D!MakeActive, D!AddOthers, D!AddCreate, D!AddDriver, D!EditRequest, D!EditDriver,
       D!MakeRequest, D!MakeOthers, D!MakeDriver, D!EditLicence, D!Accept, D!AcceptVehicle,
       D!AcceptExpiry, D!AcceptDriver, D!Decline, D!DeclineExpiry, D!DeclineDriver,
       D!SetExpiryDate, D!SetLicenceDate, D!SetDocuments, D!GoOnline, D!SwitchActive,
       D!DatesPass, D!CheckExpiry, D!Begin
  <1>4. changes' \in 0 .. MaxChanges
    BY <1>2, <1>3, DriverAssumption DEF D!Count
  <1>5. mixed' \in BOOLEAN /\ bare' \in BOOLEAN
    BY <1>2 DEF D!Next, D!DriverStep, D!DecisionStep, D!vars, D!AddVehicle, D!EditVehicle,
       D!MakeActive, D!AddOthers, D!AddCreate, D!AddDriver, D!EditRequest, D!EditDriver,
       D!MakeRequest, D!MakeOthers, D!MakeDriver, D!EditLicence, D!Accept, D!AcceptVehicle,
       D!AcceptExpiry, D!AcceptDriver, D!Decline, D!DeclineExpiry, D!DeclineDriver,
       D!SetExpiryDate, D!SetLicenceDate, D!SetDocuments, D!GoOnline, D!SwitchActive,
       D!DatesPass, D!CheckExpiry, D!Begin, D!Busy
  <1>. QED
    BY <1>1, <1>4, <1>5 DEF D!TypeOK, DocumentType, CarType, RequestType

(* What his requests leave behind, one at a time.                           *)

Doing(r) == request[r].pc \notin {"idle", "dates"}
Used == D!With("requested") \cup D!With("active")

\* One vehicle at most is in use or waits, but while another takes its place; a request
\* leaves behind what its next step counts on; and a vehicle that waits is asked for in
\* the document once the request is done.
OneAtATime == \A r, s \in Slots : Doing(r) /\ Doing(s) => r = s

RequestHolds(q) ==
    /\ q.pc = "create" => Used = {}
    /\ q.pc = "edit" => Used \subseteq {q.vehicle}
    /\ q.pc \in {"edit", "make"} => D!Owned # {}
    /\ q.pc \in {"expiry", "accepted", "decline", "declined"} => D!With("requested") = {}
    /\ q.pc \in {"accept", "expiry", "accepted"} /\ ~bare => Used # {}

OneUsed == (\A r \in Slots : request[r].pc # "made") => \A v, w \in Used : v = w

SetUp == (\A r \in Slots : request[r].pc # "added") /\ D!Owned # {} => driver.set_up = D!Set_up

Asked ==
    /\ D!With("requested") # {} => driver.approved = None
    /\ driver.approved = TRUE => ~driver.update
    /\ driver.approved = TRUE /\ ~bare => Used # {}
Decided == (\A r \in Slots : ~Doing(r)) => Asked

AccountInv ==
    /\ "profile" \in driver.set_up
    /\ ~mixed => OneAtATime /\ OneUsed /\ SetUp /\ Decided /\ \A r \in Slots : RequestHolds(request[r])

LEMMA AccountInit == WorldInit => AccountInv
  <1>. SUFFICES ASSUME D!Init PROVE AccountInv
    BY DEF WorldInit
  <1>1. Used = {} /\ D!Owned = {}
    BY DEF D!Init, Used, D!With, D!Owned, D!NoVehicle
  <1>2. \A r \in Slots : request[r].pc = "idle"
    BY DEF D!Init, D!Quiet
  <1>3. driver.approved = None /\ "profile" \in driver.set_up
    BY DEF D!Init
  <1>4. None # TRUE
    BY DriverAssumption
  <1>. QED
    BY <1>1, <1>2, <1>3, <1>4
       DEF AccountInv, OneAtATime, OneUsed, SetUp, Decided, Asked, RequestHolds, Doing, Used

\* FiniteSets seen from the instance.
LEMMA DriverCardinality == \A X : D!Cardinality(X) = Cardinality(X)
  BY DEF D!Cardinality, Cardinality

LEMMA AccountDone == D!TypeOK /\ AccountInv => ApprovedDrives
  <1>. SUFFICES ASSUME D!TypeOK, AccountInv, ~mixed, ~D!Busy PROVE ApprovedDrives
    BY DEF ApprovedDrives, D!ApprovedDrives, D!OfferedDrives, D!RequestIsSeen
  <1>1. \A r \in Slots : ~Doing(r)
    BY DEF D!Busy, Doing
  <1>2. Decided /\ OneUsed /\ SetUp
    BY DEF AccountInv
  <1>3. \A r \in Slots : request[r].pc \notin {"made", "added"}
    BY <1>1 DEF Doing
  <1>4. \A v, w \in Used : v = w
    BY <1>2, <1>3 DEF OneUsed
  <1>5. \A X : X \subseteq Used /\ X # {} => Cardinality(X) = 1
    <2>1. SUFFICES ASSUME NEW X, X \subseteq Used, X # {} PROVE Cardinality(X) = 1
      OBVIOUS
    <2>2. PICK v \in X : X = {v}
      BY <1>4, <2>1
    <2>. QED  BY <2>2, FS_Singleton
  <1>6. D!With("requested") \subseteq Used /\ D!With("active") \subseteq Used
    BY DEF Used
  <1>7. driver.update \in BOOLEAN
    BY DriverTypes DEF DocumentType
  <1>8. D!With("requested") # {} /\ ~mixed /\ ~D!Busy
          => (D!PendingList \/ D!UpdatedList) /\ Cardinality(D!With("requested")) = 1
    <2>. HAVE D!With("requested") # {} /\ ~mixed /\ ~D!Busy
    <2>1. driver.approved = None
      BY <1>1, <1>2 DEF Decided, Asked
    <2>2. D!Owned # {}
      BY DEF D!With, D!Owned
    <2>3. driver.set_up = D!Set_up
      BY <1>2, <1>3, <2>2 DEF SetUp
    <2>. QED  BY <1>5, <1>6, <1>7, <2>1, <2>3 DEF D!PendingList, D!UpdatedList
  <1>9. D!Offered /\ ~mixed /\ ~D!Busy /\ ~bare
          => /\ Cardinality(D!With("active")) = 1
             /\ D!With("requested") = {}
             /\ ~driver.update
    <2>. HAVE D!Offered /\ ~mixed /\ ~D!Busy /\ ~bare
    <2>1. driver.approved = TRUE
      BY DEF D!Offered, D!NearMe, D!QuoteVehicles, D!AvailableNow, D!ForBooking,
             D!ForDispatcher, D!Assignable, D!ForChat, D!Cleared
    <2>2. D!With("requested") = {} /\ ~driver.update
      BY <1>1, <1>2, <2>1, DriverAssumption DEF Decided, Asked
    <2>3. D!With("active") # {}
      BY <1>1, <1>2, <2>1, <2>2 DEF Decided, Asked, Used
    <2>. QED  BY <1>5, <1>6, <2>2, <2>3
  <1>. QED
    BY <1>8, <1>9, DriverCardinality
       DEF ApprovedDrives, D!ApprovedDrives, D!OfferedDrives, D!RequestIsSeen

\* A step of the one request that is not over.
LEMMA OneMoves ==
  ASSUME D!TypeOK, AccountInv, ~mixed, NEW r \in Slots, NEW q, request' = [request EXCEPT ![r] = q],
         \A s \in Slots \ {r} : ~Doing(s),
         "profile" \in driver'.set_up,
         RequestHolds(q)',
         q.pc # "made" => \A v, w \in Used' : v = w,
         q.pc # "added" /\ D!Owned' # {} => driver'.set_up = D!Set_up,
         q.pc \in {"idle", "dates"} => Asked'
  PROVE  AccountInv'
  <1>1. request'[r] = q /\ \A s \in Slots \ {r} : request'[s] = request[s]
    BY DriverTypes
  <1>2. \A s \in Slots \ {r} : request'[s].pc \in {"idle", "dates"}
    BY <1>1 DEF Doing
  <1>3. OneAtATime'
    BY <1>2 DEF OneAtATime, Doing
  <1>4. OneUsed' /\ SetUp'
    BY <1>1 DEF OneUsed, SetUp
  <1>5. Decided'
    BY <1>1 DEF Decided, Doing
  <1>6. \A s \in Slots : RequestHolds(request[s])'
    <2>. SUFFICES ASSUME NEW s \in Slots PROVE RequestHolds(request[s])'
      OBVIOUS
    <2>1. CASE s = r
      BY <1>1, <2>1 DEF RequestHolds
    <2>2. CASE s # r
      BY <1>2, <2>2 DEF RequestHolds
    <2>. QED  BY <2>1, <2>2
  <1>. QED  BY <1>3, <1>4, <1>5, <1>6 DEF AccountInv

\* A step that leaves the vehicles as they are and the requests where they are.
LEMMA NothingMoves ==
  ASSUME D!TypeOK, AccountInv, mixed' = mixed, bare' = bare,
         \A v \in Vehicles : garage'[v].status = garage[v].status,
         \A s \in Slots : \/ request'[s] = request[s]
                         \/ {request[s].pc, request'[s].pc} \subseteq {"idle", "dates"},
         driver.set_up \subseteq driver'.set_up, driver'.set_up \subseteq D!Set_up,
         driver'.update = driver.update,
         driver'.approved = driver.approved
           \/ (driver.approved = TRUE /\ driver.update /\ driver'.approved = FALSE)
  PROVE  AccountInv'
  <1>1. Used' = Used /\ D!Owned' = D!Owned /\ D!With("requested")' = D!With("requested")
    BY DEF Used, D!With, D!Owned
  <1>2. \A s \in Slots : Doing(s)' <=> Doing(s)
    BY DEF Doing
  <1>3. \A s \in Slots : \A pc \in {"made", "added"} : request'[s].pc = pc <=> request[s].pc = pc
    OBVIOUS
  <1>4. SUFFICES ASSUME ~mixed
                 PROVE  (OneAtATime /\ OneUsed /\ SetUp /\ Decided
                           /\ \A r \in Slots : RequestHolds(request[r]))'
    BY DEF AccountInv
  <1>5. OneAtATime'
    BY <1>2, <1>4 DEF AccountInv, OneAtATime
  <1>6. OneUsed'
    BY <1>1, <1>3, <1>4 DEF AccountInv, OneUsed
  <1>7. SetUp'
    BY <1>1, <1>3, <1>4 DEF AccountInv, SetUp
  <1>8. Decided'
    <2>. SUFFICES ASSUME \A s \in Slots : ~Doing(s)' PROVE Asked'
      BY DEF Decided
    <2>1. Asked
      BY <1>2, <1>4 DEF AccountInv, Decided
    <2>2. driver'.approved = driver.approved
      BY <2>1 DEF Asked
    <2>. QED  BY <1>1, <2>1, <2>2 DEF Asked
  <1>9. \A s \in Slots : RequestHolds(request[s])'
    <2>. SUFFICES ASSUME NEW s \in Slots PROVE RequestHolds(request[s])'
      OBVIOUS
    <2>1. RequestHolds(request[s])
      BY <1>4 DEF AccountInv
    <2>. QED  BY <1>1, <2>1 DEF RequestHolds
  <1>. QED  BY <1>5, <1>6, <1>7, <1>8, <1>9

LEMMA StatusIs ==
  ASSUME D!TypeOK, NEW v, NEW x, D!Status(v, x)
  PROVE  \A w \in Vehicles : garage'[w].status = IF w = v THEN x ELSE garage[w].status
  <1>1. garage \in [Vehicles -> CarType]
    BY DriverTypes
  <1>. QED  BY <1>1 DEF D!Status, CarType

LEMMA OthersOffIs ==
  ASSUME D!TypeOK, NEW v, D!OthersOff(v)
  PROVE  \A w \in Vehicles :
            garage'[w].status = IF garage[w].status # "none" /\ w # v THEN "deactivate"
                                ELSE garage[w].status
  <1>1. garage \in [Vehicles -> CarType]
    BY DriverTypes
  <1>. QED  BY <1>1 DEF D!OthersOff, D!Owned, CarType

LEMMA TakeIs ==
  ASSUME D!TypeOK, \A v, w \in Used : v = w, NEW x \in {"active", "deactive"}, D!TakeRequested(x)
  PROVE  /\ D!With("requested")' = {} /\ D!Owned' = D!Owned /\ Used' \subseteq Used
         /\ x = "active" => Used' = Used
         /\ D!With("requested") = {} => Used' = Used
  <1>1. CASE D!With("requested") = {}
    BY <1>1 DEF D!TakeRequested, D!With, D!Owned, Used
  <1>2. CASE D!With("requested") # {}
    <2>1. PICK v \in D!With("requested") : D!Status(v, x)
      BY <1>2 DEF D!TakeRequested
    <2>2. \A w \in Vehicles : garage'[w].status = IF w = v THEN x ELSE garage[w].status
      BY <2>1, StatusIs
    <2>3. \A w \in Used : w = v
      BY <2>1 DEF Used
    <2>4. v \in Vehicles /\ garage[v].status = "requested"
      BY <2>1 DEF D!With
    <2>. QED  BY <1>2, <2>2, <2>3, <2>4 DEF D!With, D!Owned, Used
  <1>. QED  BY <1>1, <1>2

\* A request that begins while no other is under way finds what the last one left.
LEMMA BeginsAlone ==
  ASSUME D!TypeOK, AccountInv, ~mixed', NEW r \in Slots, D!Begin(r)
  PROVE  /\ ~mixed /\ \A s \in Slots : ~Doing(s)
         /\ Asked /\ \A v, w \in Used : v = w
         /\ D!Owned # {} => driver.set_up = D!Set_up
  <1>1. ~mixed /\ \A s \in Slots : ~Doing(s)
    BY DEF D!Begin, D!Busy, Doing
  <1>2. \A s \in Slots : request[s].pc \notin {"made", "added"}
    BY <1>1 DEF Doing
  <1>. QED  BY <1>1, <1>2 DEF AccountInv, OneUsed, SetUp, Decided

\* A request that goes on is the only one.
LEMMA GoesOnAlone ==
  ASSUME D!TypeOK, AccountInv, ~mixed, NEW r \in Slots, Doing(r)
  PROVE  /\ \A s \in Slots \ {r} : ~Doing(s)
         /\ RequestHolds(request[r])
         /\ request[r].pc # "made" => \A v, w \in Used : v = w
         /\ request[r].pc # "added" /\ D!Owned # {} => driver.set_up = D!Set_up
  <1>1. \A s \in Slots \ {r} : ~Doing(s)
    BY DEF AccountInv, OneAtATime
  <1>. QED  BY <1>1 DEF AccountInv, OneUsed, SetUp, Doing

LEMMA RequestWith ==
  ASSUME D!TypeOK, NEW r \in Slots, NEW pc
  PROVE  LET q == [request[r] EXCEPT !.pc = pc]
         IN  q.pc = pc /\ q.vehicle = request[r].vehicle
  <1>1. request[r] \in RequestType
    BY DriverTypes
  <1>. QED  BY <1>1 DEF RequestType

LEMMA GotoIs ==
  ASSUME NEW r, NEW pc, D!Goto(r, pc), D!TypeOK, r \in Slots
  PROVE  request' = [request EXCEPT ![r] = [request[r] EXCEPT !.pc = pc]]
  <1>1. request \in [Slots -> RequestType]
    BY DriverTypes
  <1>. QED  BY <1>1 DEF D!Goto

\* Requests about vehicles and licences.
LEMMA AccountDriver ==
  ASSUME D!TypeOK, AccountInv, NEW r \in Slots, D!DriverStep(r)
  PROVE  AccountInv'
  <1>0. "profile" \in driver.set_up /\ driver.set_up \subseteq D!Set_up /\ None # TRUE
        /\ request \in [Slots -> RequestType] /\ driver \in DocumentType
    BY DriverTypes, DriverAssumption DEF AccountInv, DocumentType
  <1>1. "profile" \in driver'.set_up
    BY <1>0
       DEF D!DriverStep, D!AddVehicle, D!EditVehicle, D!MakeActive, D!AddOthers, D!AddCreate,
           D!AddDriver, D!EditRequest, D!EditDriver, D!MakeRequest, D!MakeOthers,
           D!MakeDriver, D!EditLicence, D!Ask, DocumentType
  <1>2. SUFFICES ASSUME ~mixed' PROVE AccountInv'
    BY <1>1 DEF AccountInv
  <1>3. ASSUME NEW v \in Vehicles, D!AddVehicle(r, v) PROVE AccountInv'
    <2>1. D!Begin(r) /\ UNCHANGED <<driver, garage, bare>>
      BY <1>3 DEF D!AddVehicle
    <2>0. PICK q : q = [D!Quiet EXCEPT !.pc = "add", !.vehicle = v, !.was = (driver.approved = TRUE)]
      OBVIOUS
    <2>2. request' = [request EXCEPT ![r] = q] /\ q.pc = "add"
      BY <1>3, <2>0 DEF D!AddVehicle, D!Quiet
    <2>3. Used' = Used /\ D!Owned' = D!Owned
      BY <2>1 DEF Used, D!With, D!Owned
    <2>4. ~mixed /\ (\A s \in Slots : ~Doing(s)) /\ (\A v1, w \in Used : v1 = w)
          /\ (D!Owned # {} => driver.set_up = D!Set_up)
      BY <1>2, <2>1, BeginsAlone
    <2>5. RequestHolds(q)'
      BY <2>2 DEF RequestHolds
    <2>. QED  BY <1>1, <2>1, <2>2, <2>3, <2>4, <2>5, OneMoves
  <1>4. ASSUME NEW v \in Vehicles, D!EditVehicle(r, v) PROVE AccountInv'
    <2>1. D!Begin(r) /\ UNCHANGED <<driver, bare>> /\ D!OthersOff(v) /\ v \in D!Owned
      BY <1>4 DEF D!EditVehicle
    <2>0. PICK q : q = [D!Quiet EXCEPT !.pc = "edit", !.vehicle = v]
      OBVIOUS
    <2>2. request' = [request EXCEPT ![r] = q] /\ q.pc = "edit" /\ q.vehicle = v
      BY <1>4, <2>0 DEF D!EditVehicle, D!Quiet
    <2>3. Used' \subseteq {v} /\ D!Owned' = D!Owned
      BY <2>1, OthersOffIs DEF Used, D!With, D!Owned
    <2>4. ~mixed /\ (\A s \in Slots : ~Doing(s))
          /\ (D!Owned # {} => driver.set_up = D!Set_up)
      BY <1>2, <2>1, BeginsAlone
    <2>5. RequestHolds(q)'
      BY <2>1, <2>2, <2>3 DEF RequestHolds
    <2>. QED  BY <1>1, <2>1, <2>2, <2>3, <2>4, <2>5, OneMoves
  <1>5. ASSUME NEW v \in Vehicles, D!MakeActive(r, v) PROVE AccountInv'
    <2>1. D!Begin(r) /\ UNCHANGED <<driver, garage, bare>> /\ v \in D!Owned
      BY <1>5 DEF D!MakeActive
    <2>0. PICK q : q = [D!Quiet EXCEPT !.pc = "make", !.vehicle = v, !.due = driver.doc_expiry_type]
      OBVIOUS
    <2>2. request' = [request EXCEPT ![r] = q] /\ q.pc = "make"
      BY <1>5, <2>0 DEF D!MakeActive, D!Quiet
    <2>3. Used' = Used /\ D!Owned' = D!Owned
      BY <2>1 DEF Used, D!With, D!Owned
    <2>4. ~mixed /\ (\A s \in Slots : ~Doing(s)) /\ (\A v1, w \in Used : v1 = w)
          /\ (D!Owned # {} => driver.set_up = D!Set_up)
      BY <1>2, <2>1, BeginsAlone
    <2>5. RequestHolds(q)'
      BY <2>1, <2>2, <2>3 DEF RequestHolds
    <2>. QED  BY <1>1, <2>1, <2>2, <2>3, <2>4, <2>5, OneMoves
  <1>6. ASSUME NEW pc, NEW new \in {"create", "added", "edited", "made", "ask"},
               D!Step(r, pc), D!Goto(r, new),
               pc \in {"add", "create", "edit", "make", "made"}, mixed' = mixed, UNCHANGED driver,
               new = "create" => Used' = {},
               new # "made" => \A v, w \in Used' : v = w,
               new # "added" /\ D!Owned' # {} => D!Owned # {} \/ pc \in {"edit", "make"}
        PROVE  AccountInv'
    <2>0. PICK q : q = [request[r] EXCEPT !.pc = new]
      OBVIOUS
    <2>1. request' = [request EXCEPT ![r] = q] /\ q.pc = new
      BY <1>6, <2>0, GotoIs, RequestWith
    <2>2. request[r].pc = pc /\ Doing(r) /\ pc # "added"
      BY <1>6 DEF D!Step, Doing
    <2>3. /\ \A s \in Slots \ {r} : ~Doing(s)
          /\ RequestHolds(request[r])
          /\ D!Owned # {} => driver.set_up = D!Set_up
      BY <1>2, <1>6, <2>2, GoesOnAlone
    <2>4. pc \in {"edit", "make"} => D!Owned # {}
      BY <2>2, <2>3 DEF RequestHolds
    <2>5. RequestHolds(q)'
      BY <1>6, <2>1 DEF RequestHolds
    <2>. QED  BY <1>1, <1>2, <1>6, <2>1, <2>3, <2>4, <2>5, OneMoves
  <1>7. ASSUME D!AddOthers(r) PROVE AccountInv'
    <2>1. D!Step(r, "add") /\ D!OthersOff(None) /\ D!Goto(r, "create") /\ UNCHANGED <<driver, mixed>>
      BY <1>7 DEF D!AddOthers
    <2>2. Used' \subseteq {None} /\ D!Owned' = D!Owned
      BY <2>1, OthersOffIs DEF Used, D!With, D!Owned
    <2>3. ~(None \in Used')
      BY DriverAssumption DEF Used, D!With
    <2>. QED  BY <1>6, <2>1, <2>2, <2>3
  <1>8. ASSUME NEW x \in {"create", "edit", "make"}, NEW new \in {"added", "edited", "made"},
               D!Step(r, x), D!Status(request[r].vehicle, "requested"), D!Goto(r, new),
               new = "added" <=> x = "create", new = "made" <=> x = "make",
               UNCHANGED <<driver, mixed>>
        PROVE  AccountInv'
    <2>1. \A w \in Vehicles :
             garage'[w].status = IF w = request[r].vehicle THEN "requested" ELSE garage[w].status
      BY <1>8, StatusIs
    <2>2. Doing(r) /\ request[r].pc = x
      BY <1>8 DEF D!Step, Doing
    <2>3. RequestHolds(request[r])
      BY <1>2, <1>8, <2>2, GoesOnAlone
    <2>4. Used' \subseteq Used \cup {request[r].vehicle}
      BY <2>1 DEF Used, D!With
    <2>5. x # "make" => Used \subseteq {request[r].vehicle}
      BY <2>2, <2>3 DEF RequestHolds
    <2>6. x # "make" => \A v, w \in Used' : v = w
      BY <2>4, <2>5
    <2>. QED  BY <1>6, <1>8, <2>6
  <1>9. ASSUME D!MakeOthers(r) PROVE AccountInv'
    <2>1. /\ D!Step(r, "made") /\ D!OthersOff(request[r].vehicle) /\ D!Goto(r, "ask")
          /\ UNCHANGED <<driver, mixed>>
      BY <1>9 DEF D!MakeOthers
    <2>2. \A w \in Used' : w = request[r].vehicle
      BY <2>1, OthersOffIs DEF Used, D!With
    <2>3. D!Owned' = D!Owned
      BY <2>1, OthersOffIs DEF D!Owned
    <2>. QED  BY <1>6, <2>1, <2>2, <2>3
  <1>10. ASSUME NEW x \in {"added", "edited", "ask"}, D!Step(r, x), D!End(r),
                UNCHANGED <<garage, mixed>>, driver'.approved = None,
                x = "added" => driver'.set_up = D!Set_up,
                driver.set_up \subseteq driver'.set_up, driver'.set_up \subseteq D!Set_up
         PROVE  AccountInv'
    <2>0. PICK q : q = D!Quiet
      OBVIOUS
    <2>1. request' = [request EXCEPT ![r] = q] /\ q.pc = "idle"
      BY <1>10, <2>0 DEF D!End, D!Quiet
    <2>2. Doing(r) /\ request[r].pc = x
      BY <1>10 DEF D!Step, Doing
    <2>3. ~mixed
      BY <1>2, <1>10
    <2>4. /\ \A s \in Slots \ {r} : ~Doing(s)
          /\ \A v, w \in Used : v = w
          /\ x # "added" /\ D!Owned # {} => driver.set_up = D!Set_up
      BY <2>2, <2>3, GoesOnAlone
    <2>5. Used' = Used /\ D!Owned' = D!Owned
      BY <1>10 DEF Used, D!With, D!Owned
    <2>6. RequestHolds(q)'
      BY <2>1 DEF RequestHolds
    <2>7. Asked'
      BY <1>0, <1>10 DEF Asked
    <2>8. D!Owned' # {} => driver'.set_up = D!Set_up
      BY <1>10, <2>4, <2>5
    <2>. QED  BY <1>1, <2>1, <2>3, <2>4, <2>5, <2>6, <2>7, <2>8, OneMoves
  <1>11. ASSUME D!AddDriver(r) PROVE AccountInv'
    <2>1. driver'.approved = None /\ driver'.set_up = driver.set_up \cup {"vehicle", "documents"}
      BY <1>0, <1>11 DEF D!AddDriver, D!Ask, DocumentType
    <2>2. driver'.set_up = D!Set_up
      BY <1>0, <2>1 DEF D!Set_up
    <2>3. D!Step(r, "added") /\ D!End(r) /\ UNCHANGED <<garage, mixed>>
      BY <1>11 DEF D!AddDriver
    <2>. QED  BY <1>0, <1>10, <2>1, <2>2, <2>3
  <1>12. ASSUME D!EditDriver(r) \/ D!MakeDriver(r) PROVE AccountInv'
    <2>1. driver'.approved = None /\ driver'.set_up = driver.set_up
      BY <1>0, <1>12 DEF D!EditDriver, D!MakeDriver, D!Ask, DocumentType
    <2>2. D!End(r) /\ UNCHANGED <<garage, mixed>> /\ (D!Step(r, "edited") \/ D!Step(r, "ask"))
      BY <1>12 DEF D!EditDriver, D!MakeDriver
    <2>. QED  BY <1>0, <1>10, <2>1, <2>2
  <1>13. ASSUME D!EditLicence(r) PROVE AccountInv'
    <2>1. ~mixed /\ (\A s \in Slots : ~Doing(s)) /\ (\A v, w \in Used : v = w)
          /\ (D!Owned # {} => driver.set_up = D!Set_up)
      BY <1>2, <1>13, BeginsAlone DEF D!EditLicence
    <2>2. driver'.approved = None /\ driver'.set_up = driver.set_up
      BY <1>0, <1>13 DEF D!EditLicence, DocumentType
    <2>3. UNCHANGED request /\ Used' = Used /\ D!Owned' = D!Owned
      BY <1>13 DEF D!EditLicence, Used, D!With, D!Owned
    <2>4. Asked'
      BY <1>0, <2>2 DEF Asked
    <2>5. PICK q : request' = [request EXCEPT ![r] = q] /\ q.pc \in {"idle", "dates"}
      BY <1>0, <2>1, <2>3 DEF Doing
    <2>6. RequestHolds(q)'
      BY <2>5 DEF RequestHolds
    <2>. QED  BY <1>1, <2>1, <2>2, <2>3, <2>4, <2>5, <2>6, OneMoves
  <1>14. D!AddCreate(r) \/ D!EditRequest(r) \/ D!MakeRequest(r) => AccountInv'
    BY <1>8 DEF D!AddCreate, D!EditRequest, D!MakeRequest
  <1>. QED
    BY <1>3, <1>4, <1>5, <1>7, <1>9, <1>11, <1>12, <1>13, <1>14 DEF D!DriverStep

\* Decisions of the administration.
LEMMA AccountDecision ==
  ASSUME D!TypeOK, AccountInv, NEW r \in Slots, D!DecisionStep(r)
  PROVE  AccountInv'
  <1>0. "profile" \in driver.set_up /\ driver.set_up \subseteq D!Set_up /\ None # TRUE
        /\ request \in [Slots -> RequestType] /\ driver \in DocumentType
    BY DriverTypes, DriverAssumption DEF AccountInv, DocumentType
  <1>1. driver'.set_up = driver.set_up
    BY <1>0
       DEF D!DecisionStep, D!Accept, D!AcceptVehicle, D!AcceptExpiry, D!AcceptDriver,
           D!Decline, D!DeclineExpiry, D!DeclineDriver, D!SetExpiryDate, D!SetLicenceDate,
           DocumentType
  <1>2. ASSUME NEW v \in Vehicles, D!SetExpiryDate(r, v) PROVE AccountInv'
    <2>1. \A w \in Vehicles : garage'[w].status = garage[w].status
      <3>1. garage \in [Vehicles -> CarType]
        BY DriverTypes
      <3>. QED  BY <1>2, <3>1 DEF D!SetExpiryDate, CarType
    <2>2. \A s \in Slots : \/ request'[s] = request[s]
                         \/ {request[s].pc, request'[s].pc} \subseteq {"idle", "dates"}
      <3>1. PICK q : q = [request[r] EXCEPT !.pc = "dates"]
        OBVIOUS
      <3>2. request' = [request EXCEPT ![r] = q] /\ q.pc = "dates" /\ request[r].pc = "idle"
        BY <1>2, <3>1, GotoIs, RequestWith DEF D!SetExpiryDate
      <3>. QED  BY <1>0, <3>2
    <2>3. UNCHANGED <<driver, mixed, bare>>
      BY <1>2 DEF D!SetExpiryDate
    <2>. QED  BY <1>0, <2>1, <2>2, <2>3, NothingMoves
  <1>3. ASSUME D!SetLicenceDate(r) PROVE AccountInv'
    <2>1. \A s \in Slots : \/ request'[s] = request[s]
                         \/ {request[s].pc, request'[s].pc} \subseteq {"idle", "dates"}
      <3>1. request' = [request EXCEPT ![r] = D!Quiet] /\ D!Quiet.pc = "idle"
            /\ request[r].pc = "dates"
        BY <1>3 DEF D!SetLicenceDate, D!End, D!Step, D!Quiet
      <3>. QED  BY <1>0, <3>1
    <2>2. driver'.update = driver.update /\ driver'.approved = driver.approved
          /\ UNCHANGED <<garage, mixed, bare>>
      BY <1>0, <1>3 DEF D!SetLicenceDate, DocumentType
    <2>. QED  BY <1>0, <1>1, <2>1, <2>2, NothingMoves
  <1>4. SUFFICES ASSUME ~mixed', ~\E v \in Vehicles : D!SetExpiryDate(r, v), ~D!SetLicenceDate(r)
                 PROVE  AccountInv'
    BY <1>0, <1>1, <1>2, <1>3 DEF AccountInv
  <1>5. ASSUME D!Accept(r) PROVE AccountInv'
    <2>0. PICK q : q = [D!Quiet EXCEPT !.pc = "accept"]
      OBVIOUS
    <2>1. request' = [request EXCEPT ![r] = q] /\ q.pc = "accept"
      BY <1>5, <2>0 DEF D!Accept, D!Quiet
    <2>2. D!Begin(r) /\ bare' = (D!With("requested") \cup D!With("active") = {})
          /\ UNCHANGED <<driver, garage>>
      BY <1>5 DEF D!Accept
    <2>3. Used' = Used /\ D!Owned' = D!Owned
      BY <2>2 DEF Used, D!With, D!Owned
    <2>4. ~mixed /\ (\A s \in Slots : ~Doing(s)) /\ (\A v, w \in Used : v = w)
          /\ (D!Owned # {} => driver.set_up = D!Set_up)
      BY <1>4, <2>2, BeginsAlone
    <2>5. ~bare' => Used # {}
      BY <2>2 DEF Used
    <2>6. RequestHolds(q)'
      BY <2>1, <2>3, <2>5 DEF RequestHolds
    <2>. QED  BY <1>0, <1>1, <2>1, <2>3, <2>4, <2>6, OneMoves
  <1>6. ASSUME NEW reason \in BOOLEAN, D!Decline(r, reason) PROVE AccountInv'
    <2>1. D!Begin(r) /\ D!TakeRequested("deactive") /\ UNCHANGED <<driver, bare>>
      BY <1>6 DEF D!Decline
    <2>2. ~mixed /\ (\A s \in Slots : ~Doing(s)) /\ (\A v, w \in Used : v = w) /\ Asked
          /\ (D!Owned # {} => driver.set_up = D!Set_up)
      BY <1>4, <2>1, BeginsAlone
    <2>3. /\ D!With("requested")' = {} /\ D!Owned' = D!Owned /\ Used' \subseteq Used
          /\ D!With("requested") = {} => Used' = Used
      BY <2>1, <2>2, TakeIs
    <2>4. PICK q : q = IF reason THEN [D!Quiet EXCEPT !.pc = "decline"] ELSE request[r]
      OBVIOUS
    <2>5. request' = [request EXCEPT ![r] = q]
          /\ q.pc \in IF reason THEN {"decline"} ELSE {"idle", "dates"}
      BY <1>0, <1>6, <2>2, <2>4 DEF D!Decline, D!Quiet, Doing
    <2>6. RequestHolds(q)'
      BY <2>3, <2>5 DEF RequestHolds
    <2>7. Asked'
      BY <1>0, <2>1, <2>2, <2>3 DEF Asked
    <2>. QED  BY <1>0, <1>1, <2>2, <2>3, <2>5, <2>6, <2>7, OneMoves
  <1>7. ASSUME NEW x \in {"accept", "expiry", "accepted", "decline", "declined"}, D!Step(r, x)
        PROVE  /\ request[r].pc = x /\ Doing(r)
               /\ ~mixed => /\ \A s \in Slots \ {r} : ~Doing(s)
                            /\ x # "accept" => D!With("requested") = {}
                            /\ x \in {"accept", "expiry", "accepted"} /\ ~bare => Used # {}
                            /\ \A v, w \in Used : v = w
                            /\ D!Owned # {} => driver.set_up = D!Set_up
    <2>1. request[r].pc = x /\ Doing(r)
      BY <1>7 DEF D!Step, Doing
    <2>2. ~mixed => RequestHolds(request[r])
      BY <2>1, GoesOnAlone
    <2>. QED  BY <2>1, <2>2, GoesOnAlone DEF RequestHolds
  <1>8. ASSUME NEW x \in {"accept", "expiry", "decline"}, D!Step(r, x),
               NEW new \in {"expiry", "accepted", "declined"}, D!Goto(r, new),
               new = "declined" <=> x = "decline",
               UNCHANGED <<mixed, bare>>,
               \/ x # "accept" /\ UNCHANGED garage
               \/ x = "accept" /\ D!TakeRequested("active")
        PROVE  AccountInv'
    <2>0. PICK q : q = [request[r] EXCEPT !.pc = new]
      OBVIOUS
    <2>1. request' = [request EXCEPT ![r] = q] /\ q.pc = new
      BY <1>8, <2>0, GotoIs, RequestWith
    <2>2. ~mixed
      BY <1>4, <1>8
    <2>3. UNCHANGED garage => /\ Used' = Used /\ D!Owned' = D!Owned
                              /\ D!With("requested")' = D!With("requested")
      BY DEF Used, D!With, D!Owned
    <2>4. D!With("requested")' = {} /\ Used' = Used /\ D!Owned' = D!Owned
      <3>1. x = "accept" => D!With("requested")' = {} /\ Used' = Used /\ D!Owned' = D!Owned
        BY <1>7, <1>8, <2>2, TakeIs
      <3>2. x # "accept" => D!With("requested") = {}
        BY <1>7, <1>8, <2>2
      <3>. QED  BY <1>8, <2>3, <3>1, <3>2
    <2>5. x \in {"accept", "expiry"} /\ ~bare => Used # {}
      BY <1>7, <1>8, <2>2
    <2>6. RequestHolds(q)'
      BY <1>8, <2>1, <2>4, <2>5 DEF RequestHolds
    <2>7. /\ \A s \in Slots \ {r} : ~Doing(s)
          /\ \A v, w \in Used : v = w
          /\ D!Owned # {} => driver.set_up = D!Set_up
      BY <1>7, <1>8, <2>2
    <2>. QED  BY <1>0, <1>1, <2>1, <2>2, <2>4, <2>6, <2>7, OneMoves
  <1>9. ASSUME D!AcceptDriver(r) \/ D!DeclineDriver(r) PROVE AccountInv'
    <2>0. PICK q : q = D!Quiet
      OBVIOUS
    <2>1. request' = [request EXCEPT ![r] = q] /\ q.pc = "idle" /\ UNCHANGED <<garage, mixed, bare>>
      BY <1>9, <2>0 DEF D!AcceptDriver, D!DeclineDriver, D!End, D!Quiet
    <2>2. ~mixed /\ Used' = Used /\ D!Owned' = D!Owned
          /\ D!With("requested")' = D!With("requested")
      BY <1>4, <2>1 DEF Used, D!With, D!Owned
    <2>3. /\ \A s \in Slots \ {r} : ~Doing(s)
          /\ \A v, w \in Used : v = w
          /\ D!Owned # {} => driver.set_up = D!Set_up
          /\ D!With("requested") = {}
          /\ D!AcceptDriver(r) /\ ~bare => Used # {}
      BY <1>7, <1>9, <2>2 DEF D!AcceptDriver, D!DeclineDriver
    <2>4. /\ driver'.update = FALSE
          /\ \/ driver'.approved = FALSE
             \/ driver'.approved = TRUE /\ D!AcceptDriver(r)
      BY <1>0, <1>9 DEF D!AcceptDriver, D!DeclineDriver, DocumentType
    <2>5. Asked'
      BY <2>1, <2>2, <2>3, <2>4 DEF Asked
    <2>6. RequestHolds(q)'
      BY <2>1 DEF RequestHolds
    <2>. QED  BY <1>0, <1>1, <2>1, <2>2, <2>3, <2>5, <2>6, OneMoves
  <1>10. D!AcceptVehicle(r) \/ D!AcceptExpiry(r) \/ D!DeclineExpiry(r) => AccountInv'
    BY <1>8 DEF D!AcceptVehicle, D!AcceptExpiry, D!DeclineExpiry
  <1>. QED
    BY <1>4, <1>5, <1>6, <1>9, <1>10 DEF D!DecisionStep

LEMMA DriverAccountStep == D!TypeOK /\ AccountInv /\ [D!Next]_(D!vars) => AccountInv'
  <1>. SUFFICES ASSUME D!TypeOK, AccountInv, [D!Next]_(D!vars) PROVE AccountInv'
    OBVIOUS
  <1>0. /\ driver \in DocumentType /\ garage \in [Vehicles -> CarType]
        /\ driver.set_up \subseteq D!Set_up
    BY DriverTypes DEF DocumentType
  <1>1. ASSUME UNCHANGED <<request, mixed, bare>>,
               \A v \in Vehicles : garage'[v].status = garage[v].status,
               driver.set_up \subseteq driver'.set_up, driver'.set_up \subseteq D!Set_up,
               driver'.update = driver.update,
               driver'.approved = driver.approved
                 \/ (driver.approved = TRUE /\ driver.update /\ driver'.approved = FALSE)
        PROVE  AccountInv'
    BY <1>1, NothingMoves
  <1>2. ASSUME NEW v \in Vehicles, D!SetDocuments(v) PROVE AccountInv'
    <2>1. \A w \in Vehicles : garage'[w].status = garage[w].status
      BY <1>0, <1>2 DEF D!SetDocuments, CarType
    <2>2. /\ driver.set_up \subseteq driver'.set_up /\ driver'.set_up \subseteq D!Set_up
          /\ driver'.update = driver.update /\ driver'.approved = driver.approved
      BY <1>0, <1>2 DEF D!SetDocuments, DocumentType, D!Set_up
    <2>. QED  BY <1>1, <1>2, <2>1, <2>2 DEF D!SetDocuments
  <1>3. ASSUME NEW to \in BOOLEAN, D!GoOnline(to) \/ D!SwitchActive(to) PROVE AccountInv'
    <2>1. /\ driver'.set_up = driver.set_up
          /\ driver'.update = driver.update /\ driver'.approved = driver.approved
      BY <1>0, <1>3 DEF D!GoOnline, D!SwitchActive, DocumentType
    <2>. QED  BY <1>0, <1>1, <1>3, <2>1 DEF D!GoOnline, D!SwitchActive
  <1>4. ASSUME D!DatesPass PROVE AccountInv'
    <2>1. \A w \in Vehicles : garage'[w].status = garage[w].status
      BY <1>0, <1>4 DEF D!DatesPass, CarType
    <2>2. /\ driver'.set_up = driver.set_up
          /\ driver'.update = driver.update /\ driver'.approved = driver.approved
      BY <1>0, <1>4 DEF D!DatesPass, DocumentType
    <2>. QED  BY <1>0, <1>1, <1>4, <2>1, <2>2 DEF D!DatesPass
  <1>5. ASSUME D!CheckExpiry PROVE AccountInv'
    <2>1. \A w \in Vehicles : garage'[w].status = garage[w].status
      <3>. DEFINE v == IF D!With("active") = {} THEN None
                       ELSE CHOOSE w \in D!With("active") : TRUE
                  gone == D!Gone(v)
                  new(w) == [x \in D!Papers |-> IF x \in gone THEN "none"
                                               ELSE garage[w].dates[x]]
      <3>1. \/ UNCHANGED garage
            \/ garage' = [w \in Vehicles |-> IF w # v THEN garage[w]
                                           ELSE [garage[w] EXCEPT !.dates = new(w)]]
        BY <1>5 DEF D!CheckExpiry
      <3>. HIDE DEF v, gone, new
      <3>. QED  BY <1>0, <3>1 DEF CarType
    <2>2. \/ UNCHANGED driver
          \/ /\ driver.approved = TRUE /\ driver.update
             /\ driver'.set_up = driver.set_up
             /\ driver'.update = driver.update /\ driver'.approved = FALSE
      BY <1>0, <1>5 DEF D!CheckExpiry, DocumentType
    <2>. QED  BY <1>0, <1>1, <1>5, <2>1, <2>2 DEF D!CheckExpiry
  <1>6. CASE UNCHANGED D!vars
    BY <1>0, <1>1, <1>6 DEF D!vars
  <1>. QED
    BY <1>2, <1>3, <1>4, <1>5, <1>6, AccountDriver, AccountDecision DEF D!Next

\* DriverAccount: who may be offered a ride has one vehicle in use and nothing that waits
\* for a decision, and a vehicle that waits is in one of the lists of requests.
THEOREM DriversDrive == WorldSpec => []ApprovedDrives
  <1>. QED
    BY AccountInit, DriverTypeInit, DriverStepIs, DriverTypeStep, DriverAccountStep, AccountDone, PTL
       DEF WorldSpec

-----------------------------------------------------------------------------
(* Chats: what users and the booking refer to.                              *)

ThreadType ==
    [pc : {"idle", "room", "inject", "take", "pair", "create", "link", "unbook",
           "unlink", "save"},
     who : Staff \cup {None}, user : C!Riders \cup {None}, found : C!Links,
     booking : BOOLEAN, seen : C!Documents, clears : BOOLEAN]

LEMMA ChatTypes ==
  C!TypeOK <=> /\ connection \in [Connections -> C!Documents]
               /\ support \in [C!Riders -> C!Links] /\ attached \in [C!Riders -> C!Links]
               /\ thread \in [Threads -> ThreadType]
               /\ events \in 0 .. MaxEvents /\ orphaned \subseteq Connections /\ twice \in BOOLEAN
  BY DEF C!TypeOK, ThreadType

LEMMA ChatStepIs == [WorldNext]_WorldVars => [C!Next]_(C!vars)
  BY DEF WorldNext, WorldVars, StillChat, C!vars



\* The first of some connections.
LEMMA FirstIs ==
  ASSUME NEW X, X \subseteq Connections
  PROVE  /\ C!First(X) \in C!Links
         /\ X # {} => C!First(X) \in X
         /\ C!First(X) # None => C!First(X) \in X
  <1>1. CASE X = {}
    BY <1>1 DEF C!First, C!Links
  <1>2. CASE X # {}
    <2>1. \E c \in X : \A d \in X : c <= d
      BY <1>2, NatMin, ChatAssumption
    <2>. QED  BY <1>2, <2>1 DEF C!First, C!Links
  <1>. QED  BY <1>1, <1>2

LEMMA ChatTypeInit == WorldInit => C!TypeOK
  <1>. SUFFICES ASSUME C!Init PROVE C!TypeOK
    BY DEF WorldInit
  <1>1. C!NoConnection \in C!Documents
    BY DEF C!NoConnection, C!Documents
  <1>2. C!Rest \in ThreadType
    BY <1>1 DEF C!Rest, ThreadType, C!Links
  <1>3. connection \in [Connections -> C!Documents] /\ thread \in [Threads -> ThreadType]
    BY <1>1, <1>2 DEF C!Init
  <1>4. support \in [C!Riders -> C!Links] /\ attached \in [C!Riders -> C!Links]
    BY DEF C!Init, C!Links
  <1>5. events \in 0 .. MaxEvents
    BY ChatAssumption DEF C!Init
  <1>6. orphaned \subseteq Connections /\ twice \in BOOLEAN
    BY DEF C!Init
  <1>. QED  BY <1>3, <1>4, <1>5, <1>6, ChatTypes

\* The handlers under way.
LEMMA ThreadTypeStep ==
  ASSUME C!TypeOK, [C!Next]_(C!vars)
  PROVE  thread' \in [Threads -> ThreadType]
  <1>0. /\ thread \in [Threads -> ThreadType] /\ connection \in [Connections -> C!Documents]
        /\ C!Rest \in ThreadType
    BY ChatTypes DEF C!Rest, ThreadType, C!Links, C!Documents, C!NoConnection
  <1>1. ASSUME NEW t \in Threads, NEW q \in ThreadType, C!Goto(t, q)
        PROVE  thread' \in [Threads -> ThreadType]
    BY <1>0, <1>1 DEF C!Goto
  <1>2. ASSUME NEW t \in Threads, NEW u \in C!Riders, C!OpenRoom(t, u)
        PROVE  thread' \in [Threads -> ThreadType]
    <2>1. [C!Rest EXCEPT !.pc = "room", !.user = u] \in ThreadType
      BY <1>0 DEF ThreadType
    <2>. QED  BY <1>0, <1>1, <1>2, <2>1 DEF C!OpenRoom
  <1>3. ASSUME NEW t \in Threads, NEW u \in C!Riders, NEW b \in BOOLEAN, C!ChatSupport(t, u, b)
        PROVE  thread' \in [Threads -> ThreadType]
    <2>1. C!First(C!Unused) \in C!Links
      BY FirstIs DEF C!Unused
    <2>2. \A c \in C!Links : [C!Rest EXCEPT !.pc = "inject", !.user = u, !.found = c, !.booking = b]
                                \in ThreadType
      BY <1>0 DEF ThreadType
    <2>. QED  BY <1>1, <1>3, <2>1, <2>2 DEF C!ChatSupport
  <1>4. ASSUME NEW t \in Threads, NEW s \in Staff, NEW u \in C!Riders, NEW b \in BOOLEAN,
               C!StaffFind(t, s, u, b)
        PROVE  thread' \in [Threads -> ThreadType]
    <2>. DEFINE c == C!First({x \in C!OpenOnes : /\ connection[x].sender = u
                                              /\ connection[x].receiver = None})
                j == [C!Rest EXCEPT !.who = s, !.user = u, !.found = c, !.booking = b]
                pc == IF c = None THEN "pair" ELSE "take"
    <2>1. C!Goto(t, [j EXCEPT !.pc = pc])
      BY <1>4 DEF C!StaffFind
    <2>2. c \in C!Links
      BY FirstIs DEF C!OpenOnes
    <2>3. pc \in {"pair", "take"}
      OBVIOUS
    <2>. HIDE DEF c, pc
    <2>4. j \in ThreadType
      BY <1>0, <2>2 DEF ThreadType
    <2>. HIDE DEF j
    <2>5. [j EXCEPT !.pc = pc] \in ThreadType
      BY <2>3, <2>4 DEF ThreadType
    <2>. QED  BY <1>1, <2>1, <2>5
  <1>5. ASSUME NEW t \in Threads, C!StaffPair(t)
        PROVE  thread' \in [Threads -> ThreadType]
    <2>. DEFINE c == C!First({x \in C!OpenOnes :
                                /\ {thread[t].who, thread[t].user} \subseteq C!Parties(x)
                                /\ thread[t].booking => connection[x].booking})
                pc == IF c = None THEN "create" ELSE "link"
    <2>1. C!Goto(t, [thread[t] EXCEPT !.pc = pc, !.found = c])
      BY <1>5 DEF C!StaffPair
    <2>2. c \in C!Links
      BY FirstIs DEF C!OpenOnes
    <2>3. pc \in {"create", "link"}
      OBVIOUS
    <2>. HIDE DEF c, pc
    <2>4. [thread[t] EXCEPT !.pc = pc, !.found = c] \in ThreadType
      BY <1>0, <2>2, <2>3 DEF ThreadType
    <2>. QED  BY <1>1, <2>1, <2>4
  <1>6. ASSUME NEW t \in Threads, C!StaffCreate(t)
        PROVE  thread' \in [Threads -> ThreadType]
    <2>1. C!First(C!Unused) \in C!Links
      BY FirstIs DEF C!Unused
    <2>2. \A c \in C!Links : [thread[t] EXCEPT !.pc = "link", !.found = c] \in ThreadType
      BY <1>0 DEF ThreadType
    <2>. QED  BY <1>1, <1>6, <2>1, <2>2 DEF C!StaffCreate
  <1>7. ASSUME NEW t \in Threads, NEW s \in Staff, NEW c \in Connections, C!CloseChat(t, s, c)
        PROVE  thread' \in [Threads -> ThreadType]
    <2>. DEFINE to == C!SendTo(connection[c])
                b == to # None /\ support[to] # None
    <2>1. C!Goto(t, [C!Rest EXCEPT !.pc = "unbook", !.who = s, !.user = to,
                                   !.seen = connection[c], !.clears = b])
      BY <1>7 DEF C!CloseChat
    <2>2. to \in C!Riders \cup {None} /\ b \in BOOLEAN
      BY DEF C!SendTo
    <2>. HIDE DEF to, b
    <2>3. [C!Rest EXCEPT !.pc = "unbook", !.who = s, !.user = to,
                         !.seen = connection[c], !.clears = b] \in ThreadType
      BY <1>0, <2>2 DEF ThreadType
    <2>. QED  BY <1>1, <2>1, <2>3
  <1>8. ASSUME NEW t \in Threads, C!CloseUnbook(t) \/ C!CloseUnlink(t)
        PROVE  thread' \in [Threads -> ThreadType]
    <2>1. \A pc \in {"unlink", "save"} : [thread[t] EXCEPT !.pc = pc] \in ThreadType
      BY <1>0 DEF ThreadType
    <2>. QED  BY <1>1, <1>8, <2>1 DEF C!CloseUnbook, C!CloseUnlink
  <1>9. ASSUME NEW t \in Threads, \/ C!CreateRoom(t) \/ C!InjectWithRef(t) \/ C!StaffTake(t)
                                  \/ C!StaffLink(t) \/ C!CloseSave(t)
        PROVE  thread' \in [Threads -> ThreadType]
    BY <1>0, <1>1, <1>9
       DEF C!CreateRoom, C!InjectWithRef, C!StaffTake, C!StaffLink, C!CloseSave, C!End
  <1>10. ASSUME NEW x, NEW c, C!SendSupport(x, c) PROVE thread' \in [Threads -> ThreadType]
    BY <1>0, <1>10 DEF C!SendSupport
  <1>11. CASE UNCHANGED C!vars
    BY <1>0, <1>11 DEF C!vars
  <1>. QED
    BY <1>2, <1>3, <1>4, <1>5, <1>6, <1>7, <1>8, <1>9, <1>10, <1>11 DEF C!Next, C!Handler

\* What is done to one connection: it is created, given another receiver or closed.
LEMMA ConnectionStep ==
  ASSUME C!TypeOK, [C!Next]_(C!vars)
  PROVE  \/ UNCHANGED connection
         \/ \E c \in C!Unused, k \in C!Documents :
               connection' = [connection EXCEPT ![c] = k] /\ k.state = "open"
         \/ \E c \in Connections, x \in Staff \cup C!Riders \cup {None} :
               connection' = [connection EXCEPT ![c].receiver = x]
         \/ \E c \in C!OpenOnes : connection' = [connection EXCEPT ![c].state = "closed"]
  <1>. DEFINE Goal == \/ UNCHANGED connection
                      \/ \E c \in C!Unused, k \in C!Documents :
                            connection' = [connection EXCEPT ![c] = k] /\ k.state = "open"
                      \/ \E c \in Connections, x \in Staff \cup C!Riders \cup {None} :
                            connection' = [connection EXCEPT ![c].receiver = x]
                      \/ \E c \in C!OpenOnes :
                            connection' = [connection EXCEPT ![c].state = "closed"]
  <1>0. thread \in [Threads -> ThreadType]
    BY ChatTypes
  <1>1. ASSUME NEW sender \in Staff \cup C!Riders \cup {None},
               NEW receiver \in Staff \cup C!Riders \cup {None}, NEW b \in BOOLEAN,
               NEW type \in {"support", "booking"}, NEW by \in C!Riders \cup {None},
               C!Unused # {}, C!Create(C!First(C!Unused), sender, receiver, b, type, by)
        PROVE  Goal
    <2>1. C!First(C!Unused) \in C!Unused
      BY <1>1, FirstIs DEF C!Unused
    <2>2. PICK k : k = [state |-> "open", sender |-> sender, receiver |-> receiver,
                        booking |-> b, chat_type |-> type, initiated_by |-> by]
      OBVIOUS
    <2>3. k \in C!Documents /\ k.state = "open"
      BY <2>2 DEF C!Documents
    <2>4. connection' = [connection EXCEPT ![C!First(C!Unused)] = k]
      BY <1>1, <2>2 DEF C!Create
    <2>. QED  BY <2>1, <2>3, <2>4
  <1>2. ASSUME NEW t \in Threads, C!CreateRoom(t) PROVE Goal
    BY <1>0, <1>1, <1>2 DEF C!CreateRoom, ThreadType, C!Peer, C!Riders
  <1>3. ASSUME NEW t \in Threads, NEW u \in C!Riders, NEW b \in BOOLEAN, C!ChatSupport(t, u, b)
        PROVE  Goal
    BY <1>1, <1>3 DEF C!ChatSupport
  <1>4. ASSUME NEW t \in Threads, C!StaffCreate(t) PROVE Goal
    <2>1. thread[t].who \in Staff \cup {None} /\ thread[t].user \in C!Riders \cup {None}
          /\ thread[t].booking \in BOOLEAN
      BY <1>0 DEF ThreadType
    <2>2. C!Unused # {} /\ C!Create(C!First(C!Unused), thread[t].who, thread[t].user,
                                   thread[t].booking, "booking", thread[t].user)
      BY <1>4 DEF C!StaffCreate
    <2>. QED  BY <1>1, <2>1, <2>2
  <1>5. ASSUME NEW t \in Threads, C!StaffTake(t) PROVE Goal
    <2>1. connection' = [connection EXCEPT ![thread[t].found].receiver = thread[t].who]
      BY <1>5 DEF C!StaffTake
    <2>2. thread[t].who \in Staff \cup C!Riders \cup {None} /\ thread[t].found \in C!Links
      BY <1>0 DEF ThreadType
    <2>3. CASE thread[t].found = None
      <3>1. connection = [c \in Connections |-> connection[c]]
        BY ChatTypes
      <3>2. None \notin Connections
        BY ChatAssumption
      <3>. QED  BY <2>1, <2>3, <3>1, <3>2
    <2>. QED  BY <2>1, <2>2, <2>3 DEF C!Links
  <1>6. ASSUME NEW x \in Staff \cup C!Riders, NEW c \in Connections, C!SendSupport(x, c)
        PROVE  Goal
    BY <1>6 DEF C!SendSupport
  <1>7. ASSUME NEW t \in Threads, NEW s \in Staff, NEW c \in Connections, C!CloseChat(t, s, c)
        PROVE  Goal
    BY <1>7 DEF C!CloseChat
  <1>8. ASSUME NEW t \in Threads,
               \/ \E u \in C!Riders : C!OpenRoom(t, u)
               \/ C!InjectWithRef(t) \/ C!StaffPair(t) \/ C!StaffLink(t)
               \/ \E s \in Staff, u \in C!Riders, b \in BOOLEAN : C!StaffFind(t, s, u, b)
               \/ C!CloseUnbook(t) \/ C!CloseUnlink(t) \/ C!CloseSave(t)
        PROVE  Goal
    BY <1>8 DEF C!OpenRoom, C!InjectWithRef, C!StaffPair, C!StaffLink, C!StaffFind,
                C!CloseUnbook, C!CloseUnlink, C!CloseSave
  <1>9. ASSUME UNCHANGED C!vars PROVE Goal
    BY <1>9 DEF C!vars
  <1>. HIDE DEF Goal
  <1>10. ASSUME NEW t \in Threads, C!Handler(t) PROVE Goal
    BY <1>2, <1>3, <1>4, <1>5, <1>7, <1>8, <1>10 DEF C!Handler
  <1>11. ASSUME C!Next PROVE Goal
    <2>1. CASE \E t \in Threads : C!Handler(t)
      BY <1>10, <2>1
    <2>2. CASE \E x \in Staff \cup C!Riders, c \in Connections : C!SendSupport(x, c)
      BY <1>6, <2>2
    <2>. QED  BY <1>11, <2>1, <2>2 DEF C!Next
  <1>12. Goal
    BY <1>9, <1>11
  <1>. QED  BY <1>12 DEF Goal

LEMMA ConnectionTypeStep ==
  ASSUME C!TypeOK, [C!Next]_(C!vars)
  PROVE  connection' \in [Connections -> C!Documents]
  <1>1. connection \in [Connections -> C!Documents]
    BY ChatTypes
  <1>2. ASSUME NEW c, NEW x \in Staff \cup C!Riders \cup {None},
               connection' = [connection EXCEPT ![c].receiver = x]
        PROVE  connection' \in [Connections -> C!Documents]
    BY <1>1, <1>2 DEF C!Documents
  <1>3. ASSUME NEW c, connection' = [connection EXCEPT ![c].state = "closed"]
        PROVE  connection' \in [Connections -> C!Documents]
    BY <1>1, <1>3 DEF C!Documents
  <1>4. ASSUME NEW c, NEW k \in C!Documents, connection' = [connection EXCEPT ![c] = k]
        PROVE  connection' \in [Connections -> C!Documents]
    BY <1>1, <1>4
  <1>. QED  BY <1>1, <1>2, <1>3, <1>4, ConnectionStep

LEMMA ChatTypeStep == C!TypeOK /\ [C!Next]_(C!vars) => C!TypeOK'
  <1>. SUFFICES ASSUME C!TypeOK, [C!Next]_(C!vars) PROVE C!TypeOK'
    OBVIOUS
  <1>0. /\ support \in [C!Riders -> C!Links] /\ attached \in [C!Riders -> C!Links]
        /\ thread \in [Threads -> ThreadType]
        /\ events \in 0 .. MaxEvents /\ orphaned \subseteq Connections /\ twice \in BOOLEAN
    BY ChatTypes
  <1>1. connection' \in [Connections -> C!Documents] /\ thread' \in [Threads -> ThreadType]
    BY ConnectionTypeStep, ThreadTypeStep
  <1>7. (UNCHANGED events \/ (events < MaxEvents /\ events' = events + 1))
           => events' \in 0 .. MaxEvents
    BY <1>0, ChatAssumption
  <1>. USE DEF C!Next, C!Handler, C!vars, C!OpenRoom, C!CreateRoom, C!ChatSupport,
               C!InjectWithRef, C!StaffFind, C!StaffTake, C!StaffPair, C!StaffCreate,
               C!StaffLink, C!SendSupport, C!CloseChat, C!CloseUnbook, C!CloseUnlink,
               C!CloseSave
  <1>2. \/ UNCHANGED support
        \/ \E u, c : c \in C!Links /\ support' = [support EXCEPT ![u] = c]
    BY <1>0 DEF ThreadType, C!Links
  <1>3. \/ UNCHANGED attached
        \/ \E u, c : c \in C!Links /\ attached' = [attached EXCEPT ![u] = c]
    BY <1>0 DEF ThreadType, C!Links
  <1>4. UNCHANGED events \/ (events < MaxEvents /\ events' = events + 1)
    BY DEF C!Begin
  <1>5. orphaned' \subseteq Connections /\ twice' \in BOOLEAN
    BY <1>0
  <1>6. support' \in [C!Riders -> C!Links] /\ attached' \in [C!Riders -> C!Links]
    BY <1>0, <1>2, <1>3
  <1>. QED
    BY <1>1, <1>4, <1>5, <1>6, <1>7 DEF C!TypeOK, ThreadType

(* Whoever is referred to, and what a handler still has to forget.          *)

Known == {c \in Connections : connection[c].state # "none"}
Standing == C!OpenOnes \cup orphaned

\* t is closing a chat, and will make u forget the one he refers to.
Clears(t, u) ==
    \/ /\ thread[t].pc \in {"unbook", "unlink"}
       /\ u = IF thread[t].seen.receiver = thread[t].who THEN thread[t].seen.sender
              ELSE thread[t].seen.receiver
    \/ thread[t].pc \in C!Closing /\ thread[t].clears /\ thread[t].user = u

\* t will make the booking forget the chat u opened.
Unbooks(t, u) ==
    thread[t].pc = "unbook" /\ thread[t].seen.booking /\ thread[t].seen.initiated_by = u

HandlerHolds(q) ==
    /\ q.pc \in {"inject", "link"} => q.user \in C!Riders /\ q.found \in Standing \cap Known
    /\ q.pc = "inject" /\ q.booking =>
          connection[q.found].booking /\ connection[q.found].initiated_by = q.user
    /\ q.pc \in {"room", "pair", "create"} => q.user \in C!Riders
    /\ q.pc \in {"take", "pair", "create"} => q.who \in Staff

SenderInitiates ==
    \A c \in Known : connection[c].sender \in C!Riders =>
                        connection[c].initiated_by = connection[c].sender

SupportHolds(u) ==
    support[u] # None =>
       /\ support[u] \in Known
       /\ support[u] \in Standing \/ u \notin C!Parties(support[u]) \/ \E t \in Threads : Clears(t, u)

AttachedHolds(u) ==
    attached[u] # None =>
       /\ attached[u] \in Known
       /\ connection[attached[u]].booking /\ connection[attached[u]].initiated_by = u
       /\ attached[u] \in Standing \/ \E t \in Threads : Unbooks(t, u)

\* The opener of the booking's chat is alone, and has found none.
RoomHolds ==
    ~twice => /\ \A c, d \in C!Rooms : c = d
              /\ \A s, t \in Threads : thread[s].pc = "room" /\ thread[t].pc = "room" => s = t
              /\ (\E t \in Threads : thread[t].pc = "room") => C!Rooms = {}

ChatInv ==
    /\ \A t \in Threads : HandlerHolds(thread[t])
    /\ SenderInitiates
    /\ \A u \in C!Riders : SupportHolds(u) /\ AttachedHolds(u)
    /\ RoomHolds

LEMMA ChatInit == WorldInit => ChatInv
  <1>. SUFFICES ASSUME C!Init PROVE ChatInv
    BY DEF WorldInit
  <1>1. Known = {} /\ C!Rooms = {}
    BY DEF C!Init, Known, C!Rooms, C!OpenOnes, C!NoConnection
  <1>2. \A t \in Threads : thread[t].pc = "idle"
    BY DEF C!Init, C!Rest
  <1>3. \A u \in C!Riders : support[u] = None /\ attached[u] = None
    BY DEF C!Init
  <1>. QED
    BY <1>1, <1>2, <1>3
       DEF ChatInv, HandlerHolds, SenderInitiates, SupportHolds, AttachedHolds, RoomHolds

\* FiniteSets seen from the instance.
LEMMA ChatCardinality == \A X : C!Cardinality(X) = Cardinality(X)
  BY DEF C!Cardinality, Cardinality

LEMMA ChatDone == C!TypeOK /\ ChatInv => ChatsHold
  <1>. SUFFICES ASSUME C!TypeOK, ChatInv PROVE ChatsHold
    OBVIOUS
  <1>1. ASSUME NEW u \in C!Riders, support[u] # None
        PROVE  \/ support[u] \in C!OpenOnes \/ support[u] \in orphaned
               \/ u \notin C!Parties(support[u])
               \/ \E t \in Threads : thread[t].pc \in C!Closing
    BY <1>1 DEF ChatInv, SupportHolds, Standing, Clears, C!Closing
  <1>2. ASSUME NEW u \in C!Riders, attached[u] # None
        PROVE  \/ attached[u] \in C!OpenOnes \/ attached[u] \in orphaned
               \/ \E t \in Threads : thread[t].pc = "unbook"
    BY <1>2 DEF ChatInv, AttachedHolds, Standing, Unbooks
  <1>3. C!LinksAreOpen
    BY <1>1, <1>2 DEF C!LinksAreOpen
  <1>4. ASSUME ~twice PROVE Cardinality(C!Rooms) <= 1
    <2>1. \A c, d \in C!Rooms : c = d
      BY <1>4 DEF ChatInv, RoomHolds
    <2>2. CASE C!Rooms = {}
      BY <2>2, FS_EmptySet
    <2>3. ASSUME NEW c \in C!Rooms PROVE Cardinality(C!Rooms) <= 1
      <3>1. C!Rooms = {c}
        BY <2>1
      <3>. HIDE DEF C!Rooms
      <3>. QED  BY <3>1, FS_Singleton
    <2>. QED  BY <2>2, <2>3
  <1>5. C!OneRoom
    BY <1>4, ChatCardinality DEF C!OneRoom
  <1>. QED  BY <1>3, <1>5 DEF ChatsHold

\* What a step may do to a connection that is known.
LEMMA KnownStep ==
  ASSUME C!TypeOK, ChatInv, [C!Next]_(C!vars), NEW c \in Known
  PROVE  /\ c \in Known'
         /\ connection'[c].sender = connection[c].sender
         /\ connection'[c].booking = connection[c].booking
         /\ connection'[c].initiated_by = connection[c].initiated_by
  <1>1. connection \in [Connections -> C!Documents]
    BY ChatTypes
  <1>2. c \in Connections /\ connection[c].state # "none"
    BY DEF Known
  <1>3. ASSUME NEW d \in C!Unused, NEW k \in C!Documents, connection' = [connection EXCEPT ![d] = k]
        PROVE  connection'[c] = connection[c]
    BY <1>1, <1>2, <1>3 DEF C!Unused
  <1>. QED  BY <1>1, <1>2, <1>3, ConnectionStep DEF Known, C!Documents

\* Only close_chat closes; a receiver is replaced by staff, or by a party.
LEMMA PartiesStep ==
  ASSUME C!TypeOK, ChatInv, [C!Next]_(C!vars), NEW c \in Known
  PROVE  /\ \/ connection'[c].state = connection[c].state
            \/ /\ connection[c].state = "open" /\ connection'[c].state = "closed"
               /\ \E t \in Threads, s \in Staff : C!CloseChat(t, s, c)
         /\ \A u \in C!Riders : u \in C!Parties(c)' => u \in C!Parties(c)
  <1>. DEFINE Goal == /\ \/ connection'[c].state = connection[c].state
                         \/ /\ connection[c].state = "open" /\ connection'[c].state = "closed"
                            /\ \E t \in Threads, s \in Staff : C!CloseChat(t, s, c)
                      /\ \A u \in C!Riders : u \in C!Parties(c)' => u \in C!Parties(c)
  <1>0. /\ connection \in [Connections -> C!Documents] /\ c \in Connections
        /\ connection[c].state # "none" /\ connection[c] \in C!Documents
    BY ChatTypes DEF Known
  <1>1. ASSUME connection'[c] = connection[c] PROVE Goal
    BY <1>1 DEF C!Parties
  <1>2. ASSUME NEW sender, NEW receiver, NEW b, NEW type, NEW by,
               C!Unused # {}, C!Create(C!First(C!Unused), sender, receiver, b, type, by)
        PROVE  Goal
    <2>1. C!First(C!Unused) \in C!Unused
      BY <1>2, FirstIs DEF C!Unused
    <2>2. C!First(C!Unused) # c
      BY <1>0, <2>1 DEF C!Unused
    <2>3. connection'[c] = connection[c]
      BY <1>0, <1>2, <2>2 DEF C!Create
    <2>. QED  BY <1>1, <2>3
  <1>3. ASSUME NEW d, NEW x, connection' = [connection EXCEPT ![d].receiver = x],
               d = c => x \in Staff \cup C!Parties(c)
        PROVE  Goal
    <2>1. CASE d # c
      BY <1>0, <1>1, <1>3, <2>1
    <2>2. CASE d = c
      <3>1. connection'[c].receiver = x /\ connection'[c].sender = connection[c].sender
            /\ connection'[c].state = connection[c].state
        BY <1>0, <1>3, <2>2 DEF C!Documents
      <3>2. \A u \in C!Riders : u \notin Staff
        BY ChatAssumption DEF C!Riders
      <3>. QED  BY <1>3, <2>2, <3>1, <3>2 DEF C!Parties
    <2>. QED  BY <2>1, <2>2
  <1>4. ASSUME NEW t \in Threads, C!StaffTake(t) PROVE Goal
    <2>1. thread[t].who \in Staff
      BY <1>4 DEF ChatInv, HandlerHolds, C!StaffTake, C!At
    <2>2. connection' = [connection EXCEPT ![thread[t].found].receiver = thread[t].who]
      BY <1>4 DEF C!StaffTake
    <2>. QED  BY <1>3, <2>1, <2>2
  <1>5. ASSUME NEW x \in Staff \cup C!Riders, NEW d \in Connections, C!SendSupport(x, d)
        PROVE  Goal
    <2>1. x \in Staff \cup C!Parties(d) /\ connection' = [connection EXCEPT ![d].receiver = x]
      BY <1>5 DEF C!SendSupport
    <2>. QED  BY <1>3, <2>1
  <1>6. ASSUME NEW t \in Threads, NEW s \in Staff, NEW d \in Connections, C!CloseChat(t, s, d)
        PROVE  Goal
    <2>1. d \in C!OpenOnes /\ connection' = [connection EXCEPT ![d].state = "closed"]
      BY <1>6 DEF C!CloseChat
    <2>2. CASE d # c
      BY <1>0, <1>1, <2>1, <2>2
    <2>3. CASE d = c
      <3>1. connection'[c].receiver = connection[c].receiver
            /\ connection'[c].sender = connection[c].sender
            /\ connection[c].state = "open" /\ connection'[c].state = "closed"
        BY <1>0, <2>1, <2>3 DEF C!Documents, C!OpenOnes
      <3>. QED  BY <1>6, <2>3, <3>1 DEF C!Parties
    <2>. QED  BY <2>2, <2>3
  <1>7. ASSUME NEW t \in Threads,
               \/ \E u \in C!Riders : C!OpenRoom(t, u)
               \/ C!InjectWithRef(t) \/ C!StaffPair(t) \/ C!StaffLink(t)
               \/ \E s \in Staff, u \in C!Riders, b \in BOOLEAN : C!StaffFind(t, s, u, b)
               \/ C!CloseUnbook(t) \/ C!CloseUnlink(t) \/ C!CloseSave(t)
        PROVE  Goal
    BY <1>1, <1>7 DEF C!OpenRoom, C!InjectWithRef, C!StaffPair, C!StaffLink, C!StaffFind,
                C!CloseUnbook, C!CloseUnlink, C!CloseSave
  <1>8. ASSUME UNCHANGED C!vars PROVE Goal
    BY <1>1, <1>8 DEF C!vars
  <1>. HIDE DEF Goal
  <1>9. ASSUME NEW t \in Threads, C!CreateRoom(t) \/ C!StaffCreate(t)
                    \/ \E u \in C!Riders, b \in BOOLEAN : C!ChatSupport(t, u, b)
        PROVE  Goal
    BY <1>2, <1>9 DEF C!CreateRoom, C!StaffCreate, C!ChatSupport
  <1>10. ASSUME NEW t \in Threads, C!Handler(t) PROVE Goal
    BY <1>4, <1>6, <1>7, <1>9, <1>10 DEF C!Handler
  <1>11. Goal
    BY <1>5, <1>8, <1>10 DEF C!Next
  <1>. QED  BY <1>11 DEF Goal

\* The one handler that moves.
LEMMA OthersStay ==
  ASSUME C!TypeOK, NEW t \in Threads, C!Handler(t)
  PROVE  \A s \in Threads \ {t} : thread'[s] = thread[s]
  <1>1. thread \in [Threads -> ThreadType]
    BY ChatTypes
  <1>2. UNCHANGED thread \/ \E q : C!Goto(t, q)
    BY DEF C!Handler, C!OpenRoom, C!CreateRoom, C!ChatSupport, C!InjectWithRef, C!StaffFind,
           C!StaffTake, C!StaffPair, C!StaffCreate, C!StaffLink, C!CloseChat, C!CloseUnbook,
           C!CloseUnlink, C!CloseSave, C!End
  <1>. QED  BY <1>1, <1>2 DEF C!Goto

\* What stands stays so, until it is closed with nobody about to refer to it.
LEMMA StandingStep ==
  ASSUME C!TypeOK, ChatInv, [C!Next]_(C!vars), NEW c \in Standing \cap Known
  PROVE  \/ c \in Standing'
         \/ \E t \in Threads, s \in Staff :
               /\ C!CloseChat(t, s, c)
               /\ \A r \in Threads \ {t} : thread[r].pc \in {"inject", "link"} => thread[r].found # c
  <1>1. orphaned \subseteq orphaned'
    BY DEF C!Next, C!Handler, C!vars, C!OpenRoom, C!CreateRoom, C!ChatSupport,
           C!InjectWithRef, C!StaffFind, C!StaffTake, C!StaffPair, C!StaffCreate,
           C!StaffLink, C!SendSupport, C!CloseChat, C!CloseUnbook, C!CloseUnlink,
           C!CloseSave
  <1>2. CASE connection'[c].state = connection[c].state
    BY <1>1, <1>2 DEF Standing, C!OpenOnes
  <1>3. ASSUME NEW t \in Threads, NEW s \in Staff, C!CloseChat(t, s, c), c \notin orphaned'
        PROVE  \A r \in Threads \ {t} : thread[r].pc \in {"inject", "link"} => thread[r].found # c
    BY <1>3 DEF C!CloseChat
  <1>. QED  BY <1>2, <1>3, PartiesStep DEF Standing

LEMMA CreatedIs ==
  ASSUME C!TypeOK, C!Unused # {}, NEW sender, NEW receiver, NEW b, NEW type, NEW by,
         C!Create(C!First(C!Unused), sender, receiver, b, type, by)
  PROVE  \E c \in C!Unused :
            /\ c = C!First(C!Unused)
            /\ connection'[c].sender = sender /\ connection'[c].receiver = receiver
            /\ connection'[c].booking = b /\ connection'[c].initiated_by = by
            /\ c \in C!OpenOnes' /\ c \in Known' /\ c \in Standing'
            /\ \A d \in Connections \ {c} : connection'[d] = connection[d]
  <1>0. connection \in [Connections -> C!Documents]
    BY ChatTypes
  <1>1. PICK c : c = C!First(C!Unused)
    OBVIOUS
  <1>2. c \in C!Unused /\ c \in Connections
    BY <1>1, FirstIs DEF C!Unused
  <1>3. connection' = [connection EXCEPT ![c] =
           [state |-> "open", sender |-> sender, receiver |-> receiver, booking |-> b,
            chat_type |-> type, initiated_by |-> by]]
    BY <1>1 DEF C!Create
  <1>4. /\ connection'[c] = [state |-> "open", sender |-> sender, receiver |-> receiver,
                             booking |-> b, chat_type |-> type, initiated_by |-> by]
        /\ \A d \in Connections \ {c} : connection'[d] = connection[d]
    BY <1>0, <1>2, <1>3
  <1>5. c \in C!OpenOnes' /\ c \in Known' /\ c \in Standing'
    BY <1>2, <1>4 DEF C!OpenOnes, Known, Standing
  <1>. QED  BY <1>1, <1>2, <1>4, <1>5

\* A handler that moves knows what it goes on with.
LEMMA HandlerMoves ==
  ASSUME C!TypeOK, ChatInv, NEW t \in Threads, C!Handler(t)
  PROVE  HandlerHolds(thread[t])'
  <1>0. /\ thread \in [Threads -> ThreadType] /\ C!Next /\ HandlerHolds(thread[t])
        /\ thread[t] \in ThreadType
    BY ChatTypes DEF C!Next, ChatInv
  <1>1. ASSUME NEW q, C!Goto(t, q), HandlerHolds(q)' PROVE HandlerHolds(thread[t])'
    <2>1. thread'[t] = q
      BY <1>0, <1>1 DEF C!Goto
    <2>. QED  BY <1>1, <2>1 DEF HandlerHolds
  <1>2. ASSUME NEW q, C!Goto(t, q), q.pc \in {"idle", "unbook", "unlink", "save"}
        PROVE  HandlerHolds(thread[t])'
    BY <1>1, <1>2 DEF HandlerHolds
  <1>3. C!Rest.pc = "idle"
    BY DEF C!Rest
  <1>4. ASSUME NEW u \in C!Riders, C!OpenRoom(t, u) PROVE HandlerHolds(thread[t])'
    <2>1. CASE UNCHANGED thread
      <3>1. thread[t].pc = "idle"
        BY <1>4 DEF C!OpenRoom, C!Begin
      <3>. QED  BY <2>1, <3>1 DEF HandlerHolds
    <2>2. CASE C!Goto(t, [C!Rest EXCEPT !.pc = "room", !.user = u])
      <3>1. PICK q : q = [C!Rest EXCEPT !.pc = "room", !.user = u]
        OBVIOUS
      <3>2. q.pc = "room" /\ q.user = u
        BY <3>1 DEF C!Rest
      <3>. QED  BY <1>1, <2>2, <3>1, <3>2 DEF HandlerHolds
    <2>. QED  BY <1>4, <2>1, <2>2 DEF C!OpenRoom
  <1>5. ASSUME NEW u \in C!Riders, NEW b \in BOOLEAN, C!ChatSupport(t, u, b)
        PROVE  HandlerHolds(thread[t])'
    <2>1. C!Unused # {} /\ C!Create(C!First(C!Unused), u, None, b, "support", u)
      BY <1>5 DEF C!ChatSupport
    <2>2. PICK c \in C!Unused : /\ c = C!First(C!Unused) /\ c \in Standing' \cap Known'
                                /\ connection'[c].booking = b /\ connection'[c].initiated_by = u
      BY <2>1, CreatedIs
    <2>3. PICK q : q = [C!Rest EXCEPT !.pc = "inject", !.user = u, !.found = c, !.booking = b]
      OBVIOUS
    <2>4. q.pc = "inject" /\ q.user = u /\ q.found = c /\ q.booking = b
      BY <2>3 DEF C!Rest
    <2>5. C!Goto(t, q)
      BY <1>5, <2>2, <2>3 DEF C!ChatSupport
    <2>6. HandlerHolds(q)'
      BY <2>2, <2>4 DEF HandlerHolds
    <2>. QED  BY <1>1, <2>5, <2>6
  <1>6. ASSUME NEW s \in Staff, NEW u \in C!Riders, NEW b \in BOOLEAN, C!StaffFind(t, s, u, b)
        PROVE  HandlerHolds(thread[t])'
    <2>1. PICK c : c = C!First({x \in C!OpenOnes : /\ connection[x].sender = u
                                                   /\ connection[x].receiver = None})
      OBVIOUS
    <2>2. PICK q : q = [[C!Rest EXCEPT !.who = s, !.user = u, !.found = c, !.booking = b]
                          EXCEPT !.pc = IF c = None THEN "pair" ELSE "take"]
      OBVIOUS
    <2>3. q.pc \in {"pair", "take"} /\ q.who = s /\ q.user = u
      BY <2>2 DEF C!Rest
    <2>4. C!Goto(t, q)
      BY <1>6, <2>1, <2>2 DEF C!StaffFind
    <2>5. HandlerHolds(q)'
      BY <2>3 DEF HandlerHolds
    <2>. QED  BY <1>1, <2>4, <2>5
  <1>7. ASSUME C!StaffPair(t) PROVE HandlerHolds(thread[t])'
    <2>1. PICK c : c = C!First({x \in C!OpenOnes :
                                /\ {thread[t].who, thread[t].user} \subseteq C!Parties(x)
                                /\ thread[t].booking => connection[x].booking})
      OBVIOUS
    <2>2. c = None \/ c \in C!OpenOnes
      BY <2>1, FirstIs DEF C!OpenOnes
    <2>3. PICK q : q = [thread[t] EXCEPT !.pc = IF c = None THEN "create" ELSE "link", !.found = c]
      OBVIOUS
    <2>4. /\ q.pc = IF c = None THEN "create" ELSE "link"
          /\ q.found = c /\ q.user = thread[t].user /\ q.who = thread[t].who
      BY <1>0, <2>3 DEF ThreadType
    <2>5. C!Goto(t, q) /\ UNCHANGED <<connection, orphaned>> /\ thread[t].pc = "pair"
      BY <1>7, <2>1, <2>3 DEF C!StaffPair, C!At
    <2>6. thread[t].user \in C!Riders /\ thread[t].who \in Staff
      BY <1>0, <2>5 DEF HandlerHolds
    <2>7. c # None => c \in Standing' \cap Known'
      BY <2>2, <2>5 DEF Standing, Known, C!OpenOnes
    <2>8. HandlerHolds(q)'
      BY <2>4, <2>6, <2>7 DEF HandlerHolds
    <2>. QED  BY <1>1, <2>5, <2>8
  <1>8. ASSUME C!StaffCreate(t) PROVE HandlerHolds(thread[t])'
    <2>1. /\ C!Unused # {}
          /\ C!Create(C!First(C!Unused), thread[t].who, thread[t].user, thread[t].booking,
                      "booking", thread[t].user)
      BY <1>8 DEF C!StaffCreate
    <2>2. PICK c \in C!Unused : c = C!First(C!Unused) /\ c \in Standing' \cap Known'
      BY <2>1, CreatedIs
    <2>3. PICK q : q = [thread[t] EXCEPT !.pc = "link", !.found = c]
      OBVIOUS
    <2>4. q.pc = "link" /\ q.found = c /\ q.user = thread[t].user
      BY <1>0, <2>3 DEF ThreadType
    <2>5. C!Goto(t, q)
      BY <1>8, <2>2, <2>3 DEF C!StaffCreate
    <2>6. thread[t].user \in C!Riders
      BY <1>0, <1>8 DEF HandlerHolds, C!StaffCreate, C!At
    <2>7. HandlerHolds(q)'
      BY <2>2, <2>4, <2>6 DEF HandlerHolds
    <2>. QED  BY <1>1, <2>5, <2>7
  <1>9. ASSUME NEW s \in Staff, NEW c \in Connections, C!CloseChat(t, s, c)
        PROVE  HandlerHolds(thread[t])'
    <2>1. PICK q : q = [C!Rest EXCEPT !.pc = "unbook", !.who = s, !.user = C!SendTo(connection[c]),
                    !.seen = connection[c],
                    !.clears = (C!SendTo(connection[c]) # None
                                  /\ support[C!SendTo(connection[c])] # None)]
      OBVIOUS
    <2>2. C!Goto(t, q)
      BY <1>9, <2>1 DEF C!CloseChat
    <2>3. q.pc = "unbook"
      BY <2>1 DEF C!Rest
    <2>. QED  BY <1>2, <2>2, <2>3
  <1>10. ASSUME C!CloseUnbook(t) \/ C!CloseUnlink(t) PROVE HandlerHolds(thread[t])'
    <2>1. \A pc : [thread[t] EXCEPT !.pc = pc].pc = pc
      BY <1>0 DEF ThreadType
    <2>. QED  BY <1>2, <1>10, <2>1 DEF C!CloseUnbook, C!CloseUnlink
  <1>11. ASSUME C!CreateRoom(t) \/ C!InjectWithRef(t) \/ C!StaffTake(t) \/ C!StaffLink(t)
                \/ C!CloseSave(t)
         PROVE  HandlerHolds(thread[t])'
    BY <1>2, <1>3, <1>11
       DEF C!CreateRoom, C!InjectWithRef, C!StaffTake, C!StaffLink, C!CloseSave, C!End
  <1>. QED
    BY <1>4, <1>5, <1>6, <1>7, <1>8, <1>9, <1>10, <1>11 DEF C!Handler

LEMMA HandlersStep ==
  ASSUME C!TypeOK, ChatInv, [C!Next]_(C!vars), NEW s \in Threads
  PROVE  HandlerHolds(thread[s])'
  <1>1. ASSUME thread'[s] = thread[s],
               \A t \in Threads, x \in Staff : \A c : C!CloseChat(t, x, c) => t # s
        PROVE  HandlerHolds(thread[s])'
    <2>1. PICK q : q = thread[s]
      OBVIOUS
    <2>2. HandlerHolds(q) /\ (q.pc \in {"inject", "link"} => q.found \in Standing \cap Known)
      BY <2>1 DEF ChatInv, HandlerHolds
    <2>3. q.pc \in {"inject", "link"} => q.found \in Standing'
      BY <1>1, <2>1, <2>2, StandingStep
    <2>4. q.pc \in {"inject", "link"} =>
             /\ q.found \in Known'
             /\ connection'[q.found].booking = connection[q.found].booking
             /\ connection'[q.found].initiated_by = connection[q.found].initiated_by
      BY <2>2, KnownStep
    <2>5. HandlerHolds(q)'
      BY <2>2, <2>3, <2>4 DEF HandlerHolds
    <2>. QED  BY <1>1, <2>1, <2>5 DEF HandlerHolds
  <1>2. ASSUME NEW t \in Threads, NEW x \in Staff, NEW c, C!CloseChat(t, x, c), thread'[t] = thread[t]
        PROVE  FALSE
    <2>0. thread \in [Threads -> ThreadType]
      BY ChatTypes
    <2>1. PICK q : q = [C!Rest EXCEPT !.pc = "unbook", !.who = x, !.user = C!SendTo(connection[c]),
                    !.seen = connection[c],
                    !.clears = (C!SendTo(connection[c]) # None
                                  /\ support[C!SendTo(connection[c])] # None)]
      OBVIOUS
    <2>2. C!Goto(t, q) /\ thread[t].pc = "idle"
      BY <1>2, <2>1 DEF C!CloseChat, C!Begin
    <2>3. q.pc = "unbook"
      BY <2>1 DEF C!Rest
    <2>. QED  BY <1>2, <2>0, <2>2, <2>3 DEF C!Goto
  <1>3. CASE \E t \in Threads : C!Handler(t)
    BY <1>1, <1>2, <1>3, HandlerMoves, OthersStay
  <1>4. CASE \E x \in Staff \cup C!Riders, c \in Connections : C!SendSupport(x, c)
    BY <1>1, <1>2, <1>4 DEF C!SendSupport
  <1>5. CASE UNCHANGED C!vars
    BY <1>1, <1>2, <1>5 DEF C!vars
  <1>. QED  BY <1>3, <1>4, <1>5 DEF C!Next

\* A connection that is new, and who made it.
LEMMA CreatesStep ==
  ASSUME C!TypeOK, ChatInv, [C!Next]_(C!vars), NEW c \in Known', c \notin Known
  PROVE  \/ \E t \in Threads : /\ C!CreateRoom(t) /\ thread[t].user \in C!Riders
                               /\ connection'[c].sender = thread[t].user
                               /\ connection'[c].initiated_by = thread[t].user
         \/ \E u \in C!Riders : /\ connection'[c].sender = u /\ connection'[c].initiated_by = u
                                /\ connection'[c].receiver = None
         \/ /\ connection'[c].sender \in Staff
            /\ connection'[c].receiver \in C!Riders
  <1>. DEFINE Goal ==
         \/ \E t \in Threads : /\ C!CreateRoom(t) /\ thread[t].user \in C!Riders
                               /\ connection'[c].sender = thread[t].user
                               /\ connection'[c].initiated_by = thread[t].user
         \/ \E u \in C!Riders : /\ connection'[c].sender = u /\ connection'[c].initiated_by = u
                                /\ connection'[c].receiver = None
         \/ /\ connection'[c].sender \in Staff
            /\ connection'[c].receiver \in C!Riders
  <1>0. connection \in [Connections -> C!Documents] /\ c \in Connections /\ connection[c].state = "none"
    BY ChatTypes DEF Known
  <1>1. ASSUME connection'[c].state = connection[c].state PROVE Goal
    BY <1>0, <1>1 DEF Known
  <1>2. ASSUME NEW sender, NEW receiver, NEW b, NEW type, NEW by,
               C!Unused # {}, C!Create(C!First(C!Unused), sender, receiver, b, type, by)
        PROVE  /\ connection'[c].sender = sender /\ connection'[c].receiver = receiver
               /\ connection'[c].initiated_by = by
    <2>1. PICK d \in C!Unused :
             /\ connection'[d].sender = sender /\ connection'[d].receiver = receiver
             /\ connection'[d].booking = b /\ connection'[d].initiated_by = by
             /\ \A x \in Connections \ {d} : connection'[x] = connection[x]
      BY <1>2, CreatedIs
    <2>2. c = d
      BY <1>0, <2>1 DEF Known
    <2>. QED  BY <2>1, <2>2
  <1>3. ASSUME NEW t \in Threads, C!CreateRoom(t) PROVE Goal
    <2>1. thread[t].user \in C!Riders
      BY <1>3 DEF ChatInv, HandlerHolds, C!CreateRoom, C!At
    <2>2. connection'[c].sender = thread[t].user /\ connection'[c].initiated_by = thread[t].user
      BY <1>2, <1>3 DEF C!CreateRoom
    <2>. QED  BY <1>3, <2>1, <2>2
  <1>4. ASSUME NEW t \in Threads, NEW u \in C!Riders, NEW b \in BOOLEAN, C!ChatSupport(t, u, b)
        PROVE  Goal
    <2>1. /\ connection'[c].sender = u /\ connection'[c].initiated_by = u
          /\ connection'[c].receiver = None
      BY <1>2, <1>4 DEF C!ChatSupport
    <2>. QED  BY <2>1
  <1>5. ASSUME NEW t \in Threads, C!StaffCreate(t) PROVE Goal
    <2>1. thread[t].user \in C!Riders /\ thread[t].who \in Staff
      BY <1>5 DEF ChatInv, HandlerHolds, C!StaffCreate, C!At
    <2>2. connection'[c].sender = thread[t].who /\ connection'[c].receiver = thread[t].user
      BY <1>2, <1>5 DEF C!StaffCreate
    <2>. QED  BY <2>1, <2>2
  <1>6. ASSUME NEW d, NEW x, \/ connection' = [connection EXCEPT ![d].receiver = x]
                             \/ /\ d \in C!OpenOnes
                                /\ connection' = [connection EXCEPT ![d].state = "closed"]
        PROVE  Goal
    <2>1. connection'[c].state = connection[c].state
      BY <1>0, <1>6 DEF C!Documents, C!OpenOnes
    <2>. QED  BY <1>1, <2>1
  <1>7. ASSUME UNCHANGED connection PROVE Goal
    BY <1>1, <1>7
  <1>. HIDE DEF Goal
  <1>8. ASSUME NEW t \in Threads, C!Handler(t) PROVE Goal
    <2>1. CASE \/ \E u \in C!Riders : C!OpenRoom(t, u)
               \/ C!InjectWithRef(t) \/ C!StaffPair(t) \/ C!StaffLink(t)
               \/ \E s \in Staff, u \in C!Riders, b \in BOOLEAN : C!StaffFind(t, s, u, b)
               \/ C!CloseUnbook(t) \/ C!CloseUnlink(t) \/ C!CloseSave(t)
      BY <1>7, <2>1 DEF C!OpenRoom, C!InjectWithRef, C!StaffPair, C!StaffLink, C!StaffFind,
                C!CloseUnbook, C!CloseUnlink, C!CloseSave
    <2>2. CASE C!StaffTake(t) \/ \E s \in Staff, d \in Connections : C!CloseChat(t, s, d)
      BY <1>6, <2>2 DEF C!StaffTake, C!CloseChat
    <2>. QED  BY <1>3, <1>4, <1>5, <1>8, <2>1, <2>2 DEF C!Handler
  <1>9. ASSUME NEW x, NEW d, C!SendSupport(x, d) PROVE Goal
    BY <1>6, <1>9 DEF C!SendSupport
  <1>10. Goal
    BY <1>7, <1>8, <1>9 DEF C!Next, C!vars
  <1>. QED  BY <1>10 DEF Goal

LEMMA SenderStep == C!TypeOK /\ ChatInv /\ [C!Next]_(C!vars) => SenderInitiates'
  <1>. SUFFICES ASSUME C!TypeOK, ChatInv, [C!Next]_(C!vars), NEW c \in Known',
                       connection'[c].sender \in C!Riders
                PROVE  connection'[c].initiated_by = connection'[c].sender
    BY DEF SenderInitiates
  <1>1. CASE c \in Known
    BY <1>1, KnownStep DEF ChatInv, SenderInitiates
  <1>2. CASE c \notin Known
    <2>1. connection'[c].sender \notin Staff
      BY ChatAssumption DEF C!Riders
    <2>. QED  BY <1>2, <2>1, CreatesStep
  <1>. QED  BY <1>1, <1>2

\* What makes a user refer to a connection, or forget it.
LEMMA SupportMoves ==
  ASSUME C!TypeOK, ChatInv, [C!Next]_(C!vars), NEW u \in C!Riders
  PROVE  support'[u] \in {support[u], None} \/ support'[u] \in Standing' \cap Known'
  <1>0. support \in [C!Riders -> C!Links]
    BY ChatTypes
  <1>1. ASSUME NEW t \in Threads, C!InjectWithRef(t) \/ C!StaffLink(t)
        PROVE  support'[u] \in {support[u], None} \/ support'[u] \in Standing' \cap Known'
    <2>1. thread[t].found \in Standing \cap Known /\ UNCHANGED <<connection, orphaned>>
      BY <1>1 DEF C!InjectWithRef, C!StaffLink, C!At, ChatInv, HandlerHolds
    <2>2. support'[u] = support[u] \/ support'[u] = thread[t].found
      BY <1>0, <1>1 DEF C!InjectWithRef, C!StaffLink
    <2>. QED  BY <2>1, <2>2 DEF Standing, Known, C!OpenOnes
  <1>2. ASSUME NEW t \in Threads, C!CloseUnlink(t) \/ C!CloseSave(t)
        PROVE  support'[u] \in {support[u], None}
    BY <1>0, <1>2 DEF C!CloseUnlink, C!CloseSave
  <1>3. CASE UNCHANGED support
    BY <1>3
  <1>. QED
    BY <1>1, <1>2, <1>3
       DEF C!Next, C!Handler, C!vars, C!OpenRoom, C!CreateRoom, C!ChatSupport, C!StaffFind,
           C!StaffTake, C!StaffPair, C!StaffCreate, C!SendSupport, C!CloseChat,
           C!CloseUnbook

\* close_chat does what it has still to do.
LEMMA ClearsStep ==
  ASSUME C!TypeOK, ChatInv, [C!Next]_(C!vars), NEW u \in C!Riders, NEW t \in Threads, Clears(t, u)
  PROVE  Clears(t, u)' \/ support'[u] = None
  <1>0. /\ thread \in [Threads -> ThreadType] /\ support \in [C!Riders -> C!Links]
        /\ thread[t] \in ThreadType /\ thread[t].pc \in C!Closing
    BY ChatTypes DEF Clears, C!Closing
  <1>1. CASE thread'[t] = thread[t]
    BY <1>1 DEF Clears
  <1>2. ASSUME NEW pc \in {"unlink", "save"}, C!Goto(t, [thread[t] EXCEPT !.pc = pc])
        PROVE  /\ thread'[t].pc = pc /\ thread'[t].seen = thread[t].seen
               /\ thread'[t].who = thread[t].who /\ thread'[t].clears = thread[t].clears
               /\ thread'[t].user = thread[t].user
    BY <1>0, <1>2 DEF C!Goto, ThreadType
  <1>3. CASE C!CloseUnbook(t)
    BY <1>2, <1>3 DEF C!CloseUnbook, C!At, Clears, C!Closing
  <1>4. CASE C!CloseUnlink(t)
    <2>1. CASE u = IF thread[t].seen.receiver = thread[t].who THEN thread[t].seen.sender
                   ELSE thread[t].seen.receiver
      BY <1>0, <1>4, <2>1 DEF C!CloseUnlink
    <2>2. CASE thread[t].clears /\ thread[t].user = u
      BY <1>2, <1>4, <2>2 DEF C!CloseUnlink, Clears, C!Closing
    <2>. QED  BY <2>1, <2>2 DEF Clears
  <1>5. CASE C!CloseSave(t)
    <2>1. thread[t].clears /\ thread[t].user = u
      BY <1>5 DEF C!CloseSave, C!At, Clears
    <2>. QED  BY <1>0, <1>5, <2>1 DEF C!CloseSave
  <1>6. CASE C!Handler(t)
    <2>1. thread[t].pc \in {"unbook", "unlink", "save"}
      BY <1>0 DEF C!Closing
    <2>. QED
      BY <1>3, <1>4, <1>5, <1>6, <2>1
         DEF C!Handler, C!OpenRoom, C!CreateRoom, C!ChatSupport, C!InjectWithRef,
             C!StaffFind, C!StaffTake, C!StaffPair, C!StaffCreate, C!StaffLink, C!CloseChat,
             C!Begin, C!At
  <1>. QED
    BY <1>1, <1>6, OthersStay DEF C!Next, C!SendSupport, C!vars

\* What close_chat is about to do for the user it was closed on.
LEMMA ClosedOn ==
  ASSUME C!TypeOK, ChatInv, NEW t \in Threads, NEW s \in Staff, NEW c, C!CloseChat(t, s, c)
  PROVE  /\ \A u \in C!Riders : support[u] = c /\ c # None /\ u \in C!Parties(c) => Clears(t, u)'
         /\ \A u \in C!Riders : connection[c].booking /\ connection[c].initiated_by = u =>
               Unbooks(t, u)'
  <1>1. PICK q : q = [C!Rest EXCEPT !.pc = "unbook", !.who = s, !.user = C!SendTo(connection[c]),
                    !.seen = connection[c],
                    !.clears = (C!SendTo(connection[c]) # None
                                  /\ support[C!SendTo(connection[c])] # None)]
    OBVIOUS
  <1>2. C!Goto(t, q) /\ c \in C!OpenOnes
    BY <1>1 DEF C!CloseChat
  <1>3. /\ q.pc = "unbook" /\ q.who = s /\ q.user = C!SendTo(connection[c])
        /\ q.seen = connection[c]
        /\ q.clears = (C!SendTo(connection[c]) # None /\ support[C!SendTo(connection[c])] # None)
    BY <1>1 DEF C!Rest
  <1>4. thread'[t] = q
    BY <1>2, ChatTypes DEF C!Goto
  <1>5. ASSUME NEW u \in C!Riders, support[u] = c, c # None, u \in C!Parties(c)
        PROVE  Clears(t, u)'
    <2>1. u # s
      BY ChatAssumption DEF C!Riders
    <2>2. CASE connection[c].receiver = u \/ connection[c].receiver = s
      BY <1>3, <1>4, <1>5, <2>1, <2>2 DEF Clears, C!Parties
    <2>3. CASE connection[c].receiver \notin {u, s}
      <3>1. connection[c].sender = u
        BY <1>5, <2>3 DEF C!Parties
      <3>2. c \in Known
        BY <1>2 DEF Known, C!OpenOnes
      <3>3. connection[c].initiated_by = u
        BY <3>1, <3>2 DEF ChatInv, SenderInitiates
      <3>4. C!SendTo(connection[c]) = u
        BY <3>1, <3>3 DEF C!SendTo
      <3>5. u # None
        BY ChatAssumption DEF C!Riders
      <3>. QED  BY <1>3, <1>4, <1>5, <3>4, <3>5 DEF Clears, C!Closing
    <2>. QED  BY <2>2, <2>3
  <1>6. ASSUME NEW u \in C!Riders, connection[c].booking, connection[c].initiated_by = u
        PROVE  Unbooks(t, u)'
    BY <1>3, <1>4, <1>6 DEF Unbooks
  <1>. QED  BY <1>5, <1>6

LEMMA SupportStep ==
  ASSUME C!TypeOK, ChatInv, [C!Next]_(C!vars), NEW u \in C!Riders
  PROVE  SupportHolds(u)'
  <1>1. CASE support'[u] = None \/ support'[u] \in Standing' \cap Known'
    BY <1>1 DEF SupportHolds
  <1>2. ASSUME support'[u] = support[u], support[u] # None PROVE SupportHolds(u)'
    <2>1. PICK c : c = support[u]
      OBVIOUS
    <2>2. /\ c \in Known
          /\ c \in Standing \/ u \notin C!Parties(c) \/ \E t \in Threads : Clears(t, u)
      BY <1>2, <2>1 DEF ChatInv, SupportHolds
    <2>3. c \in Known' /\ (u \notin C!Parties(c) => u \notin C!Parties(c)')
      BY <2>2, KnownStep, PartiesStep
    <2>4. (\E t \in Threads : Clears(t, u)) => support'[u] = None \/ \E t \in Threads : Clears(t, u)'
      BY ClearsStep
    <2>5. c \in Standing /\ u \in C!Parties(c) => c \in Standing' \/ \E t \in Threads : Clears(t, u)'
      BY <1>2, <2>1, <2>2, StandingStep, ClosedOn
    <2>6. c \in Standing' \/ u \notin C!Parties(c)' \/ \E t \in Threads : Clears(t, u)'
      BY <1>2, <2>2, <2>3, <2>4, <2>5
    <2>. QED  BY <1>2, <2>1, <2>3, <2>6 DEF SupportHolds
  <1>. QED  BY <1>1, <1>2, SupportMoves

\* What makes the booking refer to a connection, or forget it.
LEMMA AttachedMoves ==
  ASSUME C!TypeOK, ChatInv, [C!Next]_(C!vars), NEW u \in C!Riders
  PROVE  \/ attached'[u] \in {attached[u], None}
         \/ /\ attached'[u] \in Standing' \cap Known'
            /\ connection'[attached'[u]].booking /\ connection'[attached'[u]].initiated_by = u
  <1>0. attached \in [C!Riders -> C!Links]
    BY ChatTypes
  <1>1. ASSUME NEW t \in Threads, C!InjectWithRef(t)
        PROVE  \/ attached'[u] \in {attached[u], None}
               \/ /\ attached'[u] \in Standing' \cap Known'
                  /\ connection'[attached'[u]].booking
                  /\ connection'[attached'[u]].initiated_by = u
    <2>1. /\ thread[t].found \in Standing \cap Known /\ UNCHANGED <<connection, orphaned>>
          /\ thread[t].booking => /\ connection[thread[t].found].booking
                                  /\ connection[thread[t].found].initiated_by = thread[t].user
      BY <1>1 DEF C!InjectWithRef, C!At, ChatInv, HandlerHolds
    <2>2. \/ attached'[u] = attached[u]
          \/ thread[t].booking /\ u = thread[t].user /\ attached'[u] = thread[t].found
      BY <1>0, <1>1 DEF C!InjectWithRef
    <2>3. Standing' = Standing /\ Known' = Known
      BY <2>1 DEF Standing, Known, C!OpenOnes
    <2>. QED  BY <2>1, <2>2, <2>3
  <1>2. ASSUME NEW t \in Threads, C!CloseUnbook(t) PROVE attached'[u] \in {attached[u], None}
    BY <1>0, <1>2 DEF C!CloseUnbook
  <1>3. CASE UNCHANGED attached
    BY <1>3
  <1>. QED
    BY <1>1, <1>2, <1>3
       DEF C!Next, C!Handler, C!vars, C!OpenRoom, C!CreateRoom, C!ChatSupport, C!StaffFind,
           C!StaffTake, C!StaffPair, C!StaffCreate, C!StaffLink, C!SendSupport, C!CloseChat,
           C!CloseUnlink, C!CloseSave

LEMMA UnbooksStep ==
  ASSUME C!TypeOK, ChatInv, [C!Next]_(C!vars), NEW u \in C!Riders, NEW t \in Threads, Unbooks(t, u)
  PROVE  Unbooks(t, u)' \/ attached'[u] = None
  <1>0. attached \in [C!Riders -> C!Links] /\ thread[t].pc = "unbook"
    BY ChatTypes DEF Unbooks
  <1>1. CASE thread'[t] = thread[t]
    BY <1>1 DEF Unbooks
  <1>2. CASE C!CloseUnbook(t)
    BY <1>0, <1>2 DEF C!CloseUnbook, Unbooks
  <1>3. CASE C!Handler(t)
    BY <1>0, <1>2, <1>3
       DEF C!Handler, C!OpenRoom, C!CreateRoom, C!ChatSupport, C!InjectWithRef, C!StaffFind,
           C!StaffTake, C!StaffPair, C!StaffCreate, C!StaffLink, C!CloseChat, C!CloseUnlink,
           C!CloseSave, C!Begin, C!At
  <1>. QED
    BY <1>1, <1>3, OthersStay DEF C!Next, C!SendSupport, C!vars

LEMMA AttachedStep ==
  ASSUME C!TypeOK, ChatInv, [C!Next]_(C!vars), NEW u \in C!Riders
  PROVE  AttachedHolds(u)'
  <1>1. CASE \/ attached'[u] = None
             \/ /\ attached'[u] \in Standing' \cap Known'
                /\ connection'[attached'[u]].booking /\ connection'[attached'[u]].initiated_by = u
    BY <1>1 DEF AttachedHolds
  <1>2. ASSUME attached'[u] = attached[u], attached[u] # None PROVE AttachedHolds(u)'
    <2>1. PICK c : c = attached[u]
      OBVIOUS
    <2>2. /\ c \in Known /\ connection[c].booking /\ connection[c].initiated_by = u
          /\ c \in Standing \/ \E t \in Threads : Unbooks(t, u)
      BY <1>2, <2>1 DEF ChatInv, AttachedHolds
    <2>3. c \in Known' /\ connection'[c].booking /\ connection'[c].initiated_by = u
      BY <2>2, KnownStep
    <2>4. (\E t \in Threads : Unbooks(t, u)) => attached'[u] = None \/ \E t \in Threads : Unbooks(t, u)'
      BY UnbooksStep
    <2>5. c \in Standing => c \in Standing' \/ \E t \in Threads : Unbooks(t, u)'
      BY <2>2, StandingStep, ClosedOn
    <2>. QED  BY <1>2, <2>1, <2>2, <2>3, <2>4, <2>5 DEF AttachedHolds
  <1>. QED  BY <1>1, <1>2, AttachedMoves

\* A room is there already, or is the one that is created.
LEMMA RoomsStep ==
  ASSUME C!TypeOK, ChatInv, [C!Next]_(C!vars), NEW c \in C!Rooms', c \notin C!Rooms
  PROVE  /\ c \notin Known
         /\ \E t \in Threads : C!CreateRoom(t)
  <1>1. /\ c \in Connections /\ connection'[c].state = "open" /\ connection'[c].booking
        /\ C!Riders \subseteq C!Parties(c)' /\ c \in Known'
    BY DEF C!Rooms, C!OpenOnes, Known
  <1>2. ASSUME c \in Known PROVE FALSE
    <2>1. connection[c].state = "open" /\ connection[c].booking
      BY <1>1, <1>2, KnownStep, PartiesStep
    <2>2. C!Riders \subseteq C!Parties(c)
      BY <1>1, <1>2, PartiesStep
    <2>. QED  BY <1>1, <2>1, <2>2 DEF C!Rooms, C!OpenOnes
  <1>3. {Driver, Customer} \subseteq {connection'[c].sender, connection'[c].receiver}
    BY <1>1 DEF C!Riders, C!Parties
  <1>4. connection'[c].receiver # None /\ connection'[c].sender \notin Staff
    BY <1>3, ChatAssumption DEF C!Riders
  <1>. QED  BY <1>1, <1>2, <1>4, CreatesStep

\* A handler that is about to create a room was so before, or has found none.
LEMMA RoomThreadsStep ==
  ASSUME C!TypeOK, [C!Next]_(C!vars), NEW t \in Threads, thread'[t].pc = "room"
  PROVE  \/ thread[t].pc = "room" /\ thread'[t] = thread[t]
         \/ \E u \in C!Riders : C!OpenRoom(t, u) /\ C!Rooms = {}
  <1>. DEFINE Goal == \/ thread[t].pc = "room" /\ thread'[t] = thread[t]
                      \/ \E u \in C!Riders : C!OpenRoom(t, u) /\ C!Rooms = {}
  <1>0. thread \in [Threads -> ThreadType]
    BY ChatTypes
  <1>1. ASSUME thread'[t] = thread[t] PROVE Goal
    BY <1>1
  <1>2. ASSUME NEW q, C!Goto(t, q), q.pc # "room" PROVE FALSE
    BY <1>0, <1>2 DEF C!Goto
  <1>3. ASSUME NEW u \in C!Riders, C!OpenRoom(t, u) PROVE Goal
    BY <1>1, <1>3 DEF C!OpenRoom
  <1>4. ASSUME NEW u \in C!Riders, NEW b \in BOOLEAN, C!ChatSupport(t, u, b) PROVE FALSE
    <2>1. PICK q : q = [C!Rest EXCEPT !.pc = "inject", !.user = u, !.found = C!First(C!Unused),
                                      !.booking = b]
      OBVIOUS
    <2>2. q.pc = "inject"
      BY <2>1 DEF C!Rest
    <2>. QED  BY <1>2, <1>4, <2>1, <2>2 DEF C!ChatSupport
  <1>5. ASSUME NEW s \in Staff, NEW u \in C!Riders, NEW b \in BOOLEAN, C!StaffFind(t, s, u, b)
        PROVE  FALSE
    <2>1. PICK c : c = C!First({x \in C!OpenOnes : /\ connection[x].sender = u
                                                   /\ connection[x].receiver = None})
      OBVIOUS
    <2>2. PICK q : q = [[C!Rest EXCEPT !.who = s, !.user = u, !.found = c, !.booking = b]
                          EXCEPT !.pc = IF c = None THEN "pair" ELSE "take"]
      OBVIOUS
    <2>3. q.pc \in {"pair", "take"}
      BY <2>2 DEF C!Rest
    <2>4. C!Goto(t, q)
      BY <1>5, <2>1, <2>2 DEF C!StaffFind
    <2>. QED  BY <1>2, <2>3, <2>4
  <1>6. ASSUME C!StaffPair(t) PROVE FALSE
    <2>1. PICK c : c = C!First({x \in C!OpenOnes :
                                /\ {thread[t].who, thread[t].user} \subseteq C!Parties(x)
                                /\ thread[t].booking => connection[x].booking})
      OBVIOUS
    <2>2. PICK q : q = [thread[t] EXCEPT !.pc = IF c = None THEN "create" ELSE "link", !.found = c]
      OBVIOUS
    <2>3. q.pc \in {"create", "link"}
      BY <1>0, <2>2 DEF ThreadType
    <2>4. C!Goto(t, q)
      BY <1>6, <2>1, <2>2 DEF C!StaffPair
    <2>. QED  BY <1>2, <2>3, <2>4
  <1>7. ASSUME C!StaffCreate(t) PROVE FALSE
    <2>1. PICK q : q = [thread[t] EXCEPT !.pc = "link", !.found = C!First(C!Unused)]
      OBVIOUS
    <2>2. q.pc = "link"
      BY <1>0, <2>1 DEF ThreadType
    <2>. QED  BY <1>2, <1>7, <2>1, <2>2 DEF C!StaffCreate
  <1>8. ASSUME NEW s \in Staff, NEW c \in Connections, C!CloseChat(t, s, c) PROVE FALSE
    <2>1. PICK q : q = [C!Rest EXCEPT !.pc = "unbook", !.who = s, !.user = C!SendTo(connection[c]),
                    !.seen = connection[c],
                    !.clears = (C!SendTo(connection[c]) # None
                                  /\ support[C!SendTo(connection[c])] # None)]
      OBVIOUS
    <2>2. q.pc = "unbook"
      BY <2>1 DEF C!Rest
    <2>. QED  BY <1>2, <1>8, <2>1, <2>2 DEF C!CloseChat
  <1>9. ASSUME C!CloseUnbook(t) \/ C!CloseUnlink(t) PROVE FALSE
    <2>1. \A pc : [thread[t] EXCEPT !.pc = pc].pc = pc
      BY <1>0 DEF ThreadType
    <2>. QED  BY <1>2, <1>9, <2>1 DEF C!CloseUnbook, C!CloseUnlink
  <1>10. ASSUME C!CreateRoom(t) \/ C!InjectWithRef(t) \/ C!StaffTake(t) \/ C!StaffLink(t)
                  \/ C!CloseSave(t)
         PROVE FALSE
    <2>1. C!Rest.pc # "room"
      BY DEF C!Rest
    <2>. QED  BY <1>2, <1>10, <2>1 DEF C!CreateRoom, C!InjectWithRef, C!StaffTake, C!StaffLink,
                                      C!CloseSave, C!End
  <1>. HIDE DEF Goal
  <1>11. ASSUME C!Handler(t) PROVE Goal
    BY <1>3, <1>4, <1>5, <1>6, <1>7, <1>8, <1>9, <1>10, <1>11 DEF C!Handler
  <1>12. Goal
    BY <1>1, <1>11, OthersStay DEF C!Next, C!SendSupport, C!vars
  <1>. QED  BY <1>12 DEF Goal

LEMMA TwiceStep == ASSUME [C!Next]_(C!vars), twice PROVE twice'
  BY DEF C!Next, C!Handler, C!vars, C!OpenRoom, C!CreateRoom, C!ChatSupport,
         C!InjectWithRef, C!StaffFind, C!StaffTake, C!StaffPair, C!StaffCreate,
         C!StaffLink, C!SendSupport, C!CloseChat, C!CloseUnbook, C!CloseUnlink,
         C!CloseSave

LEMMA RoomStep == C!TypeOK /\ ChatInv /\ [C!Next]_(C!vars) => RoomHolds'
  <1>. SUFFICES ASSUME C!TypeOK, ChatInv, [C!Next]_(C!vars), ~twice' PROVE
         /\ \A c, d \in C!Rooms' : c = d
         /\ \A s, t \in Threads : thread'[s].pc = "room" /\ thread'[t].pc = "room" => s = t
         /\ (\E t \in Threads : thread'[t].pc = "room") => C!Rooms' = {}
    BY DEF RoomHolds
  <1>1. /\ ~twice
        /\ \A c, d \in C!Rooms : c = d
        /\ \A s, t \in Threads : thread[s].pc = "room" /\ thread[t].pc = "room" => s = t
        /\ (\E t \in Threads : thread[t].pc = "room") => C!Rooms = {}
    BY TwiceStep DEF ChatInv, RoomHolds
  <1>2. ASSUME NEW t \in Threads, C!CreateRoom(t)
        PROVE  /\ \A c, d \in C!Rooms' : c = d
               /\ \A s \in Threads : thread'[s].pc # "room"
    <2>1. thread[t].pc = "room" /\ C!Rooms = {} /\ \A s \in Threads \ {t} : thread[s].pc # "room"
      BY <1>1, <1>2 DEF C!CreateRoom, C!At
    <2>2. thread'[t].pc = "idle"
      BY <1>2, ChatTypes DEF C!CreateRoom, C!End, C!Goto, C!Rest
    <2>3. \A s \in Threads \ {t} : thread'[s] = thread[s]
      BY <1>2, OthersStay DEF C!Handler
    <2>4. PICK e \in C!Unused : \A d \in Connections \ {e} : connection'[d] = connection[d]
      <3>1. PICK u, v, b : u = thread[t].user /\ v = C!Peer(thread[t].user) /\ b = TRUE
        OBVIOUS
      <3>2. C!Unused # {} /\ C!Create(C!First(C!Unused), u, v, b, "booking", u)
        BY <1>2, <3>1 DEF C!CreateRoom
      <3>3. PICK e \in C!Unused :
               /\ connection'[e].sender = u /\ connection'[e].receiver = v
               /\ connection'[e].booking = b /\ connection'[e].initiated_by = u
               /\ \A x \in Connections \ {e} : connection'[x] = connection[x]
        BY <3>2, CreatedIs
      <3>. QED  BY <3>3
    <2>5. \A c \in C!Rooms' : c = e
      BY <2>1, <2>4 DEF C!Rooms, C!OpenOnes, C!Parties
    <2>. QED  BY <2>1, <2>2, <2>3, <2>5
  <1>3. ASSUME NEW t \in Threads, NEW u \in C!Riders, C!OpenRoom(t, u), C!Rooms = {}
        PROVE  /\ C!Rooms' = {}
               /\ \A s \in Threads : thread'[s].pc = "room" => s = t
    <2>1. UNCHANGED connection /\ \A s \in Threads : thread[s].pc # "room"
      BY <1>3 DEF C!OpenRoom, C!At
    <2>2. \A s \in Threads \ {t} : thread'[s] = thread[s]
      BY <1>3, OthersStay DEF C!Handler
    <2>. QED  BY <1>3, <2>1, <2>2 DEF C!Rooms, C!OpenOnes, C!Parties
  <1>4. ASSUME \A t \in Threads : ~C!CreateRoom(t) PROVE C!Rooms' \subseteq C!Rooms
    BY <1>4, RoomsStep
  <1>5. CASE \E t \in Threads : C!CreateRoom(t)
    BY <1>2, <1>5
  <1>6. CASE \E t \in Threads, u \in C!Riders : C!OpenRoom(t, u) /\ C!Rooms = {}
    BY <1>3, <1>6
  <1>7. ASSUME \A t \in Threads : ~C!CreateRoom(t),
               \A t \in Threads, u \in C!Riders : ~(C!OpenRoom(t, u) /\ C!Rooms = {})
        PROVE  /\ \A c, d \in C!Rooms' : c = d
               /\ \A s, t \in Threads : thread'[s].pc = "room" /\ thread'[t].pc = "room" => s = t
               /\ (\E t \in Threads : thread'[t].pc = "room") => C!Rooms' = {}
    <2>1. \A t \in Threads : thread'[t].pc = "room" => thread[t].pc = "room"
      BY <1>7, RoomThreadsStep
    <2>. QED  BY <1>1, <1>4, <1>7, <2>1
  <1>. QED  BY <1>5, <1>6, <1>7

LEMMA ChatStep == C!TypeOK /\ ChatInv /\ [C!Next]_(C!vars) => ChatInv'
  <1>. SUFFICES ASSUME C!TypeOK, ChatInv, [C!Next]_(C!vars) PROVE ChatInv'
    OBVIOUS
  <1>1. (\A t \in Threads : HandlerHolds(thread[t]))' /\ SenderInitiates' /\ RoomHolds'
    BY HandlersStep, SenderStep, RoomStep
  <1>2. \A u \in C!Riders : SupportHolds(u)' /\ AttachedHolds(u)'
    BY SupportStep, AttachedStep
  <1>. QED  BY <1>1, <1>2 DEF ChatInv

\* Chat: a user, and a booking, refers to an open connection once close_chat has come to
\* its end, and customer and driver share one, whatever the handlers under way
\* (chat.service.ts).
THEOREM ChatsAreLinked == WorldSpec => []ChatsHold
  <1>1. C!TypeOK /\ ChatInv /\ [WorldNext]_WorldVars => (C!TypeOK /\ ChatInv)'
    BY ChatStepIs, ChatTypeStep, ChatStep
  <1>. QED  BY <1>1, ChatTypeInit, ChatInit, ChatDone, PTL DEF WorldSpec

-----------------------------------------------------------------------------
(* Messages: who is marked as having read, and who looks.                   *)

Peer(u) == IF u = Driver THEN Other ELSE Driver

TaskPCs == {"idle", "claim", "store", "emit", "mark", "show"}
ListPCs == {"emit", "mark", "show"}
TaskType ==
    [pc : TaskPCs, user : M!Members \cup {None}, receiver : M!Members \cup {None},
     to : Nat, list : SUBSET Messages]
MessageType ==
    [sender : M!Members \cup {None}, receiver : M!Members \cup {None}, read : BOOLEAN]

\* A task at work has a user; what it lists is stored, until it is done.
TaskOK(r) ==
    /\ r \in TaskType
    /\ r.pc # "idle" => r.user \in M!Members
    /\ r.pc \in ListPCs => r.list \subseteq M!Stored
    /\ r.pc \notin ListPCs => r.list = {}

TasksOK ==
    /\ task = [k \in Tasks |-> task[k]]
    /\ \A k \in Tasks : TaskOK(task[k])

MessagesType ==
    /\ M!TypeOK /\ TasksOK
    /\ \A u \in alive : socket[u] > 0

\* The messages that are being sent to u, or listed for him.
Coming(m, u) ==
    \E k \in Tasks :
        /\ m \in task[k].list
        /\ \/ task[k].pc = "emit" /\ Peer(task[k].user) = u
           \/ task[k].pc \in {"mark", "show"} /\ task[k].user = u

Had(m, u) == m \in seen_m[u] \/ m \in missed \/ Coming(m, u)

\* Whoever has the chat marked, lists it or looks at it has been connected, and has
\* had, or is about to have, all that is stored.
HadInv ==
    /\ \A m \in M!Stored \ closed : message[m].read =>
          /\ message[m].receiver \in M!Members /\ socket[message[m].receiver] > 0
          /\ Had(m, message[m].receiver)
    /\ \A u \in looking : \A m \in M!Stored : Had(m, u)
    /\ \A k \in Tasks : task[k].pc \in {"mark", "show"} =>
          /\ socket[task[k].user] > 0
          /\ \A m \in M!Stored : Had(m, task[k].user)

LEMMA MessagesInit == WorldInit => MessagesType /\ HadInv
  <1>. SUFFICES ASSUME M!Init PROVE MessagesType /\ HadInv
    BY DEF WorldInit
  <1>1. M!Stored = {}
    BY DEF M!Init, M!Stored, M!NoMessage
  <1>2. M!TypeOK
    BY MessagesAssumption DEF M!Init, M!TypeOK, M!NoMessage, M!Done
  <1>3. TasksOK
    BY DEF M!Init, TasksOK, TaskOK, TaskType, TaskPCs, ListPCs, M!Done
  <1>4. alive = {} /\ looking = {} /\ \A k \in Tasks : task[k].pc = "idle"
    BY DEF M!Init, M!Done
  <1>. QED  BY <1>1, <1>2, <1>3, <1>4 DEF MessagesType, HadInv

LEMMA MessagesStep == [WorldNext]_WorldVars => [M!Next]_(M!vars)
  BY DEF WorldNext, WorldVars, StillMessages, M!vars

\* What a task goes on with.
LEMMA TaskSet ==
  ASSUME TasksOK, M!Stored \subseteq M!Stored', NEW k \in Tasks, NEW r, task' = [task EXCEPT ![k] = r],
         r \in TaskType, r.pc # "idle" => r.user \in M!Members,
         r.pc \in ListPCs => r.list \subseteq M!Stored',
         r.pc \notin ListPCs => r.list = {}
  PROVE  TasksOK' /\ task'[k] = r /\ \A j \in Tasks \ {k} : task'[j] = task[j]
  <1>1. task' = [j \in Tasks |-> task'[j]]
    BY DEF TasksOK
  <1>2. \A j \in Tasks : task'[j] = IF j = k THEN r ELSE task[j]
    BY DEF TasksOK
  <1>3. \A j \in Tasks : TaskOK(task[j])'
    BY <1>2 DEF TasksOK, TaskOK
  <1>. QED  BY <1>1, <1>2, <1>3 DEF TasksOK, TaskOK

\* What is stored stays stored.
LEMMA StoredStays ==
  ASSUME MessagesType, [M!Next]_(M!vars)
  PROVE  M!Stored \subseteq M!Stored'
  <1>1. message \in [Messages -> MessageType]
    BY DEF MessagesType, M!TypeOK, MessageType
  <1>2. ASSUME NEW k \in Tasks, M!StoreMessage(k) PROVE M!Stored \subseteq M!Stored'
    BY <1>1, <1>2 DEF M!StoreMessage, M!Stored, MessageType, M!NoMessage
  <1>3. ASSUME NEW u, message' = [m \in Messages |->
                  IF m \in M!To(u) THEN [message[m] EXCEPT !.read = TRUE] ELSE message[m]]
        PROVE  M!Stored \subseteq M!Stored'
    BY <1>1, <1>3 DEF M!Stored, MessageType
  <1>4. ASSUME NEW k \in Tasks, M!UpdateChat(k) PROVE M!Stored \subseteq M!Stored'
    BY <1>1, <1>4 DEF M!UpdateChat, M!Stored, MessageType
  <1>5. UNCHANGED message => M!Stored \subseteq M!Stored'
    BY DEF M!Stored
  <1>6. ASSUME M!CloseChat PROVE M!Stored \subseteq M!Stored'
    BY <1>1, <1>6 DEF M!CloseChat, M!Stored, MessageType
  <1>. QED
    BY <1>2, <1>3, <1>4, <1>5, <1>6
       DEF M!Next, M!vars, M!Connect, M!Disconnect, M!ReadMessages, M!Read, M!ChatSupport,
           M!SendMessage, M!Emit, M!Deliver, M!GetAllMessages, M!MarkAllMsg, M!ShowAll

\* What close_chat marked stays named, and it names the messages it marks.
LEMMA ClosedGrows ==
  ASSUME [M!Next]_(M!vars)
  PROVE  \/ UNCHANGED closed
         \/ /\ M!CloseChat
            /\ closed' = closed \cup {m \in M!Stored : ~message[m].read}
  BY DEF M!Next, M!vars, M!Connect, M!Disconnect, M!ReadMessages, M!CloseChat, M!ChatSupport,
         M!SendMessage, M!UpdateChat, M!StoreMessage, M!Emit, M!GetAllMessages,
         M!MarkAllMsg, M!ShowAll

LEMMA TasksStep ==
  ASSUME MessagesType, [M!Next]_(M!vars)
  PROVE  TasksOK'
  <1>0. TasksOK /\ M!Stored \subseteq M!Stored' /\ socket \in [M!Members -> Nat]
    BY StoredStays DEF MessagesType, M!TypeOK
  <1>1. ASSUME UNCHANGED task PROVE TasksOK'
    BY <1>0, <1>1 DEF TasksOK, TaskOK
  <1>2. ASSUME NEW k \in Tasks PROVE TaskOK(task[k])
    BY <1>0 DEF TasksOK
  <1>. USE DEF TaskType, TaskPCs, ListPCs
  <1>3. ASSUME NEW k \in Tasks, M!ChatSupport(k) PROVE TasksOK'
    <2>. DEFINE j == [M!Done EXCEPT !.pc = "store", !.user = Driver, !.to = socket[Other]]
    <2>1. task' = [task EXCEPT ![k] = j]
      BY <1>3 DEF M!ChatSupport, M!Turn
    <2>2. j \in TaskType /\ j.pc \notin ListPCs /\ j.list = {} /\ j.user \in M!Members
      BY <1>0 DEF M!Done, M!Members
    <2>. HIDE DEF j
    <2>. QED  BY <1>0, <2>1, <2>2, TaskSet
  <1>4. ASSUME NEW k \in Tasks, NEW u \in M!Members, NEW r \in M!Members \cup {None},
               M!SendMessage(k, u, r)
        PROVE  TasksOK'
    <2>. DEFINE to == IF r = None THEN 0 ELSE socket[r]
                pc == IF kind = "ride" THEN "store" ELSE "claim"
                j == [M!Done EXCEPT !.pc = pc, !.user = u, !.receiver = r, !.to = to]
    <2>1. task' = [task EXCEPT ![k] = j]
      BY <1>4 DEF M!SendMessage, M!Turn
    <2>2. to \in Nat /\ pc \in {"store", "claim"}
      BY <1>0
    <2>. HIDE DEF to, pc
    <2>3. j \in TaskType /\ j.pc \notin ListPCs /\ j.list = {} /\ j.user \in M!Members
      BY <2>2 DEF M!Done
    <2>. HIDE DEF j
    <2>. QED  BY <1>0, <2>1, <2>3, TaskSet
  <1>5. ASSUME NEW k \in Tasks, M!UpdateChat(k) PROVE TasksOK'
    <2>. DEFINE j == [task[k] EXCEPT !.pc = "store"]
    <2>1. task' = [task EXCEPT ![k] = j]
      BY <1>5 DEF M!UpdateChat, M!Goto
    <2>2. j \in TaskType /\ j.pc \notin ListPCs /\ j.list = {} /\ j.user \in M!Members
      BY <1>2, <1>5 DEF TaskOK, M!UpdateChat
    <2>. HIDE DEF j
    <2>. QED  BY <1>0, <2>1, <2>2, TaskSet
  <1>6. ASSUME NEW k \in Tasks, M!StoreMessage(k) PROVE TasksOK'
    <2>1. PICK m \in Messages \ M!Stored :
                 /\ message' = [message EXCEPT ![m] =
                       [M!NoMessage EXCEPT !.sender = task[k].user,
                                           !.receiver = task[k].receiver]]
                 /\ M!Turn(k, [task[k] EXCEPT !.pc = "emit", !.list = {m}])
      BY <1>6 DEF M!StoreMessage
    <2>. DEFINE j == [task[k] EXCEPT !.pc = "emit", !.list = {m}]
    <2>2. task[k] \in TaskType /\ task[k].user \in M!Members
      BY <1>2, <1>6 DEF TaskOK, M!StoreMessage
    <2>3. j \in TaskType /\ j.pc = "emit" /\ j.list = {m} /\ j.user \in M!Members
      BY <2>2
    <2>4. m \in M!Stored'
      BY <2>1, <2>2, MessagesAssumption DEF MessagesType, M!TypeOK, M!Stored, M!NoMessage, M!Members
    <2>5. task' = [task EXCEPT ![k] = j]
      BY <2>1 DEF M!Turn
    <2>. HIDE DEF j
    <2>. QED  BY <1>0, <2>3, <2>4, <2>5, TaskSet
  <1>7. ASSUME NEW k \in Tasks, M!Emit(k) \/ M!ShowAll(k) PROVE TasksOK'
    <2>1. task' = [task EXCEPT ![k] = M!Done]
      BY <1>7 DEF M!Emit, M!ShowAll, M!Deliver, M!Turn
    <2>2. M!Done \in TaskType /\ M!Done.pc = "idle" /\ M!Done.list = {}
      BY DEF M!Done
    <2>. QED  BY <1>0, <2>1, <2>2, TaskSet
  <1>8. ASSUME NEW k \in Tasks, NEW u \in M!Members, M!GetAllMessages(k, u) PROVE TasksOK'
    <2>. DEFINE j == [M!Done EXCEPT !.pc = "mark", !.user = u, !.to = socket[u],
                                    !.list = M!Stored]
    <2>1. task' = [task EXCEPT ![k] = j]
      BY <1>8 DEF M!GetAllMessages, M!Turn
    <2>2. M!Stored \subseteq Messages
      BY DEF M!Stored
    <2>3. j \in TaskType /\ j.pc = "mark" /\ j.list = M!Stored /\ j.user \in M!Members
      BY <1>0, <2>2 DEF M!Done
    <2>. HIDE DEF j
    <2>. QED  BY <1>0, <2>1, <2>3, TaskSet
  <1>9. ASSUME NEW k \in Tasks, M!MarkAllMsg(k) PROVE TasksOK'
    <2>. DEFINE j == [task[k] EXCEPT !.pc = "show"]
    <2>1. task' = [task EXCEPT ![k] = j]
      BY <1>9 DEF M!MarkAllMsg, M!Goto
    <2>2. j \in TaskType /\ j.pc = "show" /\ j.list = task[k].list /\ j.user \in M!Members
          /\ task[k].list \subseteq M!Stored
      BY <1>2, <1>9 DEF TaskOK, M!MarkAllMsg
    <2>. HIDE DEF j
    <2>. QED  BY <1>0, <2>1, <2>2, TaskSet
  <1>10. CASE M!Next
    BY <1>1, <1>3, <1>4, <1>5, <1>6, <1>7, <1>8, <1>9, <1>10
       DEF M!Next, M!Connect, M!Disconnect, M!ReadMessages, M!CloseChat
  <1>. QED  BY <1>1, <1>10 DEF M!vars

LEMMA MessagesTypeStep == MessagesType /\ [M!Next]_(M!vars) => MessagesType'
  <1>. SUFFICES ASSUME MessagesType, [M!Next]_(M!vars) PROVE MessagesType'
    OBVIOUS
  <1>0. M!TypeOK /\ TasksOK /\ \A u \in alive : socket[u] > 0
    BY DEF MessagesType
  <1>1. ASSUME NEW k \in Tasks PROVE TaskOK(task[k])
    BY <1>0 DEF TasksOK
  <1>2. TasksOK'
    BY TasksStep
  <1>3. \A k \in Tasks : task'[k].pc \in TaskPCs
    BY <1>2 DEF TasksOK, TaskOK, TaskType
  <1>4. kind' \in M!Kinds
    BY <1>0 DEF M!TypeOK, M!Next, M!vars, M!Connect, M!Disconnect, M!ReadMessages, M!CloseChat, M!Read,
                M!ChatSupport, M!SendMessage, M!UpdateChat, M!StoreMessage, M!Emit,
                M!GetAllMessages, M!MarkAllMsg, M!ShowAll
  <1>5. message' \in [Messages -> MessageType]
    <2>1. message \in [Messages -> MessageType]
      BY <1>0 DEF M!TypeOK, MessageType
    <2>2. ASSUME NEW k \in Tasks, M!StoreMessage(k) PROVE message' \in [Messages -> MessageType]
      <3>1. task[k].user \in M!Members /\ task[k].receiver \in M!Members \cup {None}
        BY <1>1, <2>2 DEF M!StoreMessage, TaskOK, TaskType
      <3>. DEFINE r == [M!NoMessage EXCEPT !.sender = task[k].user,
                                           !.receiver = task[k].receiver]
      <3>2. r \in MessageType
        BY <3>1 DEF MessageType, M!NoMessage
      <3>3. \E m \in Messages : message' = [message EXCEPT ![m] = r]
        BY <2>2 DEF M!StoreMessage
      <3>. QED  BY <2>1, <3>2, <3>3
    <2>3. ASSUME NEW k \in Tasks, M!UpdateChat(k) PROVE message' \in [Messages -> MessageType]
      <3>1. task[k].user \in M!Members
        BY <1>1, <2>3 DEF M!UpdateChat, TaskOK
      <3>. QED  BY <2>1, <2>3, <3>1 DEF M!UpdateChat, MessageType
    <2>4. ASSUME NEW u, M!Read(u) PROVE message' \in [Messages -> MessageType]
      BY <2>1, <2>4 DEF M!Read, MessageType
    <2>5. ASSUME M!CloseChat PROVE message' \in [Messages -> MessageType]
      BY <2>1, <2>5 DEF M!CloseChat, MessageType
    <2>. QED
      BY <2>1, <2>2, <2>3, <2>4, <2>5
         DEF M!Next, M!vars, M!Connect, M!Disconnect, M!ReadMessages, M!ChatSupport,
             M!SendMessage, M!Emit, M!GetAllMessages, M!MarkAllMsg, M!ShowAll
  <1>6. /\ socket' \in [M!Members -> Nat] /\ emitted' \in 0 .. MaxSocketEvents
        /\ alive' \subseteq M!Members /\ \A u \in alive' : socket'[u] > 0
    <2>1. /\ socket \in [M!Members -> Nat] /\ emitted \in 0 .. MaxSocketEvents
          /\ alive \subseteq M!Members
      BY <1>0 DEF M!TypeOK
    <2>2. ASSUME NEW u \in M!Members, M!Connect(u)
          PROVE  /\ socket' \in [M!Members -> Nat] /\ alive' \subseteq M!Members
                 /\ \A v \in alive' : socket'[v] > 0
      BY <1>0, <2>1, <2>2 DEF M!Connect
    <2>3. ASSUME NEW u \in M!Members, M!Disconnect(u)
          PROVE  /\ UNCHANGED socket /\ alive' \subseteq alive
      BY <2>3 DEF M!Disconnect
    <2>4. \/ emitted' = emitted
          \/ emitted < MaxSocketEvents /\ emitted' = emitted + 1
      BY DEF M!Next, M!vars, M!Connect, M!Disconnect, M!ReadMessages, M!CloseChat, M!ChatSupport,
             M!SendMessage, M!Event, M!UpdateChat, M!StoreMessage, M!Emit, M!GetAllMessages,
             M!MarkAllMsg, M!ShowAll
    <2>5. \/ UNCHANGED <<socket, alive>>
          \/ \E u \in M!Members : M!Connect(u) \/ M!Disconnect(u)
      BY DEF M!Next, M!vars, M!ReadMessages, M!CloseChat, M!ChatSupport,
             M!SendMessage, M!UpdateChat, M!StoreMessage, M!Emit, M!GetAllMessages,
             M!MarkAllMsg, M!ShowAll
    <2>6. emitted' \in 0 .. MaxSocketEvents
      BY <2>1, <2>4, MessagesAssumption
    <2>. QED  BY <1>0, <2>1, <2>2, <2>3, <2>5, <2>6
  <1>7. looking' \subseteq alive'
    <2>1. looking \subseteq alive
      BY <1>0 DEF M!TypeOK
    <2>. QED
      BY <2>1 DEF M!Next, M!vars, M!Connect, M!Disconnect, M!ReadMessages, M!CloseChat, M!ChatSupport,
             M!SendMessage, M!UpdateChat, M!StoreMessage, M!Emit, M!GetAllMessages,
             M!MarkAllMsg, M!ShowAll, M!Reaches
  <1>8. seen_m' \in [M!Members -> SUBSET Messages] /\ missed' \subseteq Messages
    <2>1. seen_m \in [M!Members -> SUBSET Messages] /\ missed \subseteq Messages
      BY <1>0 DEF M!TypeOK
    <2>2. ASSUME NEW k \in Tasks, NEW u, NEW to, M!Deliver(k, u, to)
          PROVE  seen_m' \in [M!Members -> SUBSET Messages] /\ missed' \subseteq Messages
      <3>1. task[k].list \subseteq Messages
        BY <1>1 DEF TaskOK, TaskType
      <3>. QED  BY <2>1, <2>2, <3>1 DEF M!Deliver
    <2>3. ASSUME NEW k \in Tasks, M!Emit(k)
          PROVE  \E u, to : M!Deliver(k, u, to)
      BY <2>3 DEF M!Emit
    <2>4. ASSUME NEW k \in Tasks, M!ShowAll(k)
          PROVE  \E u, to : M!Deliver(k, u, to)
      BY <2>4 DEF M!ShowAll
    <2>5. ASSUME NEW k \in Tasks, M!StoreMessage(k)
          PROVE  seen_m' \in [M!Members -> SUBSET Messages] /\ missed' \subseteq Messages
      <3>1. \E m \in Messages : seen_m' = [seen_m EXCEPT ![task[k].user] = @ \cup {m}]
        BY <2>5 DEF M!StoreMessage
      <3>2. UNCHANGED missed
        BY <2>5 DEF M!StoreMessage
      <3>. QED  BY <2>1, <3>1, <3>2
    <2>6. ASSUME NEW k \in Tasks, M!Emit(k) \/ M!ShowAll(k)
          PROVE  seen_m' \in [M!Members -> SUBSET Messages] /\ missed' \subseteq Messages
      BY <2>2, <2>3, <2>4, <2>6
    <2>. QED
      BY <2>1, <2>5, <2>6
         DEF M!Next, M!vars, M!Connect, M!Disconnect, M!ReadMessages, M!CloseChat, M!ChatSupport,
             M!SendMessage, M!UpdateChat, M!GetAllMessages, M!MarkAllMsg
  <1>9. closed' \subseteq Messages
    <2>1. closed \subseteq Messages
      BY <1>0 DEF M!TypeOK
    <2>. QED  BY <2>1, ClosedGrows DEF M!Stored
  <1>. QED  BY <1>2, <1>3, <1>4, <1>5, <1>6, <1>7, <1>8, <1>9
            DEF MessagesType, M!TypeOK, MessageType, TaskPCs

\* A task that has listed messages goes on from marking to showing, or ends by
\* sending them.
LEMMA TaskFate ==
  ASSUME MessagesType, [M!Next]_(M!vars), NEW k \in Tasks, task[k].pc \in ListPCs
  PROVE  \/ task'[k] = task[k]
         \/ /\ task[k].pc = "mark" /\ task'[k].pc = "show"
            /\ task'[k].user = task[k].user /\ task'[k].list = task[k].list
         \/ M!Emit(k) \/ M!ShowAll(k)
  <1>0. task = [j \in Tasks |-> task[j]] /\ task[k] \in TaskType
    BY DEF MessagesType, TasksOK, TaskOK
  <1>1. CASE UNCHANGED task
    BY <1>1
  <1>2. ASSUME NEW j \in Tasks,
               \/ M!ChatSupport(j) \/ (\E u \in M!Members : M!GetAllMessages(j, u))
               \/ \E u \in M!Members, r \in M!Members \cup {None} : M!SendMessage(j, u, r)
        PROVE  task'[k] = task[k]
    <2>1. task[j].pc = "idle" /\ \E r : task' = [task EXCEPT ![j] = r]
      BY <1>2 DEF M!ChatSupport, M!GetAllMessages, M!SendMessage, M!Event, M!Turn
    <2>. QED  BY <1>0, <2>1 DEF ListPCs
  <1>3. ASSUME NEW j \in Tasks, M!UpdateChat(j) PROVE task'[k] = task[k]
    BY <1>0, <1>3 DEF M!UpdateChat, M!Goto, ListPCs
  <1>4. ASSUME NEW j \in Tasks, M!StoreMessage(j) PROVE task'[k] = task[k]
    <2>1. task[j].pc = "store" /\ \E r : task' = [task EXCEPT ![j] = r]
      BY <1>4 DEF M!StoreMessage, M!Turn
    <2>. QED  BY <1>0, <2>1 DEF ListPCs
  <1>5. ASSUME NEW j \in Tasks \ {k}, M!Emit(j) \/ M!ShowAll(j) PROVE task'[k] = task[k]
    BY <1>0, <1>5 DEF M!Emit, M!ShowAll, M!Deliver, M!Turn
  <1>6. ASSUME NEW j \in Tasks, M!MarkAllMsg(j)
        PROVE  \/ task'[k] = task[k]
               \/ /\ task[k].pc = "mark" /\ task'[k].pc = "show"
                  /\ task'[k].user = task[k].user /\ task'[k].list = task[k].list
    <2>1. task[j].pc = "mark" /\ task' = [task EXCEPT ![j] = [task[j] EXCEPT !.pc = "show"]]
      BY <1>6 DEF M!MarkAllMsg, M!Goto
    <2>2. CASE j = k
      BY <1>0, <2>1, <2>2 DEF TaskType
    <2>3. CASE j # k
      BY <1>0, <2>1, <2>3
    <2>. QED  BY <2>2, <2>3
  <1>. QED
    BY <1>1, <1>2, <1>3, <1>4, <1>5, <1>6
       DEF M!Next, M!vars, M!Connect, M!Disconnect, M!ReadMessages, M!CloseChat

\* Nobody loses what he was sent, or has missed; no socket is taken back.
LEMMA SeenGrows ==
  ASSUME MessagesType, [M!Next]_(M!vars)
  PROVE  /\ missed \subseteq missed'
         /\ \A u \in M!Members : seen_m[u] \subseteq seen_m'[u] /\ socket[u] <= socket'[u]
  <1>1. seen_m \in [M!Members -> SUBSET Messages] /\ socket \in [M!Members -> Nat]
    BY DEF MessagesType, M!TypeOK
  <1>2. ASSUME NEW k \in Tasks, NEW u, NEW to, M!Deliver(k, u, to)
        PROVE  /\ missed \subseteq missed'
               /\ \A v \in M!Members : seen_m[v] \subseteq seen_m'[v]
    BY <1>1, <1>2 DEF M!Deliver
  <1>3. ASSUME NEW k \in Tasks, M!Emit(k) \/ M!ShowAll(k)
        PROVE  UNCHANGED socket /\ \E u, to : M!Deliver(k, u, to)
    BY <1>3 DEF M!Emit, M!ShowAll
  <1>4. ASSUME NEW k \in Tasks, M!StoreMessage(k)
        PROVE  /\ UNCHANGED <<socket, missed>>
               /\ \A u \in M!Members : seen_m[u] \subseteq seen_m'[u]
    <2>1. \E m \in Messages : seen_m' = [seen_m EXCEPT ![task[k].user] = @ \cup {m}]
      BY <1>4 DEF M!StoreMessage
    <2>2. UNCHANGED <<socket, missed>>
      BY <1>4 DEF M!StoreMessage
    <2>. QED  BY <1>1, <2>1, <2>2
  <1>5. ASSUME NEW u \in M!Members, M!Connect(u)
        PROVE  UNCHANGED <<seen_m, missed>> /\ \A v \in M!Members : socket[v] <= socket'[v]
    BY <1>1, <1>5 DEF M!Connect
  <1>6. \/ UNCHANGED <<seen_m, missed, socket>>
        \/ \E k \in Tasks : M!Emit(k) \/ M!ShowAll(k) \/ M!StoreMessage(k)
        \/ \E u \in M!Members : M!Connect(u)
    BY DEF M!Next, M!vars, M!Disconnect, M!ReadMessages, M!CloseChat, M!ChatSupport, M!SendMessage,
           M!UpdateChat, M!GetAllMessages, M!MarkAllMsg
  <1>. QED  BY <1>1, <1>2, <1>3, <1>4, <1>5, <1>6

\* Once a user has connected, what he had, or was about to have, stays so.
LEMMA HadKept ==
  ASSUME MessagesType, [M!Next]_(M!vars), NEW m, NEW u \in M!Members, socket[u] > 0,
         Had(m, u)
  PROVE  Had(m, u)'
  <1>0. socket \in [M!Members -> Nat] /\ TasksOK
    BY DEF MessagesType, M!TypeOK
  <1>1. CASE m \in seen_m[u] \/ m \in missed
    BY <1>1, SeenGrows DEF Had
  <1>2. ASSUME NEW k \in Tasks, m \in task[k].list,
               \/ task[k].pc = "emit" /\ Peer(task[k].user) = u
               \/ task[k].pc \in {"mark", "show"} /\ task[k].user = u
        PROVE  Had(m, u)'
    <2>1. task[k].pc \in ListPCs
      BY <1>2 DEF ListPCs
    <2>2. ASSUME NEW to, M!Deliver(k, u, to) PROVE m \in seen_m'[u] \/ m \in missed'
      <3>1. seen_m \in [M!Members -> SUBSET Messages]
        BY DEF MessagesType, M!TypeOK
      <3>. QED  BY <1>0, <1>2, <2>2, <3>1 DEF M!Deliver
    <2>3. CASE M!Emit(k)
      <3>1. \E to : M!Deliver(k, Peer(task[k].user), to)
        BY <2>3 DEF M!Emit, Peer
      <3>2. task[k].pc = "emit"
        BY <2>3 DEF M!Emit
      <3>. QED  BY <1>2, <2>2, <3>1, <3>2 DEF Had
    <2>4. CASE M!ShowAll(k)
      <3>1. M!Deliver(k, task[k].user, task[k].to) /\ task[k].pc = "show"
        BY <2>4 DEF M!ShowAll
      <3>. QED  BY <1>2, <2>2, <3>1 DEF Had
    <2>5. CASE task'[k] = task[k]
      BY <1>2, <2>5 DEF Had, Coming
    <2>6. CASE /\ task[k].pc = "mark" /\ task'[k].pc = "show"
               /\ task'[k].user = task[k].user /\ task'[k].list = task[k].list
      BY <1>2, <2>6 DEF Had, Coming
    <2>. QED  BY <2>1, <2>3, <2>4, <2>5, <2>6, TaskFate
  <1>. QED  BY <1>1, <1>2 DEF Had, Coming

\* A message that is stored is its sender's, and is about to be sent to the other.
LEMMA NewIsHad ==
  ASSUME MessagesType, [M!Next]_(M!vars), NEW m \in M!Stored' \ M!Stored,
         NEW u \in M!Members
  PROVE  Had(m, u)' /\ message'[m].read = FALSE
  <1>1. message \in [Messages -> MessageType]
    BY DEF MessagesType, M!TypeOK, MessageType
  <1>2. ASSUME NEW v, M!Read(v) PROVE M!Stored' = M!Stored
    BY <1>1, <1>2 DEF M!Read, M!Stored, MessageType
  <1>3. ASSUME NEW k \in Tasks, M!UpdateChat(k) PROVE M!Stored' = M!Stored
    BY <1>1, <1>3 DEF M!UpdateChat, M!Stored, MessageType
  <1>4. /\ UNCHANGED message => M!Stored' = M!Stored
        /\ M!CloseChat => M!Stored' = M!Stored
    BY <1>1 DEF M!CloseChat, M!Stored, MessageType
  <1>5. PICK k \in Tasks : M!StoreMessage(k)
    BY <1>2, <1>3, <1>4
       DEF M!Next, M!vars, M!Connect, M!Disconnect, M!ReadMessages, M!ChatSupport,
           M!SendMessage, M!Emit, M!Deliver, M!GetAllMessages, M!MarkAllMsg, M!ShowAll
  <1>6. PICK n \in Messages \ M!Stored :
            /\ message' = [message EXCEPT ![n] =
                  [M!NoMessage EXCEPT !.sender = task[k].user, !.receiver = task[k].receiver]]
            /\ seen_m' = [seen_m EXCEPT ![task[k].user] = @ \cup {n}]
            /\ task' = [task EXCEPT ![k] = [task[k] EXCEPT !.pc = "emit", !.list = {n}]]
    BY <1>5 DEF M!StoreMessage, M!Turn
  <1>7. \A l \in Messages \ {n} : message'[l] = message[l]
    BY <1>1, <1>6
  <1>8. n = m
    BY <1>7 DEF M!Stored
  <1>9. message'[m].read = FALSE
    <2>1. message'[m] = [M!NoMessage EXCEPT !.sender = task[k].user,
                                            !.receiver = task[k].receiver]
      BY <1>1, <1>6, <1>8
    <2>. QED  BY <2>1 DEF M!NoMessage
  <1>10. task[k] \in TaskType /\ task[k].user \in M!Members
    BY <1>5 DEF MessagesType, TasksOK, TaskOK, M!StoreMessage
  <1>11. task'[k].pc = "emit" /\ task'[k].list = {m} /\ task'[k].user = task[k].user
    BY <1>6, <1>8, <1>10 DEF MessagesType, TasksOK, TaskType
  <1>12. u = task[k].user \/ u = Peer(task[k].user)
    BY <1>10 DEF Peer, M!Members
  <1>13. u = task[k].user => m \in seen_m'[u]
    BY <1>6, <1>8 DEF MessagesType, M!TypeOK
  <1>14. u = Peer(task[k].user) => Coming(m, u)'
    BY <1>11 DEF Coming
  <1>. QED  BY <1>9, <1>12, <1>13, <1>14 DEF Had

\* Whom a message is marked for has been connected, and has had it.
LEMMA ReadStep ==
  ASSUME MessagesType, HadInv, [M!Next]_(M!vars), NEW m \in M!Stored, m \notin closed',
         message'[m].read
  PROVE  /\ message'[m].receiver \in M!Members
         /\ socket[message'[m].receiver] > 0 /\ Had(m, message'[m].receiver)
  <1>1. /\ message \in [Messages -> MessageType] /\ m \in Messages
        /\ m \notin closed
    BY ClosedGrows DEF MessagesType, M!TypeOK, MessageType, M!Stored
  <1>2. CASE message'[m] = message[m]
    BY <1>1, <1>2 DEF HadInv
  <1>3. ASSUME NEW v \in M!Members, M!Read(v), socket[v] > 0, Had(m, v)
        PROVE  /\ message'[m].receiver \in M!Members
               /\ socket[message'[m].receiver] > 0 /\ Had(m, message'[m].receiver)
    <2>1. CASE message[m].receiver = v
      BY <1>1, <1>3, <2>1 DEF M!Read, MessageType
    <2>2. CASE message[m].receiver # v
      <3>1. message'[m] = message[m]
        BY <1>1, <1>3, <2>2 DEF M!Read, M!To
      <3>. QED  BY <1>2, <3>1
    <2>. QED  BY <2>1, <2>2
  <1>4. ASSUME NEW k \in Tasks, M!MarkAllMsg(k)
        PROVE  /\ task[k].user \in M!Members /\ M!Read(task[k].user)
               /\ socket[task[k].user] > 0 /\ Had(m, task[k].user)
    BY <1>4 DEF M!MarkAllMsg, HadInv, MessagesType, TasksOK, TaskOK
  <1>5. ASSUME NEW v \in M!Members, M!ReadMessages(v)
        PROVE  M!Read(v) /\ socket[v] > 0 /\ Had(m, v)
    BY <1>5 DEF M!ReadMessages, HadInv, MessagesType, M!TypeOK
  <1>6. ASSUME NEW k \in Tasks, M!UpdateChat(k)
        PROVE  message'[m] = message[m]
    <2>1. message'[m].read = message[m].read
      BY <1>1, <1>6 DEF M!UpdateChat, MessageType
    <2>2. message[m].receiver # None
      BY <1>1, <2>1, MessagesAssumption DEF HadInv, M!Members
    <2>. QED  BY <1>1, <1>6, <2>2 DEF M!UpdateChat, M!To
  <1>7. ASSUME NEW k \in Tasks, M!StoreMessage(k)
        PROVE  message'[m] = message[m]
    <2>1. \E n \in Messages \ M!Stored : \E r : message' = [message EXCEPT ![n] = r]
      BY <1>7 DEF M!StoreMessage
    <2>. QED  BY <1>1, <2>1
  <1>8. ASSUME M!CloseChat PROVE message'[m] = message[m]
    <2>1. message[m].read = TRUE
      BY <1>1, <1>8 DEF M!CloseChat, MessageType
    <2>. QED  BY <1>1, <1>8, <2>1 DEF M!CloseChat, MessageType
  <1>9. \/ UNCHANGED message
        \/ \E k \in Tasks : M!MarkAllMsg(k) \/ M!UpdateChat(k) \/ M!StoreMessage(k)
        \/ \E v \in M!Members : M!ReadMessages(v)
        \/ M!CloseChat
    BY DEF M!Next, M!vars, M!Connect, M!Disconnect, M!ChatSupport,
           M!SendMessage, M!Emit, M!Deliver, M!GetAllMessages, M!ShowAll
  <1>. QED  BY <1>2, <1>3, <1>4, <1>5, <1>6, <1>7, <1>8, <1>9

\* Whoever begins to look is shown what the task had listed.
LEMMA LookStep ==
  ASSUME MessagesType, HadInv, [M!Next]_(M!vars), NEW u \in looking'
  PROVE  u \in M!Members /\ socket[u] > 0 /\ \A m \in M!Stored : Had(m, u)
  <1>1. looking \subseteq alive /\ alive \subseteq M!Members /\ \A v \in alive : socket[v] > 0
    BY DEF MessagesType, M!TypeOK
  <1>2. CASE u \in looking
    BY <1>1, <1>2 DEF HadInv
  <1>3. ASSUME NEW k \in Tasks, M!ShowAll(k), u = task[k].user
        PROVE  u \in M!Members /\ socket[u] > 0 /\ \A m \in M!Stored : Had(m, u)
    BY <1>3 DEF M!ShowAll, HadInv, MessagesType, TasksOK, TaskOK
  <1>4. \/ looking' \subseteq looking
        \/ \E k \in Tasks : M!ShowAll(k) /\ looking' \subseteq looking \cup {task[k].user}
    BY DEF M!Next, M!vars, M!Connect, M!Disconnect, M!ReadMessages, M!CloseChat, M!ChatSupport,
           M!SendMessage, M!UpdateChat, M!StoreMessage, M!Emit, M!GetAllMessages,
           M!MarkAllMsg, M!ShowAll
  <1>. QED  BY <1>2, <1>3, <1>4

\* A task that lists has everything that is stored, or found it so.
LEMMA ListStep ==
  ASSUME MessagesType, HadInv, [M!Next]_(M!vars), NEW k \in Tasks,
         task'[k].pc \in {"mark", "show"}
  PROVE  /\ task'[k].user \in M!Members /\ socket[task'[k].user] > 0
         /\ \/ \A m \in M!Stored : Had(m, task'[k].user)
            \/ M!Stored' = M!Stored /\ task'[k].list = M!Stored
  <1>0. task = [j \in Tasks |-> task[j]]
    BY DEF MessagesType, TasksOK
  <1>1. CASE task[k].pc \in {"mark", "show"} /\ task'[k].user = task[k].user
    BY <1>1 DEF HadInv, MessagesType, TasksOK, TaskOK
  <1>2. ASSUME NEW v \in M!Members, M!GetAllMessages(k, v)
        PROVE  /\ task'[k].user \in M!Members /\ socket[task'[k].user] > 0
               /\ M!Stored' = M!Stored /\ task'[k].list = M!Stored
    <2>. DEFINE j == [M!Done EXCEPT !.pc = "mark", !.user = v, !.to = socket[v],
                                    !.list = M!Stored]
    <2>1. task'[k] = j
      BY <1>0, <1>2 DEF M!GetAllMessages, M!Turn
    <2>2. j.user = v /\ j.list = M!Stored
      BY DEF M!Done
    <2>3. socket[v] > 0 /\ UNCHANGED message
      BY <1>2 DEF M!GetAllMessages, MessagesType
    <2>4. M!Stored' = M!Stored
      BY <2>3 DEF M!Stored
    <2>. QED  BY <2>1, <2>2, <2>3, <2>4
  <1>3. ASSUME NEW j \in Tasks, NEW r, task' = [task EXCEPT ![j] = r],
               r.pc \notin {"mark", "show"}
        PROVE  task[k].pc \in {"mark", "show"} /\ task'[k].user = task[k].user
    BY <1>0, <1>3
  <1>4. ASSUME NEW j \in Tasks,
               \/ M!ChatSupport(j) \/ M!UpdateChat(j) \/ M!StoreMessage(j) \/ M!Emit(j)
               \/ M!ShowAll(j)
               \/ \E u \in M!Members, r \in M!Members \cup {None} : M!SendMessage(j, u, r)
        PROVE  \E r : task' = [task EXCEPT ![j] = r] /\ r.pc \notin {"mark", "show"}
    <2>0. task[j] \in TaskType
      BY DEF MessagesType, TasksOK, TaskOK
    <2>1. \A u, to : [M!Done EXCEPT !.pc = "store", !.user = u, !.to = to].pc = "store"
      BY DEF M!Done
    <2>2. \A u, r, to, pc :
              [M!Done EXCEPT !.pc = pc, !.user = u, !.receiver = r, !.to = to].pc = pc
      BY DEF M!Done
    <2>3. CASE M!ChatSupport(j)
      BY <2>1, <2>3 DEF M!ChatSupport, M!Turn
    <2>4. CASE \E u \in M!Members, r \in M!Members \cup {None} : M!SendMessage(j, u, r)
      <3>1. PICK u \in M!Members, r \in M!Members \cup {None} : M!SendMessage(j, u, r)
        BY <2>4
      <3>. DEFINE pc == IF kind = "ride" THEN "store" ELSE "claim"
                  to == IF r = None THEN 0 ELSE socket[r]
                  x == [M!Done EXCEPT !.pc = pc, !.user = u, !.receiver = r, !.to = to]
      <3>2. task' = [task EXCEPT ![j] = x]
        BY <3>1 DEF M!SendMessage, M!Turn
      <3>3. pc \notin {"mark", "show"}
        OBVIOUS
      <3>. HIDE DEF pc, to
      <3>4. x.pc = pc
        BY <2>2
      <3>. HIDE DEF x
      <3>. QED  BY <3>2, <3>3, <3>4
    <2>5. CASE M!UpdateChat(j)
      <3>1. task' = [task EXCEPT ![j] = [task[j] EXCEPT !.pc = "store"]]
        BY <2>5 DEF M!UpdateChat, M!Goto
      <3>2. [task[j] EXCEPT !.pc = "store"].pc = "store"
        BY <2>0 DEF TaskType
      <3>. QED  BY <3>1, <3>2
    <2>6. CASE M!StoreMessage(j)
      <3>1. \E m : task' = [task EXCEPT ![j] = [task[j] EXCEPT !.pc = "emit", !.list = {m}]]
        BY <2>6 DEF M!StoreMessage, M!Turn
      <3>2. \A m : [task[j] EXCEPT !.pc = "emit", !.list = {m}].pc = "emit"
        BY <2>0 DEF TaskType
      <3>. QED  BY <3>1, <3>2
    <2>7. CASE M!Emit(j) \/ M!ShowAll(j)
      <3>1. task' = [task EXCEPT ![j] = M!Done] /\ M!Done.pc = "idle"
        BY <2>7 DEF M!Emit, M!ShowAll, M!Deliver, M!Turn, M!Done
      <3>. QED  BY <3>1
    <2>. QED  BY <1>4, <2>3, <2>4, <2>5, <2>6, <2>7
  <1>5. ASSUME NEW j \in Tasks, M!MarkAllMsg(j)
        PROVE  task[k].pc \in {"mark", "show"} /\ task'[k].user = task[k].user
    <2>1. task[j].pc = "mark" /\ task' = [task EXCEPT ![j] = [task[j] EXCEPT !.pc = "show"]]
      BY <1>5 DEF M!MarkAllMsg, M!Goto
    <2>2. task[k] \in TaskType
      BY DEF MessagesType, TasksOK, TaskOK
    <2>. QED  BY <1>0, <2>1, <2>2 DEF TaskType
  <1>6. ASSUME NEW j \in Tasks \ {k}, NEW v \in M!Members, M!GetAllMessages(j, v)
        PROVE  task'[k] = task[k]
    BY <1>0, <1>6 DEF M!GetAllMessages, M!Turn
  <1>7. CASE UNCHANGED task
    BY <1>1, <1>7
  <1>8. \/ UNCHANGED task
        \/ \E j \in Tasks :
              \/ M!ChatSupport(j) \/ M!UpdateChat(j) \/ M!StoreMessage(j) \/ M!Emit(j)
              \/ M!ShowAll(j) \/ M!MarkAllMsg(j)
              \/ \E u \in M!Members, r \in M!Members \cup {None} : M!SendMessage(j, u, r)
              \/ \E v \in M!Members : M!GetAllMessages(j, v)
    BY DEF M!Next, M!vars, M!Connect, M!Disconnect, M!ReadMessages, M!CloseChat
  <1>. QED  BY <1>1, <1>2, <1>3, <1>4, <1>5, <1>6, <1>7, <1>8

LEMMA HadStep == MessagesType /\ HadInv /\ [M!Next]_(M!vars) => HadInv'
  <1>. SUFFICES ASSUME MessagesType, HadInv, [M!Next]_(M!vars) PROVE HadInv'
    OBVIOUS
  <1>1. \A m \in M!Stored' \ M!Stored : \A u \in M!Members :
           Had(m, u)' /\ message'[m].read = FALSE
    BY NewIsHad
  <1>2. \A m \in M!Stored : \A u \in M!Members : socket[u] > 0 /\ Had(m, u) => Had(m, u)'
    BY HadKept
  <1>3. \A u \in M!Members : socket[u] > 0 => socket'[u] > 0
    <2>1. socket \in [M!Members -> Nat] /\ socket' \in [M!Members -> Nat]
      BY MessagesTypeStep DEF MessagesType, M!TypeOK
    <2>. QED  BY <2>1, SeenGrows
  <1>4. Driver \in M!Members
    BY DEF M!Members
  <1>5. ASSUME NEW m \in M!Stored', m \notin closed', message'[m].read
        PROVE  /\ message'[m].receiver \in M!Members /\ socket'[message'[m].receiver] > 0
               /\ Had(m, message[m].receiver)'
    <2>1. m \in M!Stored
      BY <1>1, <1>4, <1>5
    <2>2. PICK u : /\ u = message'[m].receiver
                   /\ u \in M!Members /\ socket[u] > 0 /\ Had(m, u)
      BY <1>5, <2>1, ReadStep
    <2>3. Had(m, u)' /\ socket'[u] > 0
      BY <1>2, <1>3, <2>1, <2>2
    <2>. QED  BY <2>2, <2>3 DEF Had, Coming
  <1>6. ASSUME NEW u \in looking', NEW m \in M!Stored' PROVE Had(m, u)'
    BY <1>1, <1>2, LookStep
  <1>7. ASSUME NEW k \in Tasks, task'[k].pc \in {"mark", "show"}
        PROVE  /\ socket'[task'[k].user] > 0
               /\ \A m \in M!Stored' : Had(m, task[k].user)'
    <2>1. PICK u : u = task'[k].user
      OBVIOUS
    <2>2. /\ u \in M!Members /\ socket[u] > 0
          /\ \/ \A m \in M!Stored : Had(m, u)
             \/ M!Stored' = M!Stored /\ task'[k].list = M!Stored
      BY <1>7, <2>1, ListStep
    <2>3. M!Stored' = M!Stored /\ task'[k].list = M!Stored =>
             \A m \in M!Stored' : Had(m, u)'
      BY <1>7, <2>1 DEF Had, Coming
    <2>4. \A m \in M!Stored' : Had(m, u)'
      BY <1>1, <1>2, <2>2, <2>3
    <2>. QED  BY <1>3, <2>1, <2>2, <2>4 DEF Had, Coming
  <1>. QED  BY <1>5, <1>6, <1>7 DEF HadInv

\* Messages: what is marked as read was sent to its receiver, unless a dispatcher marked
\* it, closing the chat; and who looks at the chat has been sent all of it, or is about to
\* be, but for what went to a socket he had left.
THEOREM MessagesSent == WorldSpec => []MessagesHold
  <1>1. MessagesType /\ HadInv => MessagesHold
    BY DEF HadInv, Had, Coming, MessagesHold, M!MessagesHold, M!ReadIsSeen,
           M!LookingIsComplete, M!UnderWay
  <1>. QED
    BY <1>1, MessagesInit, MessagesStep, MessagesTypeStep, HadStep, PTL DEF WorldSpec
=============================================================================
