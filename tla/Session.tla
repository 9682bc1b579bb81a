------------------------------- MODULE Session -------------------------------
(***************************************************************************)
(* Accounts and sessions: auth.service.ts and the guard that asks for a    *)
(* session, with the block switch of the administration.  One collection   *)
(* of accounts (customers or drivers, chosen by Init) and the sessions     *)
(* collection.  A device runs one request at a time; a request that awaits *)
(* the database more than once is a job with one action per call, so that  *)
(* requests of two devices, and of the administration, interleave.  Asking *)
(* for a code answers with a signed token that carries the phone and the   *)
(* code; no collection knows it, so a device may present it any number of  *)
(* times until it lapses, and codes are typed correctly.                   *)
(***************************************************************************)
EXTENDS Naturals, FiniteSets

CONSTANTS
  Users,          \* the documents that may be created, in order of creation
  Devices,        \* devices, each with its fcm_token
  Phones, Emails, \* what an account is found by
  Corporate,      \* the phones and e-mails of companies
  MaxRequests,    \* bound: requests made
  None

VARIABLES
  scope,     \* "customer" or "driver": the collection
  account,   \* its documents
  sessions,  \* the sessions collection
  job,       \* the request of each device
  token,     \* the tokens of codes each device may present
  block,     \* the blocking request of the administration
  asked,     \* requests made
  contested, \* phones and e-mails claimed by two requests at a time
  doubled,   \* accounts two sign-ins of which overlapped
  late       \* accounts whose block a sign-in may escape

vars == <<scope, account, sessions, job, token, block, asked, contested, doubled, late>>

Fields == {"phone", "email"}
Contacts(f) == IF f = "phone" THEN Phones ELSE Emails

NoAccount == [state |-> "none", phone |-> None, email |-> None,
              temp |-> [phone |-> None, email |-> None], codes |-> {}, blocked |-> FALSE]
Idle == [pc |-> "idle", kind |-> "phone", val |-> None, user |-> None, mail |-> None]

Min(S) == CHOOSE x \in S : \A y \in S : x <= y
First(S) == IF S = {} THEN None ELSE Min(S)

Live == {u \in Users : account[u].state = "live"}
\* find_customer_with_phone and the other lookups of an account that is not deleted
Holders(f, v) == {u \in Live : account[u][f] = v}
Rows(u) == {s \in sessions : s.user = u}

\* AuthGuard: the token is in the sessions collection
Authorized(d, u) == \E s \in Rows(u) : s.by = d

\* what the token of a code carries
Code(p, e) == [phone |-> p, email |-> e]

Begin(d) == /\ job[d].pc = "idle"
            /\ asked < MaxRequests
            /\ asked' = asked + 1
Goto(d, j) == job' = [job EXCEPT ![d] = j]
End(d) == Goto(d, Idle)

---------------------------------------------------------------------------
(* Claims.  A request claims a phone or an e-mail from the read that finds *)
(* it free to the write that takes it; a change of contact that is not     *)
(* verified yet is a claim of its account.                                 *)

Claims(d, f, v) ==
  \/ /\ job[d].pc \in {"temp", "take", "create", "edit", "edited"}
     /\ job[d].kind = f /\ job[d].val = v
  \/ job[d].mail # None /\ f = "email" /\ job[d].mail = v

Claimed(f, v, d) ==
  \/ \E e \in Devices \ {d} : Claims(e, f, v)
  \/ \E u \in Live : account[u].temp[f] = v /\ account[u][f] # v

Claim(d, f, v) == contested' = IF Claimed(f, v, d) THEN contested \cup {v} ELSE contested

SigningIn(d, u) == job[d].pc \in {"login", "device", "session"} /\ job[d].user = u

\* the account u a job signs in to from now on
Enter(d, u) ==
  doubled' = IF \E e \in Devices \ {d} : SigningIn(e, u) THEN doubled \cup {u} ELSE doubled

---------------------------------------------------------------------------
(* Signing in with a phone.                                                *)

\* continue_with_phone: the code goes into a token.  A deleted driver is found too.
ContinueWithPhone(d, p) ==
  /\ Begin(d)
  /\ LET known == IF scope = "customer" THEN Holders("phone", p)
                  ELSE {u \in Users : account[u].state # "none" /\ account[u].phone = p}
         u == First(known)
     IN  token' = IF p \in Corporate \/ (u # None /\ account[u].blocked) THEN token
                  ELSE [token EXCEPT ![d] = @ \cup {Code(p, None)}]
  /\ UNCHANGED <<scope, account, sessions, job, block, contested, doubled, late>>

\* becomeDriver: the form of a new driver, with an e-mail, goes into the token as well
BecomeDriver(d, p, e) ==
  /\ scope = "driver"
  /\ Begin(d)
  /\ LET made == {u \in Users : account[u].state # "none"}
     IN  token' = IF \/ \E u \in made : account[u].phone = p
                     \/ \E u \in made : account[u].email = e \/ account[u].temp.email = e
                  THEN token ELSE [token EXCEPT ![d] = @ \cup {Code(p, e)}]
  /\ UNCHANGED <<scope, account, sessions, job, block, contested, doubled, late>>

\* updateDriver: the form is sent again, with the token of the first; the first stays good
UpdateDriver(d, p, e) ==
  /\ \E t \in token[d] : t.email # None
  /\ BecomeDriver(d, p, e)

\* five minutes have passed: verify_phone throws
Lapse(d) ==
  /\ \E t \in token[d] : token' = [token EXCEPT ![d] = @ \ {t}]
  /\ UNCHANGED <<scope, account, sessions, job, block, asked, contested, doubled, late>>

\* a form whose e-mail somebody has, or is about to have, since it was checked
Outdated(d, e) == Holders("email", e) # {} \/ Claimed("email", e, d)

\* verify_phone, handleCustomerVerification, handleDriverVerification: the account is
\* looked for, and nobody asks whether it is blocked.  The token stays good.
VerifyPhone(d, t) ==
  /\ Begin(d)
  /\ t \in token[d]
  /\ LET u == First(Holders("phone", t.phone))
     IN  IF u # None
         THEN /\ Goto(d, [Idle EXCEPT !.pc = "login", !.val = t.phone, !.user = u])
              /\ Enter(d, u)
              /\ UNCHANGED contested
         ELSE /\ Goto(d, [Idle EXCEPT !.pc = IF scope = "customer" THEN "temp" ELSE "create",
                                      !.val = t.phone, !.mail = t.email])
              /\ contested' = contested
                   \cup {p \in {t.phone} : Claimed("phone", p, d)}
                   \cup {e \in {t.email} \ {None} : Outdated(d, e)}
              /\ UNCHANGED doubled
  /\ UNCHANGED <<scope, account, sessions, token, block, late>>

\* handleCustomerVerification: nobody has the phone, but somebody is changing to it
FindTempPhone(d) ==
  /\ job[d].pc = "temp"
  /\ LET u == First({x \in Live : account[x].temp.phone = job[d].val})
     IN  Goto(d, IF u = None THEN [job[d] EXCEPT !.pc = "create"]
                 ELSE [job[d] EXCEPT !.pc = "take", !.user = u])
  /\ UNCHANGED <<scope, account, sessions, token, block, asked, contested, doubled, late>>

TakePhone(d) ==
  /\ job[d].pc = "take"
  /\ account' = [account EXCEPT ![job[d].user].phone = job[d].val,
                                ![job[d].user].temp.phone = None]
  /\ Goto(d, [job[d] EXCEPT !.pc = "login"])
  /\ Enter(d, job[d].user)
  /\ UNCHANGED <<scope, sessions, token, block, asked, contested, late>>

\* customer_login, driver_login, and the social logins of customers: all sessions end
LoginDelete(d) ==
  /\ job[d].pc = "login"
  /\ sessions' = sessions \ Rows(job[d].user)
  /\ doubled' = IF \E e \in Devices \ {d} : SigningIn(e, job[d].user)
                THEN doubled ELSE doubled \ {job[d].user}
  /\ Goto(d, [job[d] EXCEPT !.pc = "session"])
  /\ UNCHANGED <<scope, account, token, block, asked, contested, late>>

\* customer_signup, driver_signup and the accounts of the social logins
CreateAccount(d) ==
  /\ job[d].pc = "create"
  /\ \E u \in Users : account[u].state = "none"
  /\ LET u == Min({x \in Users : account[x].state = "none"})
     IN  /\ account' = [account EXCEPT ![u] =
                [NoAccount EXCEPT !.state = "live", ![job[d].kind] = job[d].val,
                                  !.temp.email = job[d].mail,
                                  !.codes = IF job[d].mail = None THEN {} ELSE {"email"}]]
         /\ Goto(d, [job[d] EXCEPT !.user = u, !.mail = None,
                       !.pc = IF job[d].kind = "phone" THEN "device" ELSE "session"])
  /\ UNCHANGED <<scope, sessions, token, block, asked, contested, doubled, late>>

\* a sign-up by phone ends whatever was signed in on this device
ForgetDevice(d) ==
  /\ job[d].pc = "device"
  /\ sessions' = {s \in sessions : s.fcm # d}
  /\ Goto(d, [job[d] EXCEPT !.pc = "session"])
  /\ UNCHANGED <<scope, account, token, block, asked, contested, doubled, late>>

CreateSession(d) ==
  /\ job[d].pc = "session"
  /\ \E n \in 1 .. 2 :
       LET row == [user |-> job[d].user, by |-> d, fcm |-> d, no |-> n]
       IN  /\ row \notin sessions
           /\ n = 2 => [row EXCEPT !.no = 1] \in sessions
           /\ sessions' = sessions \cup {row}
  /\ End(d)
  /\ late' = IF job[d].user = block THEN late \cup {block} ELSE late
  /\ UNCHANGED <<scope, account, token, block, asked, contested, doubled>>

---------------------------------------------------------------------------
(* Google and Apple.                                                       *)

\* login_with_google: customers only
LoginWithGoogle(d, e) ==
  /\ scope = "customer"
  /\ Begin(d)
  /\ LET u == First(Holders("email", e))
         j == [Idle EXCEPT !.kind = "email", !.val = e, !.user = u]
     IN  \/ /\ u = None
            /\ Goto(d, [j EXCEPT !.pc = "create"])
            /\ Claim(d, "email", e)
            /\ UNCHANGED doubled
         \/ /\ u # None /\ ~account[u].blocked
            /\ Goto(d, [j EXCEPT !.pc = "login"])
            /\ Enter(d, u)
            /\ UNCHANGED contested
  /\ UNCHANGED <<scope, account, sessions, token, block, late>>

\* login_with_apple: a driver keeps the sessions there are, and is not asked whether
\* he is blocked
LoginWithApple(d, e) ==
  /\ Begin(d)
  /\ LET u == First(Holders("email", e))
         j == [Idle EXCEPT !.kind = "email", !.val = e, !.user = u]
     IN  \/ /\ u = None
            /\ Goto(d, [j EXCEPT !.pc = "create"])
            /\ Claim(d, "email", e)
            /\ UNCHANGED <<doubled, late>>
         \/ /\ u # None /\ scope = "customer" /\ ~account[u].blocked
            /\ Goto(d, [j EXCEPT !.pc = "login"])
            /\ Enter(d, u)
            /\ UNCHANGED <<contested, late>>
         \/ /\ u # None /\ scope = "driver"
            /\ Goto(d, [j EXCEPT !.pc = "session"])
            /\ doubled' = doubled \cup {u}
            /\ late' = late \cup {u}
            /\ UNCHANGED contested
  /\ UNCHANGED <<scope, account, sessions, token, block>>

---------------------------------------------------------------------------
(* What a signed-in user does.                                             *)

\* Mutant: a new phone or e-mail is not looked up before it is promised
EditProfileUnasked(d, u, f, v) ==
  /\ Authorized(d, u)
  /\ Begin(d)
  /\ IF v \in Corporate
     THEN UNCHANGED <<job, contested>>
     ELSE /\ Goto(d, [Idle EXCEPT !.pc = "edit", !.kind = f, !.val = v, !.user = u])
          /\ Claim(d, f, v)
  /\ UNCHANGED <<scope, account, sessions, token, block, doubled, late>>

\* editProfile: a phone or an e-mail no other account and no company has
EditProfile(d, u, f, v) ==
  /\ Authorized(d, u)
  /\ Begin(d)
  /\ IF v \in Corporate \/ Holders(f, v) # {}
     THEN UNCHANGED <<job, contested>>
     ELSE /\ Goto(d, [Idle EXCEPT !.pc = "edit", !.kind = f, !.val = v, !.user = u])
          /\ Claim(d, f, v)
  /\ UNCHANGED <<scope, account, sessions, token, block, doubled, late>>

\* ... is kept aside until its code comes back
KeepAside(d) ==
  /\ job[d].pc = "edit"
  /\ account' = [account EXCEPT ![job[d].user].temp[job[d].kind] = job[d].val,
                                ![job[d].user].codes = @ \cup {job[d].kind}]
  /\ End(d)
  /\ UNCHANGED <<scope, sessions, token, block, asked, contested, doubled, late>>

\* verify_email and verify_edit_phone: the document is read, its code is right ...
VerifyEdit(d, u, f) ==
  /\ Authorized(d, u)
  /\ f \in account[u].codes
  /\ Begin(d)
  /\ Goto(d, [Idle EXCEPT !.pc = "edited", !.kind = f, !.val = account[u].temp[f], !.user = u])
  /\ UNCHANGED <<scope, account, sessions, token, block, contested, doubled, late>>

\* ... and what was kept aside in it becomes the contact.  Nobody looks again who has
\* it, and nothing is left aside when a sign-in has taken the phone in the meantime.
\* Nor does anybody look whether the account is deleted: the phone of a blocked driver
\* then finds the deleted account first, which is not blocked.
WriteContact(d) ==
  LET u == job[d].user
      f == job[d].kind
  IN  /\ job[d].pc = "edited"
      /\ account' = [account EXCEPT ![u][f] = job[d].val]
      /\ late' = late \cup
           {w \in Users :
              /\ account[w].blocked
              /\ IF w = u THEN account[u][f] \in contested
                 ELSE /\ f = "phone" /\ account[u].state = "deleted"
                      /\ account[w].phone = job[d].val}
      /\ End(d)
      /\ UNCHANGED <<scope, sessions, token, block, asked, contested, doubled>>

\* delete_account: the sessions stay
DeleteAccount(d, u) ==
  /\ Authorized(d, u)
  /\ Begin(d)
  /\ account' = [account EXCEPT ![u].state = "deleted"]
  /\ UNCHANGED <<scope, sessions, job, token, block, contested, doubled, late>>

\* logOut: on every device
LogOut(d, u) ==
  /\ Authorized(d, u)
  /\ Begin(d)
  /\ sessions' = sessions \ Rows(u)
  /\ UNCHANGED <<scope, account, job, token, block, contested, doubled, late>>

\* UpdateFcmToken: one of the user's sessions, whichever is found first
UpdateFcmToken(d, u) ==
  /\ Authorized(d, u)
  /\ Begin(d)
  /\ \E s \in Rows(u) :
       /\ [s EXCEPT !.fcm = d] \notin sessions \ {s}
       /\ sessions' = (sessions \ {s}) \cup {[s EXCEPT !.fcm = d]}
  /\ UNCHANGED <<scope, account, job, token, block, contested, doubled, late>>

\* resendOtp: a new code for the driver with this e-mail or, when none is given, for
\* the first driver there is
ResendOtp(f, e) ==
  /\ scope = "driver"
  /\ asked < MaxRequests /\ asked' = asked + 1
  /\ LET u == First({x \in Users :
                 /\ account[x].state # "none"
                 /\ e = None \/ e \in {account[x].email, account[x].temp.email}})
     IN  /\ u # None
         /\ account' = [account EXCEPT ![u].codes = @ \cup {f}]
  /\ UNCHANGED <<scope, sessions, job, token, block, contested, doubled, late>>

---------------------------------------------------------------------------
(* The administration.                                                     *)

\* Mutant: the mark is written, the sessions are left to run out
BlockKeepsSessions(u) ==
  /\ block = None /\ account[u].state # "none" /\ ~account[u].blocked
  /\ asked < MaxRequests /\ asked' = asked + 1
  /\ block' = u
  /\ UNCHANGED <<scope, account, sessions, job, token, contested, doubled, late>>

\* CustomerService.block and update_driver_block_unblock end the sessions ...
BlockSessions(u) ==
  /\ block = None /\ account[u].state # "none" /\ ~account[u].blocked
  /\ asked < MaxRequests /\ asked' = asked + 1
  /\ sessions' = sessions \ Rows(u)
  /\ block' = u
  /\ UNCHANGED <<scope, account, job, token, contested, doubled, late>>

\* requests and changes of phone under way, and codes for his phone that have not lapsed,
\* when the mark is written
Escapes(u) ==
  \/ \E d \in Devices : job[d].pc # "idle"
  \/ \E d \in Devices : \E t \in token[d] : t.phone = account[u].phone
  \/ account[u].temp.phone \notin {None, account[u].phone}
  \/ \E w \in Users \ {u} : account[w].state = "deleted" /\ account[w].phone = account[u].phone

\* ... and then write the mark; a sign-in between the two is not undone
BlockMark ==
  /\ block # None
  /\ account' = [account EXCEPT ![block].blocked = TRUE]
  /\ late' = IF Escapes(block) THEN late \cup {block} ELSE late
  /\ block' = None
  /\ UNCHANGED <<scope, sessions, job, token, asked, contested, doubled>>

Unblock(u) ==
  /\ block = None /\ account[u].blocked
  /\ asked < MaxRequests /\ asked' = asked + 1
  /\ account' = [account EXCEPT ![u].blocked = FALSE]
  /\ late' = late \ {u}
  /\ UNCHANGED <<scope, sessions, job, token, block, contested, doubled>>

\* update_customer_active_deactive and update_driver_active_deactive: sessions end,
\* and the account may sign in again
Deactivate(u) ==
  /\ account[u].state # "none" /\ Rows(u) # {}
  /\ asked < MaxRequests /\ asked' = asked + 1
  /\ sessions' = sessions \ Rows(u)
  /\ UNCHANGED <<scope, account, job, token, block, contested, doubled, late>>

---------------------------------------------------------------------------
Init ==
  /\ scope \in {"customer", "driver"}
  /\ account = [u \in Users |-> NoAccount]
  /\ sessions = {}
  /\ job = [d \in Devices |-> Idle]
  /\ token = [d \in Devices |-> {}]
  /\ block = None
  /\ asked = 0
  /\ contested = {} /\ doubled = {} /\ late = {}

SignIn(d) ==
  \/ \E p \in Phones : ContinueWithPhone(d, p)
  \/ \E p \in Phones, e \in Emails : BecomeDriver(d, p, e) \/ UpdateDriver(d, p, e)
  \/ Lapse(d) \/ FindTempPhone(d) \/ TakePhone(d)
  \/ \E t \in token[d] : VerifyPhone(d, t)
  \/ LoginDelete(d) \/ CreateAccount(d) \/ ForgetDevice(d) \/ CreateSession(d)
  \/ \E e \in Emails : LoginWithGoogle(d, e) \/ LoginWithApple(d, e)

Signed(d) ==
  \/ \E u \in Users, f \in Fields : VerifyEdit(d, u, f)
  \/ \E u \in Users, f \in Fields : \E v \in Contacts(f) : EditProfile(d, u, f, v)
  \/ KeepAside(d) \/ WriteContact(d)
  \/ \E u \in Users : DeleteAccount(d, u) \/ LogOut(d, u) \/ UpdateFcmToken(d, u)

Administration ==
  \/ BlockMark
  \/ \E u \in Users : BlockSessions(u) \/ Unblock(u) \/ Deactivate(u)

Next == \/ \E d \in Devices : SignIn(d) \/ Signed(d)
        \/ \E f \in Fields, e \in Emails \cup {None} : ResendOtp(f, e)
        \/ Administration

---------------------------------------------------------------------------
Jobs ==
  [pc : {"idle", "temp", "take", "create", "device", "login", "session",
         "edit", "edited"},
   kind : Fields, val : Phones \cup Emails \cup {None}, user : Users \cup {None},
   mail : Emails \cup {None}]

\* Every document, session and request has its type.
TypeOK ==
  /\ scope \in {"customer", "driver"}
  /\ account \in [Users ->
       [state : {"none", "live", "deleted"}, phone : Phones \cup {None},
        email : Emails \cup {None}, blocked : BOOLEAN, codes : SUBSET Fields,
        temp : [phone : Phones \cup {None}, email : Emails \cup {None}]]]
  /\ sessions \subseteq [user : Users, by : Devices, fcm : Devices, no : 1 .. 2]
  /\ job \in [Devices -> Jobs]
  /\ token \in [Devices -> SUBSET [phone : Phones, email : Emails \cup {None}]]
  /\ block \in Users \cup {None}
  /\ asked \in 0 .. MaxRequests
  /\ contested \subseteq Phones \cup Emails
  /\ doubled \subseteq Users /\ late \subseteq Users

\* A phone or an e-mail finds one account, unless two requests were taking it at the
\* same time: it is looked up when a change is asked for and written minutes later,
\* and a sign-up looks it up in one call and creates the account in another.
OneAccount ==
  \A f \in Fields : \A v \in Contacts(f) \ contested : Cardinality(Holders(f, v)) <= 1

\* A user is signed in on one device, whichever way he signed in last, unless two of
\* his sign-ins overlapped or a driver came with Apple.
OneSession == \A u \in Users \ doubled : Cardinality(Rows(u)) <= 1

\* Who is blocked is signed out, and stays so, unless a request or a change of phone was
\* under way when the mark was written, a code for his phone had been asked for and not
\* lapsed by then, or his phone finds another account.
BlockedIsOut ==
  \A u \in Users \ late :
    account[u].blocked /\ {account[u].phone, account[u].email} \cap contested = {}
      => Rows(u) = {}

SessionsHold == OneSession /\ BlockedIsOut
=============================================================================
