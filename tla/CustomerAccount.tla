-------------------------- MODULE CustomerAccount --------------------------
(***************************************************************************)
(* One customer's account: how it comes to be (sign-up, onboarding by      *)
(* staff, an admin's invitation), who moves its status, and the details -  *)
(* identity, payment method, payroll - that the customer changes and staff *)
(* are to look at before money follows them.                               *)
(*                                                                         *)
(* A request checks, emits an event and answers; the listener writes in    *)
(* later calls.  So most operations are a call of several steps, and other *)
(* calls run between them.  A verification code is only there or not:      *)
(* whoever verifies has been sent it.  Passwords, reset tokens and the     *)
(* role itself are left out: nothing here asks for them.                   *)
(***************************************************************************)
EXTENDS Naturals, FiniteSets

CONSTANTS
    Callers,      \* calls in progress on the account
    MaxIds,       \* bound: ids the account has had
    MaxFaults     \* bound: calls that fail or die half way

ASSUME AccountConstants == {MaxIds, MaxFaults} \subseteq Nat

Kinds == {"identity", "payment", "payroll"}

Staff == {"SUPER_ADMIN", "ADMIN", "MARKETER"}

Channels == {"email", "contact", "both"}

VARIABLES
    account,   \* User, and which of UserIdentity, UserPaymentMethod, UserPayroll it has
    code,      \* verify:<email> is in Redis
    review,    \* history: details written since the last decision on the account
    calls,
    faults

accountVars == <<account, code, review, calls, faults>>

NoAccount == [exists |-> FALSE, id |-> 0, status |-> "INACTIVE",
              external |-> FALSE, details |-> {}]

Account ==
    [exists : BOOLEAN, id : 0..MaxIds, status : {"ACTIVE", "FLAGGED", "INACTIVE"},
     external : BOOLEAN, details : SUBSET Kinds]

\* fresh: written since.  lapsed: written and not flagged after it, since the call failed in
\* between, or a marketer's payroll record came after the account was admitted.
Decided == [fresh |-> {}, lapsed |-> {}]

Call == [at : {"idle", "create", "mail", "store", "mark", "forget", "write", "flag",
               "invite", "remove", "onboard", "payroll", "loan"},
         id : 0..MaxIds, what : Kinds \cup Staff \cup Channels \cup {"none"}, new : BOOLEAN]

Idle == [at |-> "idle", id |-> 0, what |-> "none", new |-> FALSE]

AccountInit(first) ==
    /\ account = first
    /\ code = FALSE
    /\ review = Decided
    /\ calls = [c \in Callers |-> Idle]
    /\ faults = 0

Begin(c, at, what, new) ==
    /\ calls[c] = Idle
    /\ calls' = [calls EXCEPT ![c] = [at |-> at, id |-> account.id, what |-> what, new |-> new]]

Goes(c, at) == calls' = [calls EXCEPT ![c].at = at]

Ends(c) == calls' = [calls EXCEPT ![c] = Idle]

\* The account has the id the call was made for: ids change when roles do.
Holds(c) == account.exists /\ calls[c].id = account.id

\* isValidUser, on every request with a token, and login: INACTIVE is turned away.
SignedIn == account.exists /\ account.status # "INACTIVE"

-----------------------------------------------------------------------------
(* Sign-up and verification                                                *)

\* signup: the look-up of the email and the contact.
SignUp(c, via) ==
    /\ ~account.exists
    /\ Begin(c, "create", via, TRUE)
    /\ UNCHANGED <<account, code, review, faults>>

\* signup: the account, unless another call made one meanwhile (email and contact are
\* unique); with an email, userSignUp is emitted.
CreateAccount(c) ==
    /\ calls[c].at = "create"
    /\ IF account.exists
       THEN Ends(c) /\ UNCHANGED <<account, review>>
       ELSE /\ account' = [NoAccount EXCEPT !.exists = TRUE, !.id = account.id,
                              !.status = IF calls[c].what = "email" THEN "INACTIVE" ELSE "FLAGGED"]
            /\ review' = Decided
            /\ IF calls[c].what = "contact" THEN Ends(c) ELSE Goes(c, "mail")
    /\ UNCHANGED <<code, faults>>

\* resendCode: of any account, whatever its status.
ResendCode(c) ==
    /\ account.exists
    /\ Begin(c, "mail", "none", FALSE)
    /\ UNCHANGED <<account, code, review, faults>>

\* userSignUp and userResendCode: first the mail, then the code is stored for 10 minutes.
MailCode(c) ==
    /\ calls[c].at = "mail" /\ Goes(c, "store")
    /\ UNCHANGED <<account, code, review, faults>>

StoreCode(c) ==
    /\ calls[c].at = "store" /\ code' = TRUE /\ Ends(c)
    /\ UNCHANGED <<account, review, faults>>

ExpireCode ==
    /\ code /\ code' = FALSE
    /\ UNCHANGED <<account, review, calls, faults>>

\* verifySignupCode: reads the code, sets FLAGGED whatever the status is, drops the code.
Verify(c) ==
    /\ code /\ account.exists
    /\ Begin(c, "mark", "none", FALSE)
    /\ UNCHANGED <<account, code, review, faults>>

MarkVerified(c) ==
    /\ calls[c].at = "mark" /\ Goes(c, "forget")
    /\ account' = [account EXCEPT !.status = "FLAGGED"]
    /\ UNCHANGED <<code, review, faults>>

ForgetCode(c) ==
    /\ calls[c].at = "forget" /\ code' = FALSE /\ Ends(c)
    /\ UNCHANGED <<account, review, faults>>

-----------------------------------------------------------------------------
(* Details                                                                 *)

\* A payroll record is created or updated by the external id alone.
IsThere(k) == IF k = "payroll" THEN account.external ELSE k \in account.details

\* The PPI service: one of submit and update is refused, by whether there is a record.
ChangeDetails(c, k) ==
    /\ SignedIn
    /\ Begin(c, "write", k, ~IsThere(k))
    /\ UNCHANGED <<account, code, review, faults>>

\* The record is written.  A payroll record refers to the external id, which the listener
\* gives the account only afterwards: creating one always fails.
Writable(c) ==
    LET k == calls[c].what IN
    IF calls[c].new THEN Holds(c) /\ k # "payroll" /\ k \notin account.details
    ELSE k \in account.details /\ (k = "payroll" \/ Holds(c))

\* CustomerService's listeners: the details first,
WriteDetails(c) ==
    /\ calls[c].at = "write"
    /\ IF Writable(c)
       THEN /\ account' = [account EXCEPT !.details = @ \cup {calls[c].what}]
            /\ review' = [review EXCEPT !.fresh = @ \cup {calls[c].what}]
            /\ Goes(c, "flag")
       ELSE Ends(c) /\ UNCHANGED <<account, review>>
    /\ UNCHANGED <<code, faults>>

\* Mutant: an account that staff admitted is not flagged again.
LeftAsItIs == account.status

Flagged == "FLAGGED"

\* then the account is flagged, which fails when it has another id by now.
FlagForReview(c) ==
    /\ calls[c].at = "flag" /\ Ends(c)
    /\ IF Holds(c)
       THEN account' = [account EXCEPT !.status = Flagged] /\ UNCHANGED review
       ELSE review' = [review EXCEPT !.lapsed = @ \cup {calls[c].what}] /\ UNCHANGED account
    /\ UNCHANGED <<code, faults>>

\* A call that fails or dies between two of its steps; nothing takes it up again.
CallDies(c) ==
    /\ calls[c] # Idle /\ faults < MaxFaults /\ faults' = faults + 1
    /\ Ends(c)
    /\ review' = IF calls[c].at = "flag"
                 THEN [review EXCEPT !.lapsed = @ \cup {calls[c].what}] ELSE review
    /\ UNCHANGED <<account, code>>

-----------------------------------------------------------------------------
(* What staff do                                                           *)

\* updateCustomerStatus: anyone on the staff may flag, only a super admin anything else.
UpdateStatus(by, status) ==
    /\ account.exists /\ (status # "FLAGGED" => by = "SUPER_ADMIN")
    /\ account' = [account EXCEPT !.status = status]
    /\ review' = IF status = "FLAGGED" THEN review ELSE Decided
    /\ UNCHANGED <<code, calls, faults>>

\* inviteAdmin: the account with that email is looked up,
InviteAdmin(c) ==
    /\ account.id < MaxIds
    /\ Begin(c, "invite", "none", ~account.exists)
    /\ UNCHANGED <<account, code, review, faults>>

\* and adminInvite makes it staff under a new id, or creates it.
WriteInvite(c) ==
    /\ calls[c].at = "invite" /\ Ends(c)
    /\ IF account.id < MaxIds /\ (IF calls[c].new THEN ~account.exists ELSE Holds(c))
       THEN /\ account' = [account EXCEPT !.exists = TRUE, !.id = @ + 1, !.status = "ACTIVE"]
            /\ review' = Decided
       ELSE UNCHANGED <<account, review>>
    /\ UNCHANGED <<code, faults>>

\* removeAdmin.
RemoveAdmin(c) ==
    /\ account.exists /\ account.id < MaxIds
    /\ Begin(c, "remove", "none", FALSE)
    /\ UNCHANGED <<account, code, review, faults>>

WriteRemoval(c) ==
    /\ calls[c].at = "remove" /\ Ends(c)
    /\ account' = IF account.id < MaxIds /\ Holds(c)
                  THEN [account EXCEPT !.id = @ + 1, !.status = "FLAGGED"]
                  ELSE account
    /\ UNCHANGED <<code, review, faults>>

\* addCustomer: nobody has the email, contact or external id; the answer is "onboarded".
\* What a marketer adds waits for an admin.
AddCustomer(c, by) ==
    /\ ~account.exists
    /\ Begin(c, "onboard", IF by = "MARKETER" THEN by ELSE "ADMIN", TRUE)
    /\ UNCHANGED <<account, code, review, faults>>

\* onboardCustomer: the account with its identity and payment method,
OnboardCustomer(c) ==
    /\ calls[c].at = "onboard"
    /\ IF account.exists
       THEN Ends(c) /\ UNCHANGED <<account, review>>
       ELSE /\ account' = [NoAccount EXCEPT !.exists = TRUE, !.id = account.id, !.external = TRUE,
                              !.status = IF calls[c].what = "MARKETER" THEN "FLAGGED" ELSE "ACTIVE",
                              !.details = {"identity", "payment"}]
            /\ review' = [Decided EXCEPT !.fresh = IF calls[c].what = "MARKETER"
                                                    THEN {"identity", "payment"} ELSE {}]
            /\ Goes(c, "payroll")
    /\ UNCHANGED <<code, faults>>

\* then the payroll record; the invitation is mailed, and a loan asked for if there is one.
AddPayroll(c) ==
    /\ calls[c].at = "payroll"
    /\ account' = [account EXCEPT !.details = @ \cup {"payroll"}]
    /\ review' = IF calls[c].what # "MARKETER" THEN review
                 ELSE [fresh  |-> review.fresh \cup {"payroll"},
                       lapsed |-> IF account.status = "FLAGGED" THEN review.lapsed
                                  ELSE review.lapsed \cup {"payroll"}]
    /\ Ends(c) \/ Goes(c, "loan")
    /\ UNCHANGED <<code, faults>>

-----------------------------------------------------------------------------
\* The customer's own calls.
CustomerStep(c) ==
    \/ \E via \in Channels : SignUp(c, via)
    \/ CreateAccount(c) \/ ResendCode(c) \/ MailCode(c) \/ StoreCode(c)
    \/ Verify(c) \/ MarkVerified(c) \/ ForgetCode(c)

DetailsStep(c) ==
    \/ \E k \in Kinds : ChangeDetails(c, k)
    \/ WriteDetails(c) \/ FlagForReview(c) \/ CallDies(c)

OnboardingStep(c) ==
    \/ \E by \in Staff : AddCustomer(c, by)
    \/ OnboardCustomer(c) \/ AddPayroll(c)

RolesStep(c) == InviteAdmin(c) \/ WriteInvite(c) \/ RemoveAdmin(c) \/ WriteRemoval(c)

StatusStep == \E by \in Staff, s \in {"ACTIVE", "FLAGGED", "INACTIVE"} : UpdateStatus(by, s)

AccountTypeOK ==
    /\ account \in Account
    /\ code \in BOOLEAN
    /\ review \in [fresh : SUBSET Kinds, lapsed : SUBSET Kinds]
    /\ calls \in [Callers -> Call]
    /\ faults \in 0..MaxFaults

\* Details no admin has decided on, but for those being flagged just now and those whose
\* flag a failure took.
Unreviewed ==
    (review.fresh \ review.lapsed)
      \ {calls[c].what : c \in {b \in Callers : calls[b].at = "flag"}}
=============================================================================
