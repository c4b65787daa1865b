------------------------------- MODULE Access -------------------------------
(***************************************************************************)
(* Who is let in.  Administrators log in to the firewall's pages and       *)
(* confirm their password before destructive actions; analysts log in to   *)
(* the SOC portal, with a one-time code when they enrolled one; both share *)
(* the failure counters that lock an account or an address.  Accounts are  *)
(* changed by administrators, and second factors by analysts, while other  *)
(* logins are half way.                                                    *)
(***************************************************************************)
EXTENDS Naturals, FiniteSets

CONSTANTS
    Browsers,    \* sessions
    Admins,      \* superuser accounts
    Members,     \* the other accounts; an account is a row id, never used again
    Analysts,    \* accounts that try the SOC portal
    Secrets,     \* one-time password secrets
    UserLimit,   \* failures that lock an account
    IpLimit      \* failures that lock the address the browsers share

ASSUME AccessAssumption ==
    /\ Admins \cap Members = {} /\ Analysts \subseteq Admins \cup Members
    /\ {UserLimit, IpLimit} \subseteq Nat \ {0}
    /\ "" \notin Secrets

Accounts == Admins \cup Members

VARIABLES
    users,       \* the users table; tier is what get_user_soc_tier finds
    sess,        \* the session of each browser
    fails,       \* login_failures of each account within the window
    ipFails,     \* and of the address
    proof        \* history: what the SOC login of each browser has shown

accessVars == <<users, sess, fails, ipFails, proof>>

Nobody == "nobody"
NoSession == [admin |-> Nobody, reauth |-> FALSE, soc |-> Nobody, pending |-> Nobody,
              overdue |-> FALSE, enroll |-> ""]
NoProof == [needed |-> FALSE, password |-> FALSE, code |-> FALSE]

Exists(u) == users[u].status \in {"active", "inactive"}
Valid(u) == users[u].status = "active"

UserLocked(u) == fails[u] >= UserLimit
IpLocked == ipFails >= IpLimit

Capped(n, limit) == IF n < limit THEN n + 1 ELSE n

\* _record_failure and the same insert in the admin pages: one row for the
\* account and the address.  Addresses on the pass list are not counted.
RecordFailure(u) ==
    /\ fails' = [fails EXCEPT ![u] = Capped(@, UserLimit)]
    /\ ipFails' = Capped(ipFails, IpLimit)

ClearFailures(u) ==
    /\ fails' = [fails EXCEPT ![u] = 0]
    /\ ipFails' = 0

CountersUnchanged == UNCHANGED <<fails, ipFails>>
-----------------------------------------------------------------------------
\* login of the admin pages; a locked account or address is turned away before
\* the password is looked at.
AdminLogin(b, u, right, listed) ==
    /\ listed \/ ~(IpLocked \/ UserLocked(u))
    /\ IF Valid(u) /\ right
       THEN sess' = [sess EXCEPT ![b].admin = u] /\ ClearFailures(u)
       ELSE /\ UNCHANGED sess
            /\ IF listed THEN CountersUnchanged ELSE RecordFailure(u)
    /\ UNCHANGED <<users, proof>>

\* logout of the admin pages clears the whole session, the SOC login included.
AdminLogout(b) ==
    /\ sess[b].admin # Nobody
    /\ sess' = [sess EXCEPT ![b] = NoSession]
    /\ proof' = [proof EXCEPT ![b] = NoProof]
    /\ UNCHANGED <<users, fails, ipFails>>

\* reauth: while the account is locked and its last failure is recent, the session
\* loses the confirmation it had.
Reauth(b, right, recent) ==
    /\ sess[b].admin # Nobody
    /\ LET u == sess[b].admin
           locked == UserLocked(u) /\ recent
       IN  /\ Exists(u)
           /\ sess' = [sess EXCEPT ![b].reauth = IF locked THEN FALSE ELSE @ \/ right]
           /\ IF locked \/ right THEN CountersUnchanged ELSE RecordFailure(u)
    /\ UNCHANGED <<users, proof>>

\* Five minutes later.
ReauthStale(b) ==
    /\ sess[b].reauth
    /\ sess' = [sess EXCEPT ![b].reauth = FALSE]
    /\ UNCHANGED <<users, fails, ipFails, proof>>

\* login_required and superuser_required read the account again at every request;
\* the session of an account that is gone is cleared.
Superuser(b) == sess[b].admin \in Admins /\ Exists(sess[b].admin)

SessionDropped(b) ==
    /\ sess[b].admin # Nobody /\ ~Exists(sess[b].admin)
    /\ sess' = [sess EXCEPT ![b] = NoSession]
    /\ proof' = [proof EXCEPT ![b] = NoProof]
    /\ UNCHANGED <<users, fails, ipFails>>

NewUser == [status |-> "active", tier |-> FALSE, secret |-> ""]

\* add_user, in a group or in none.
AddUser(b, u, tier) ==
    /\ Superuser(b) /\ users[u].status = "absent"
    /\ users' = [users EXCEPT ![u] = [NewUser EXCEPT !.tier = tier]]
    /\ UNCHANGED <<sess, fails, ipFails, proof>>

\* soc_portal_add_user gives the new account a tier.
SocPortalAddUser(b, u) == AddUser(b, u, TRUE)

\* delete_user refuses one's own account and superusers.
DeleteUser(b, u) ==
    /\ Superuser(b) /\ sess[b].admin # u /\ u \notin Admins
    /\ users' = [users EXCEPT ![u] = [NewUser EXCEPT !.status = "deleted"]]
    /\ UNCHANGED <<sess, fails, ipFails, proof>>

\* edit_user: the status, and the one group the account is in from then on.  The
\* second factor is not touched.
EditUser(b, u, status, tier) ==
    /\ Superuser(b) /\ Exists(u)
    /\ users' = [users EXCEPT ![u].status = status, ![u].tier = tier]
    /\ UNCHANGED <<sess, fails, ipFails, proof>>

\* add_group_member; remove_group_member and delete_group.
GroupTier(b, u, tier) ==
    /\ Superuser(b) /\ Exists(u)
    /\ users' = [users EXCEPT ![u].tier = tier]
    /\ UNCHANGED <<sess, fails, ipFails, proof>>

AddGroupMember(b, u) == GroupTier(b, u, TRUE)
RemoveGroupMember(b, u) == GroupTier(b, u, FALSE)
-----------------------------------------------------------------------------
\* get_user_soc_tier: superusers always have one.
HasTier(u) == Exists(u) /\ (u \in Admins \/ users[u].tier)

\* user_has_mfa; any exception of the lookup counts as no.
UserHasMfa(u, found) == found /\ users[u].secret # ""

\* login of the portal: bad credentials and a missing tier count as failures, a
\* second factor, if the lookup found it, puts the session off.
SocLogin(b, u, right, listed, found) ==
    /\ sess[b].soc = Nobody
    /\ listed \/ ~(IpLocked \/ UserLocked(u))
    /\ IF ~(Valid(u) /\ right) \/ ~HasTier(u)
       THEN /\ IF listed THEN CountersUnchanged ELSE RecordFailure(u)
            /\ UNCHANGED <<sess, proof>>
       ELSE /\ proof' = [proof EXCEPT ![b] = [needed |-> found /\ users[u].secret # "",
                                              password |-> TRUE, code |-> FALSE]]
            /\ IF UserHasMfa(u, found)
               THEN /\ sess' = [sess EXCEPT ![b].pending = u, ![b].overdue = FALSE]
                    /\ CountersUnchanged
               ELSE /\ sess' = [sess EXCEPT ![b].soc = u]
                    /\ ClearFailures(u)
    /\ UNCHANGED users

\* Mutant: no code is asked of an account without a secret.
VerifyTotpEmpty(secret, code) == code = secret

\* verify: without a secret or a code, nothing is right.
VerifyTotp(secret, code) == secret # "" /\ code = secret

\* login_mfa: a pending login that is overdue starts over; a wrong code counts,
\* and one that locks the account ends the pending login.
LoginMfa(b, code) ==
    /\ sess[b].pending # Nobody
    /\ LET u == sess[b].pending
       IN  \/ /\ sess[b].overdue
              /\ sess' = [sess EXCEPT ![b].pending = Nobody, ![b].overdue = FALSE]
              /\ UNCHANGED proof
              /\ CountersUnchanged
           \/ /\ ~sess[b].overdue /\ VerifyTotp(users[u].secret, code)
              /\ sess' = [sess EXCEPT ![b].soc = u, ![b].pending = Nobody]
              /\ proof' = [proof EXCEPT ![b].code = code # "" /\ code = users[u].secret]
              /\ ClearFailures(u)
           \/ /\ ~sess[b].overdue /\ ~VerifyTotp(users[u].secret, code)
              /\ RecordFailure(u)
              /\ sess' = IF fails'[u] >= UserLimit
                         THEN [sess EXCEPT ![b].pending = Nobody] ELSE sess
              /\ UNCHANGED proof
    /\ UNCHANGED users

PendingOverdue(b) ==
    /\ sess[b].pending # Nobody
    /\ sess' = [sess EXCEPT ![b].overdue = TRUE]
    /\ UNCHANGED <<users, fails, ipFails, proof>>

\* logout of the portal; an administrator's session stays.
SocLogout(b) ==
    /\ sess[b].soc # Nobody
    /\ sess' = [sess EXCEPT ![b] = [NoSession EXCEPT !.admin = sess[b].admin,
                                                     !.reauth = sess[b].reauth]]
    /\ proof' = [proof EXCEPT ![b] = NoProof]
    /\ UNCHANGED <<users, fails, ipFails>>

\* security_enroll: the page makes a secret, a code of it turns it on, also in the
\* place of one the lookup did not find.
EnrollBegin(b, secret, found) ==
    /\ sess[b].soc # Nobody /\ ~UserHasMfa(sess[b].soc, found) /\ sess[b].enroll = ""
    /\ sess' = [sess EXCEPT ![b].enroll = secret]
    /\ UNCHANGED <<users, fails, ipFails, proof>>

EnrollVerify(b, found) ==
    /\ sess[b].soc # Nobody /\ ~UserHasMfa(sess[b].soc, found) /\ sess[b].enroll # ""
    /\ users' = IF Exists(sess[b].soc)
                THEN [users EXCEPT ![sess[b].soc].secret = sess[b].enroll] ELSE users
    /\ sess' = [sess EXCEPT ![b].enroll = ""]
    /\ UNCHANGED <<fails, ipFails, proof>>

\* security_disable asks for the password and a code.
SecurityDisable(b, code) ==
    /\ sess[b].soc # Nobody /\ Exists(sess[b].soc)
    /\ VerifyTotp(users[sess[b].soc].secret, code)
    /\ users' = [users EXCEPT ![sess[b].soc].secret = ""]
    /\ UNCHANGED <<sess, fails, ipFails, proof>>

\* The window of the counters passes.
WindowPasses ==
    /\ fails' = [u \in Accounts |-> 0] /\ ipFails' = 0
    /\ UNCHANGED <<users, sess, proof>>

\* The block of an address is over before its failures are forgotten: one more
\* attempt is let through.
BlockTimePasses ==
    /\ IpLocked
    /\ ipFails' = IpLimit - 1
    /\ UNCHANGED <<users, sess, fails, proof>>
-----------------------------------------------------------------------------
AccessInit ==
    /\ users \in [Accounts -> {NewUser, [NewUser EXCEPT !.status = "absent"]}]
    /\ \A u \in Admins : Exists(u)
    /\ sess = [b \in Browsers |-> NoSession]
    /\ fails = [u \in Accounts |-> 0] /\ ipFails = 0
    /\ proof = [b \in Browsers |-> NoProof]

Codes == Secrets \cup {"", "wrong"}

AccessNext ==
    \/ \E b \in Browsers :
          \/ \E right, listed \in BOOLEAN :
                \/ \E u \in Analysts, found \in BOOLEAN : SocLogin(b, u, right, listed, found)
                \/ \E u \in Accounts : AdminLogin(b, u, right, listed)
          \/ AdminLogout(b) \/ ReauthStale(b) \/ SessionDropped(b)
          \/ \E right, recent \in BOOLEAN : Reauth(b, right, recent)
          \/ \E u \in Members :
                \/ AddUser(b, u, FALSE) \/ SocPortalAddUser(b, u) \/ DeleteUser(b, u)
                \/ AddGroupMember(b, u) \/ RemoveGroupMember(b, u)
                \/ \E status \in {"active", "inactive"}, tier \in BOOLEAN :
                      EditUser(b, u, status, tier)
          \/ \E code \in Codes : LoginMfa(b, code) \/ SecurityDisable(b, code)
          \/ PendingOverdue(b) \/ SocLogout(b)
          \/ \E found \in BOOLEAN :
                EnrollVerify(b, found) \/ \E secret \in Secrets : EnrollBegin(b, secret, found)
    \/ WindowPasses \/ BlockTimePasses

\* A SOC session is earned: whatever other sessions enrolled, disabled, replaced,
\* locked or let lapse meanwhile, its account gave the password in this browser and,
\* if it had a second factor at that moment and user_has_mfa could look it up, a right
\* code since.  When the lookup raises, the code lets the password do alone.
SecondFactor ==
    \A b \in Browsers : sess[b].soc # Nobody =>
        proof[b].password /\ (proof[b].needed => proof[b].code)
=============================================================================
