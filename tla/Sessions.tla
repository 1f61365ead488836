------------------------------ MODULE Sessions ------------------------------
(***************************************************************************)
(* auth_service: accounts and refresh sessions.                            *)
(*                                                                         *)
(* A login opens a session; a refresh token is the key of one row of       *)
(* refresh_tokens and is exchanged once for the next one.  A token that    *)
(* shows up again after its exchange is in two hands, and all sessions of  *)
(* its user are revoked.  Every statement is a transaction of its own, and *)
(* goroutines interleave between statements.                               *)
(*                                                                         *)
(* Expiry has no action: an expired token is refused and nothing changes,  *)
(* so a behaviour with expiry is one in which the calls do not come.       *)
(* Goroutines share nothing but the tables, so the end of the process is   *)
(* for each of them the same as a failing statement.                       *)
(***************************************************************************)
EXTENDS Integers, Sequences

CONSTANTS Emails, Roles,
          Shipper,      \* the role of an account opened through Google
          Callers,      \* goroutines of concurrent gRPC calls
          MaxSessions,  \* bound: rows of refresh_tokens
          Faults        \* "db": a statement may fail

ASSUME SessionConstants ==
  /\ Shipper \in Roles /\ "none" \notin Roles
  /\ MaxSessions \in Nat
  /\ Faults \subseteq {"db"}

VARIABLES account,  \* table users, by their unique e-mail address
          sessions, \* table refresh_tokens, in the order of creation
          th,       \* program counter and locals of each goroutine
          cut       \* history: sessions that existed when a reuse was detected

svars == <<account, sessions, th, cut>>

NoAccount == [role |-> "none", password |-> FALSE]
Account   == [role : Roles, password : BOOLEAN]

\* A row, with its history: the session it was exchanged for (0: a login), the
\* session of the login it descends from, and whether it was revoked while its
\* token could still be exchanged.
Session == [user : Emails, used : BOOLEAN, revoked : BOOLEAN, ended : BOOLEAN,
            parent : 0..MaxSessions, login : 1..MaxSessions]
Ids == 1..Len(sessions)

Work == [pc : {"save", "google_save", "issue", "mark_used", "revoke_all"},
         user : Emails, new : Account \cup {NoAccount}, parent : 0..MaxSessions]
Idle == [pc |-> "idle"]
Task(pc, e, new, k) == [pc |-> pc, user |-> e, new |-> new, parent |-> k]

Start(t, task) == th[t] = Idle /\ th' = [th EXCEPT ![t] = task]
Goto(t, pc)    == th' = [th EXCEPT ![t].pc = pc]
Return(t)      == th' = [th EXCEPT ![t] = Idle]

DbError(t) == /\ "db" \in Faults
              /\ th[t] # Idle
              /\ Return(t)
              /\ UNCHANGED <<account, sessions, cut>>

-----------------------------------------------------------------------------
(* Accounts: looked up first, saved later.                                 *)

Register(t, e, role) ==
  /\ account[e] = NoAccount
  /\ Start(t, Task("save", e, [role |-> role, password |-> TRUE], 0))
  /\ UNCHANGED <<account, sessions, cut>>

\* Any error of the lookup, a failing statement too, is taken for a new user.
GoogleCallback(t, e) ==
  /\ \E pc \in {"google_save", "issue"} :
       /\ IF pc = "issue" THEN account[e] # NoAccount
                          ELSE account[e] = NoAccount \/ "db" \in Faults
       /\ Start(t, Task(pc, e, [role |-> Shipper, password |-> FALSE], 0))
  /\ UNCHANGED <<account, sessions, cut>>

\* (variant) an existing row of that e-mail address is replaced
SaveOver(t) ==
  LET w == th[t] IN
  /\ w.pc \in {"save", "google_save"}
  /\ account' = [account EXCEPT ![w.user] = w.new]
  /\ IF w.pc = "google_save" THEN Goto(t, "issue") ELSE Return(t)
  /\ UNCHANGED <<sessions, cut>>

\* The unique key of email refuses the second of two registrations.
Save(t) ==
  LET w == th[t] IN
  /\ w.pc \in {"save", "google_save"}
  /\ IF account[w.user] = NoAccount
       THEN /\ account' = [account EXCEPT ![w.user] = w.new]
            /\ IF w.pc = "google_save" THEN Goto(t, "issue") ELSE Return(t)
       ELSE Return(t) /\ UNCHANGED account
  /\ UNCHANGED <<sessions, cut>>

\* (variant) a failed lookup of the account does not end the call
LoginUnknown(t, e) ==
  /\ Start(t, Task("issue", e, NoAccount, 0))
  /\ UNCHANGED <<account, sessions, cut>>

Login(t, e) ==
  /\ account[e].password
  /\ Start(t, Task("issue", e, NoAccount, 0))
  /\ UNCHANGED <<account, sessions, cut>>

-----------------------------------------------------------------------------
(* Sessions.                                                               *)

\* issue: the new pair is signed and the row of its refresh token created.
Create(t) ==
  LET w  == th[t]
      id == Len(sessions) + 1 IN
  /\ w.pc = "issue"
  /\ id <= MaxSessions
  /\ sessions' = Append(sessions,
       [user |-> w.user, used |-> FALSE, revoked |-> FALSE, ended |-> FALSE,
        parent |-> w.parent,
        login |-> IF w.parent = 0 THEN id ELSE sessions[w.parent].login])
  /\ Return(t)
  /\ UNCHANGED <<account, cut>>

\* The row is read and judged here; the account is read back before MarkUsed.
RefreshToken(t, k) ==
  /\ ~sessions[k].revoked
  /\ Start(t, Task(IF sessions[k].used THEN "revoke_all" ELSE "mark_used",
                   sessions[k].user, NoAccount, k))
  /\ UNCHANGED <<account, sessions, cut>>

\* (variant) the update does not ask again whether the token is unused
MarkUsedBlindly(t) ==
  LET k == th[t].parent IN
  /\ th[t].pc = "mark_used"
  /\ IF ~sessions[k].revoked
       THEN /\ sessions' = [sessions EXCEPT ![k].used = TRUE]
            /\ Goto(t, "issue")
       ELSE Return(t) /\ UNCHANGED sessions
  /\ UNCHANGED <<account, cut>>

\* (variant) the update does not ask again whether the session is revoked
MarkUsedRevoked(t) ==
  LET k == th[t].parent IN
  /\ th[t].pc = "mark_used"
  /\ IF ~sessions[k].used
       THEN /\ sessions' = [sessions EXCEPT ![k].used = TRUE]
            /\ Goto(t, "issue")
       ELSE Return(t) /\ UNCHANGED sessions
  /\ UNCHANGED <<account, cut>>

\* The conditions of RefreshToken are asked again in the update itself.
MarkUsed(t) ==
  LET k == th[t].parent IN
  /\ th[t].pc = "mark_used"
  /\ IF ~sessions[k].used /\ ~sessions[k].revoked
       THEN /\ sessions' = [sessions EXCEPT ![k].used = TRUE]
            /\ Goto(t, "issue")
       ELSE Return(t) /\ UNCHANGED sessions
  /\ UNCHANGED <<account, cut>>

Revoked(row) == [row EXCEPT !.revoked = TRUE, !.ended = @ \/ ~row.used]

RevokeAllForUser(t) ==
  LET his == {k \in Ids : sessions[k].user = th[t].user} IN
  /\ th[t].pc = "revoke_all"
  /\ sessions' = [k \in Ids |-> IF k \in his THEN Revoked(sessions[k]) ELSE sessions[k]]
  /\ cut' = cut \cup his
  /\ Return(t)
  /\ UNCHANGED account

\* One statement, after a check of the token's signature only.
Logout(k) ==
  /\ sessions' = [sessions EXCEPT ![k] = Revoked(@)]
  /\ UNCHANGED <<account, th, cut>>

-----------------------------------------------------------------------------
Init ==
  /\ account = [e \in Emails |-> NoAccount]
  /\ sessions = <<>>
  /\ th = [t \in Callers |-> Idle]
  /\ cut = {}

Request(t) == \/ \E e \in Emails : \/ GoogleCallback(t, e) \/ Login(t, e)
                                   \/ \E role \in Roles : Register(t, e, role)
              \/ \E k \in Ids : RefreshToken(t, k)

Handler(t) == \/ Save(t) \/ Create(t) \/ MarkUsed(t) \/ RevokeAllForUser(t)
              \/ DbError(t)

Next == (\E t \in Callers : Request(t) \/ Handler(t)) \/ (\E k \in Ids : Logout(k))

Spec == Init /\ [][Next]_svars

-----------------------------------------------------------------------------
(* Properties.                                                             *)

\* Every variable has its type; a session belongs to an account (the schema has
\* no foreign key) and descends from an earlier one.
TypeOK ==
  /\ account \in [Emails -> Account \cup {NoAccount}]
  /\ sessions \in Seq(Session) /\ Len(sessions) <= MaxSessions
  /\ th \in [Callers -> Work \cup {Idle}]
  /\ \A t \in Callers : th[t] # Idle => th[t].parent \in 0..Len(sessions)
  /\ \A k \in Ids : /\ sessions[k].parent < k
                    /\ account[sessions[k].user] # NoAccount
  /\ cut \subseteq Ids

\* A login is good for one token at a time: however many refreshes race with the
\* same token, at most one token of the chain that began with a login can still
\* be exchanged (MarkUsed decides, not the earlier read).
OneTokenPerLogin ==
  \A j, k \in Ids :
    (/\ sessions[j].login = sessions[k].login
     /\ ~sessions[j].used /\ ~sessions[k].used) => j = k

\* A session revoked before its token was exchanged ends there: a refresh that
\* read the row before the logout does not carry the session on.
LogoutEnds ==
  \A k \in Ids : sessions[k].parent # 0 => ~sessions[sessions[k].parent].ended

\* An account keeps the role it was opened with: neither a concurrent
\* registration of the same address nor a Google login replaces it.
RoleIsKept ==
  [][\A e \in Emails : account[e] # NoAccount => account'[e] = account[e]]_svars

\* After a reuse was detected the user has to log in again: no usable session
\* descends from one that existed at that moment.
ReuseEndsSessions ==
  \A k \in Ids : sessions[k].parent \in cut => sessions[k].revoked
=============================================================================
