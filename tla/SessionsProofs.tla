--------------------------- MODULE SessionsProofs ---------------------------
(* Proofs about Sessions: a login is good for one token at a time, and a   *)
(* logout ends its session, for any number of concurrent refreshes.        *)
EXTENDS Sessions, TLAPS

(* What is in flight: a goroutine about to issue a token has spent the     *)
(* last unused token of its login, and is alone in that.                   *)
Exchanging(t) == th[t].pc = "issue" /\ th[t].parent # 0
LoginOf(t) == sessions[th[t].parent].login

TasksOK ==
  \A t \in Callers :
    /\ th[t].pc \in {"issue", "mark_used", "revoke_all"} =>
         account[th[t].user] # NoAccount
    /\ th[t].pc \in {"mark_used", "revoke_all"} => th[t].parent # 0
    /\ th[t].pc \in {"save", "google_save"} =>
         th[t].parent = 0 /\ th[t].new # NoAccount

ChainsOK ==
  \A k \in Ids : /\ sessions[k].login <= k
                 /\ sessions[k].parent # 0 => sessions[sessions[k].parent].used

EndedOK ==
  \A k \in Ids : sessions[k].ended => sessions[k].revoked /\ ~sessions[k].used

Spent ==
  /\ \A t \in Callers : Exchanging(t) =>
       /\ sessions[th[t].parent].used
       /\ \A k \in Ids : sessions[k].login = LoginOf(t) => sessions[k].used
  /\ \A s, t \in Callers :
       Exchanging(s) /\ Exchanging(t) /\ LoginOf(s) = LoginOf(t) => s = t

SessionInv == TypeOK /\ TasksOK /\ ChainsOK /\ EndedOK /\ Spent /\ OneTokenPerLogin

LEMMA RowOK ==
  ASSUME TypeOK, NEW k \in Ids
  PROVE  /\ k \in Nat /\ Len(sessions) \in Nat
         /\ sessions[k] \in Session
         /\ sessions[k].user \in Emails
         /\ sessions[k].used \in BOOLEAN
         /\ sessions[k].parent \in 0..Len(sessions)
         /\ sessions[k].parent # 0 => sessions[k].parent \in Ids
<1>1. sessions \in Seq(Session) /\ Len(sessions) \in Nat /\ sessions[k].parent < k
  BY DEF TypeOK
<1>2. k \in 1..Len(sessions) /\ sessions[k] \in Session
  BY <1>1 DEF Ids
<1>3. /\ sessions[k].user \in Emails /\ sessions[k].used \in BOOLEAN
      /\ sessions[k].parent \in Nat
  BY <1>2, SessionConstants DEF Session
<1>4. QED
  BY <1>1, <1>2, <1>3 DEF Ids

LEMMA InitSession == Init => SessionInv
BY SessionConstants DEF Init, SessionInv, TypeOK, TasksOK, ChainsOK, EndedOK, Spent, Ids,
   OneTokenPerLogin, Exchanging, Idle, Work, Session

Sound(w) ==
  /\ w # Idle => w.parent \in 0..Len(sessions)
  /\ w.pc \in {"issue", "mark_used", "revoke_all"} => account'[w.user] # NoAccount
  /\ w.pc \in {"mark_used", "revoke_all"} => w.parent # 0
  /\ w.pc \in {"save", "google_save"} => w.parent = 0 /\ w.new # NoAccount
  /\ w.pc = "issue" => w.parent = 0

(* A goroutine that turns to anything but issuing a token in exchange      *)
(* leaves the sessions as they are.                                        *)
LEMMA OtherTask ==
  ASSUME SessionInv, NEW t \in Callers, NEW w \in Work \cup {Idle},
         th' = [th EXCEPT ![t] = w], UNCHANGED <<sessions, cut>>,
         account' \in [Emails -> Account \cup {NoAccount}],
         \A e \in Emails : account[e] # NoAccount => account'[e] # NoAccount,
         Sound(w)
  PROVE  SessionInv'
<1>1. TypeOK'
  <2>1. th' \in [Callers -> Work \cup {Idle}]
    BY DEF SessionInv, TypeOK
  <2>2. \A s \in Callers : th'[s] # Idle => th'[s].parent \in 0..Len(sessions)
    BY DEF SessionInv, TypeOK, Sound
  <2>3. \A k \in Ids : account'[sessions[k].user] # NoAccount
    BY RowOK DEF SessionInv, TypeOK
  <2>4. QED
    BY <2>1, <2>2, <2>3 DEF SessionInv, TypeOK, Ids
<1>2. TasksOK'
  <2> SUFFICES ASSUME NEW s \in Callers
               PROVE  /\ th'[s].pc \in {"issue", "mark_used", "revoke_all"} =>
                           account'[th'[s].user] # NoAccount
                      /\ th'[s].pc \in {"mark_used", "revoke_all"} => th'[s].parent # 0
                      /\ th'[s].pc \in {"save", "google_save"} =>
                           th'[s].parent = 0 /\ th'[s].new # NoAccount
    BY DEF TasksOK
  <2>1. th[s] \in Work \cup {Idle} /\ th'[s] = IF s = t THEN w ELSE th[s]
    BY DEF SessionInv, TypeOK
  <2>2. th[s].pc \in {"issue", "mark_used", "revoke_all"} => th[s].user \in Emails
    BY <2>1 DEF Work, Idle
  <2>3. QED
    BY <2>1, <2>2 DEF SessionInv, TasksOK, Sound
<1>3. ChainsOK' /\ EndedOK' /\ OneTokenPerLogin'
  BY DEF SessionInv, ChainsOK, EndedOK, OneTokenPerLogin, Ids
<1>4. Spent'
  <2>1. \A s \in Callers : Exchanging(s)' =>
          s # t /\ Exchanging(s) /\ LoginOf(s)' = LoginOf(s) /\ th'[s] = th[s]
    BY DEF SessionInv, TypeOK, Exchanging, LoginOf, Sound
  <2>2. QED
    BY <2>1 DEF SessionInv, Spent, Ids
<1>5. QED
  BY <1>1, <1>2, <1>3, <1>4 DEF SessionInv

(* Revoking sessions touches neither their chains nor what is in flight.   *)
LEMMA Revoking ==
  ASSUME SessionInv, UNCHANGED account, cut' \in SUBSET Ids,
         th' \in [Callers -> Work \cup {Idle}],
         \A t \in Callers : th'[t] = th[t] \/ th'[t] = Idle,
         sessions' \in Seq(Session), Len(sessions') = Len(sessions),
         \A k \in Ids : /\ sessions'[k].user = sessions[k].user
                        /\ sessions'[k].used <=> sessions[k].used
                        /\ sessions'[k].parent = sessions[k].parent
                        /\ sessions'[k].login = sessions[k].login
                        /\ sessions'[k].ended => sessions'[k].revoked /\ ~sessions[k].used
  PROVE  SessionInv'
<1>1. Ids' = Ids
  BY DEF Ids
<1>2. TypeOK'
  BY <1>1 DEF SessionInv, TypeOK
<1>3. TasksOK'
  BY DEF SessionInv, TasksOK, Idle
<1>4. \A k \in Ids : sessions[k].parent # 0 => sessions[k].parent \in Ids
  BY RowOK DEF SessionInv
<1>5. ChainsOK'
  BY <1>1, <1>4 DEF SessionInv, ChainsOK
<1>6. OneTokenPerLogin' /\ EndedOK'
  BY <1>1 DEF SessionInv, OneTokenPerLogin, EndedOK
<1>7. \A t \in Callers : Exchanging(t)' =>
        /\ Exchanging(t) /\ th'[t] = th[t] /\ th[t].parent \in Ids
        /\ LoginOf(t)' = LoginOf(t)
  <2> SUFFICES ASSUME NEW t \in Callers, Exchanging(t)'
               PROVE  /\ Exchanging(t) /\ th'[t] = th[t] /\ th[t].parent \in Ids
                      /\ LoginOf(t)' = LoginOf(t)
    OBVIOUS
  <2>1. Exchanging(t) /\ th'[t] = th[t] /\ th[t] # Idle
    BY DEF Exchanging, Idle
  <2>2. th[t].parent \in Ids
    BY <2>1 DEF SessionInv, TypeOK, Exchanging, Ids
  <2>3. QED
    BY <2>1, <2>2 DEF LoginOf
<1>8. Spent'
  BY <1>1, <1>7 DEF SessionInv, Spent
<1>9. QED
  BY <1>2, <1>3, <1>5, <1>6, <1>8 DEF SessionInv

LEMMA RevokedRow ==
  ASSUME SessionInv, NEW k \in Ids
  PROVE  /\ Revoked(sessions[k]) \in Session
         /\ Revoked(sessions[k]).user = sessions[k].user
         /\ Revoked(sessions[k]).used <=> sessions[k].used
         /\ Revoked(sessions[k]).parent = sessions[k].parent
         /\ Revoked(sessions[k]).login = sessions[k].login
         /\ Revoked(sessions[k]).ended => Revoked(sessions[k]).revoked /\ ~sessions[k].used
<1>1. sessions[k] \in Session /\ (sessions[k].ended => ~sessions[k].used)
  BY RowOK DEF SessionInv, EndedOK
<1>2. QED
  BY <1>1 DEF Session, Revoked

(* The new token is the only unused one of its login.                      *)
LEMMA Creating == ASSUME SessionInv, NEW t \in Callers, Create(t) PROVE SessionInv'
<1> DEFINE w == th[t]
           id == Len(sessions) + 1
           row == [user |-> w.user, used |-> FALSE, revoked |-> FALSE,
                   ended |-> FALSE, parent |-> w.parent,
                   login |-> IF w.parent = 0 THEN id ELSE sessions[w.parent].login]
<1>0. /\ sessions \in Seq(Session) /\ Len(sessions) \in Nat /\ id \in 1..MaxSessions
      /\ w \in Work /\ w.parent \in 0..Len(sessions)
      /\ \A k \in Ids : sessions[k] \in Session
  BY SessionConstants DEF SessionInv, TypeOK, Ids, Create, Idle
<1>1. /\ sessions' = Append(sessions, row) /\ Ids' = Ids \cup {id}
      /\ Len(sessions') = id
      /\ sessions'[id] = row /\ \A k \in Ids : sessions'[k] = sessions[k]
  BY <1>0 DEF Create, Ids
<1>2. row \in Session
  BY <1>0 DEF Session, Work, Ids
<1>3. th' = [th EXCEPT ![t] = Idle] /\ UNCHANGED <<account, cut>>
  BY DEF Create, Return
<1>4. \A s \in Callers : th'[s] = IF s = t THEN Idle ELSE th[s]
  BY <1>3 DEF SessionInv, TypeOK
<1>5. \A k \in Ids : /\ sessions[k].parent \in 0..Len(sessions)
                     /\ sessions[k].parent # 0 => sessions[k].parent \in Ids
                     /\ sessions[k].login \in Ids
  BY <1>0 DEF SessionInv, TypeOK, ChainsOK, Session, Ids
<1>6. TypeOK'
  <2>1. sessions' \in Seq(Session)
    BY <1>0, <1>1, <1>2
  <2>2. account[w.user] # NoAccount
    BY DEF SessionInv, TasksOK, Create
  <2>3. \A k \in Ids' : sessions'[k].parent < k /\ account'[sessions'[k].user] # NoAccount
    <3>1. row.parent < id /\ account[row.user] # NoAccount
      BY <1>0, <2>2
    <3>2. \A k \in Ids : sessions[k].parent < k /\ account[sessions[k].user] # NoAccount
      BY DEF SessionInv, TypeOK
    <3> HIDE DEF row
    <3>3. QED
      BY <1>1, <1>3, <3>1, <3>2
  <2>4. th' \in [Callers -> Work \cup {Idle}]
    BY <1>3 DEF SessionInv, TypeOK
  <2>5. \A s \in Callers : th'[s] # Idle => th'[s].parent \in 0..Len(sessions')
    BY <1>0, <1>1, <1>4 DEF SessionInv, TypeOK
  <2>6. account' \in [Emails -> Account \cup {NoAccount}] /\ cut' \subseteq Ids'
    BY <1>1, <1>3 DEF SessionInv, TypeOK
  <2>7. Len(sessions') <= MaxSessions
    BY <1>0, <1>1, SessionConstants
  <2> HIDE DEF row
  <2>8. QED
    BY <2>1, <2>3, <2>4, <2>5, <2>6, <2>7 DEF TypeOK
<1>7. TasksOK'
  BY <1>3, <1>4 DEF SessionInv, TasksOK, Idle
<1>8. w.parent # 0 =>
        /\ w.parent \in Ids /\ sessions[w.parent].used /\ row.login = LoginOf(t)
        /\ \A k \in Ids : sessions[k].login = row.login => sessions[k].used
  BY <1>0 DEF SessionInv, Spent, Exchanging, LoginOf, Create, Ids
<1>9. ChainsOK' /\ EndedOK'
  <2>1. ChainsOK'
    BY <1>0, <1>1, <1>5, <1>8 DEF SessionInv, ChainsOK, Ids
  <2>2. EndedOK'
    <3>1. ~row.ended
      OBVIOUS
    <3> HIDE DEF row
    <3>2. \A k \in Ids' : sessions'[k].ended =>
             sessions'[k].revoked /\ ~sessions'[k].used
      BY <1>1, <3>1 DEF SessionInv, EndedOK
    <3>3. QED
      BY <3>2 DEF EndedOK
  <2>3. QED
    BY <2>1, <2>2
<1>10. \A s \in Callers : Exchanging(s)' =>
         /\ s # t /\ Exchanging(s) /\ th'[s] = th[s] /\ th[s].parent \in Ids
         /\ LoginOf(s)' = LoginOf(s) /\ LoginOf(s) # row.login
  <2> SUFFICES ASSUME NEW s \in Callers, Exchanging(s)'
               PROVE  /\ s # t /\ Exchanging(s) /\ th'[s] = th[s] /\ th[s].parent \in Ids
                      /\ LoginOf(s)' = LoginOf(s) /\ LoginOf(s) # row.login
    OBVIOUS
  <2>1. s # t /\ Exchanging(s) /\ th'[s] = th[s]
    BY <1>4 DEF Exchanging, Idle
  <2>2. th[s].parent \in Ids
    BY <1>0, <2>1 DEF SessionInv, TypeOK, Exchanging, Idle, Ids
  <2>3. LoginOf(s)' = LoginOf(s)
    BY <1>1, <2>1, <2>2 DEF LoginOf
  <2>4. CASE w.parent = 0
    BY <1>0, <1>5, <2>1, <2>2, <2>3, <2>4 DEF LoginOf, Ids
  <2>5. CASE w.parent # 0
    BY <1>8, <2>1, <2>2, <2>3, <2>5 DEF SessionInv, Spent, Exchanging, Create
  <2>6. QED
    BY <2>1, <2>2, <2>3, <2>4, <2>5
<1>11. Spent'
  <2> HIDE DEF row
  <2>1. \A s \in Callers : Exchanging(s)' =>
          /\ sessions'[th'[s].parent].used
          /\ \A k \in Ids' : sessions'[k].login = LoginOf(s)' => sessions'[k].used
    <3> SUFFICES ASSUME NEW s \in Callers, Exchanging(s)'
                 PROVE  /\ sessions'[th'[s].parent].used
                        /\ \A k \in Ids' : sessions'[k].login = LoginOf(s)' => sessions'[k].used
      OBVIOUS
    <3>1. /\ sessions[th[s].parent].used
          /\ \A k \in Ids : sessions[k].login = LoginOf(s) => sessions[k].used
      BY <1>10 DEF SessionInv, Spent
    <3>2. QED
      BY <1>1, <1>10, <3>1
  <2>2. \A r, s \in Callers :
          Exchanging(r)' /\ Exchanging(s)' /\ LoginOf(r)' = LoginOf(s)' => r = s
    BY <1>10 DEF SessionInv, Spent
  <2>3. QED
    BY <2>1, <2>2 DEF Spent
<1>12. \A k \in Ids : sessions[k].login = row.login => sessions[k].used
  <2>1. CASE w.parent = 0
    BY <1>0, <1>5, <2>1 DEF Ids
  <2>2. CASE w.parent # 0
    BY <1>8, <2>2
  <2>3. QED
    BY <2>1, <2>2
<1>13. OneTokenPerLogin'
  <2> HIDE DEF row
  <2> SUFFICES ASSUME NEW j \in Ids', NEW k \in Ids',
                      sessions'[j].login = sessions'[k].login,
                      ~sessions'[j].used, ~sessions'[k].used
               PROVE  j = k
    BY DEF OneTokenPerLogin
  <2>1. CASE j \in Ids /\ k \in Ids
    BY <1>1, <2>1 DEF SessionInv, OneTokenPerLogin
  <2>2. QED
    BY <1>1, <1>12, <2>1
<1>14. QED
  BY <1>6, <1>7, <1>9, <1>11, <1>13 DEF SessionInv

(* The one goroutine whose update finds the token unused spends the last   *)
(* unused token of the login.                                              *)
LEMMA Marking ==
  ASSUME SessionInv, NEW t \in Callers, th[t].pc = "mark_used",
         ~sessions[th[t].parent].used, ~sessions[th[t].parent].revoked,
         sessions' = [sessions EXCEPT ![th[t].parent].used = TRUE],
         Goto(t, "issue"), UNCHANGED <<account, cut>>
  PROVE  SessionInv'
<1> DEFINE p == th[t].parent
<1>0. /\ sessions \in Seq(Session) /\ Len(sessions) \in Nat
      /\ th[t] \in Work /\ p \in Ids
      /\ \A k \in Ids : sessions[k] \in Session
  BY DEF SessionInv, TypeOK, TasksOK, Ids, Idle, Work
<1>1. /\ sessions' \in Seq(Session) /\ Len(sessions') = Len(sessions) /\ Ids' = Ids
  <2>1. [sessions[p] EXCEPT !.used = TRUE] \in Session
    BY <1>0 DEF Session
  <2>2. QED
    BY <1>0, <2>1 DEF Ids
<1>2. \A k \in Ids : /\ sessions'[k].user = sessions[k].user
                     /\ sessions'[k].used <=> (sessions[k].used \/ k = p)
                     /\ sessions'[k].parent = sessions[k].parent
                     /\ sessions'[k].login = sessions[k].login
                     /\ sessions'[k].revoked <=> sessions[k].revoked
                     /\ sessions'[k].ended <=> sessions[k].ended
  <2> TAKE k \in Ids
  <2>1. sessions'[k] = IF k = p THEN [sessions[p] EXCEPT !.used = TRUE] ELSE sessions[k]
    BY <1>0 DEF Ids
  <2>2. QED
    BY <1>0, <2>1 DEF Session
<1>3. \A s \in Callers : th'[s] = IF s = t THEN [th[t] EXCEPT !.pc = "issue"] ELSE th[s]
  BY DEF SessionInv, TypeOK, Goto
<1>4. /\ th'[t].pc = "issue" /\ th'[t].parent = p /\ th'[t].user = th[t].user
      /\ th'[t] \in Work
  BY <1>0, <1>3 DEF Work
<1>5. TypeOK'
  <2>1. th' \in [Callers -> Work \cup {Idle}]
    BY <1>0 DEF SessionInv, TypeOK, Goto, Work
  <2>2. \A s \in Callers : th'[s] # Idle => th'[s].parent \in 0..Len(sessions')
    BY <1>0, <1>1, <1>3, <1>4 DEF SessionInv, TypeOK, Ids
  <2>3. QED
    BY <1>1, <1>2, <2>1, <2>2 DEF SessionInv, TypeOK
<1>6. TasksOK'
  BY <1>3, <1>4 DEF SessionInv, TasksOK
<1>7. ChainsOK' /\ EndedOK' /\ OneTokenPerLogin'
  <2>1. \A k \in Ids : sessions[k].parent # 0 => sessions[k].parent \in Ids
    BY RowOK DEF SessionInv
  <2>2. ChainsOK'
    <3> SUFFICES ASSUME NEW k \in Ids
                 PROVE  /\ sessions'[k].login <= k
                        /\ sessions'[k].parent # 0 => sessions'[sessions'[k].parent].used
      BY <1>1 DEF ChainsOK
    <3>1. sessions[k].login <= k /\ (sessions[k].parent # 0 => sessions[sessions[k].parent].used)
      BY DEF SessionInv, ChainsOK
    <3>2. sessions'[k].parent = sessions[k].parent /\ sessions'[k].login = sessions[k].login
      BY <1>2
    <3>3. \A j \in Ids : sessions[j].used => sessions'[j].used
      BY <1>2
    <3>4. QED
      BY <2>1, <3>1, <3>2, <3>3
  <2>3. OneTokenPerLogin'
    BY <1>1, <1>2 DEF SessionInv, OneTokenPerLogin
  <2>4. EndedOK'
    BY <1>1, <1>2 DEF SessionInv, EndedOK
  <2>5. QED
    BY <2>2, <2>3, <2>4
<1>8. \A k \in Ids : sessions[k].login = sessions[p].login => sessions'[k].used
  BY <1>0, <1>2 DEF SessionInv, OneTokenPerLogin
<1>9. Exchanging(t)' /\ LoginOf(t)' = sessions[p].login
  BY <1>0, <1>2, <1>4 DEF Exchanging, LoginOf, Ids
<1>10. \A s \in Callers \ {t} : Exchanging(s)' =>
         /\ Exchanging(s) /\ th'[s] = th[s] /\ th[s].parent \in Ids
         /\ LoginOf(s)' = LoginOf(s) /\ LoginOf(s) # sessions[p].login
  <2> SUFFICES ASSUME NEW s \in Callers \ {t}, Exchanging(s)'
               PROVE  /\ Exchanging(s) /\ th'[s] = th[s] /\ th[s].parent \in Ids
                      /\ LoginOf(s)' = LoginOf(s) /\ LoginOf(s) # sessions[p].login
    OBVIOUS
  <2>1. Exchanging(s) /\ th'[s] = th[s]
    BY <1>3 DEF Exchanging
  <2>2. th[s].parent \in Ids
    BY <1>0, <2>1 DEF SessionInv, TypeOK, Exchanging, Idle, Ids
  <2>3. QED
    BY <1>0, <1>2, <2>1, <2>2 DEF SessionInv, Spent, LoginOf
<1>11. Spent'
  <2>1. \A s \in Callers : Exchanging(s)' =>
          /\ sessions'[th'[s].parent].used
          /\ \A k \in Ids' : sessions'[k].login = LoginOf(s)' => sessions'[k].used
    <3> SUFFICES ASSUME NEW s \in Callers, Exchanging(s)'
                 PROVE  /\ sessions'[th'[s].parent].used
                        /\ \A k \in Ids' : sessions'[k].login = LoginOf(s)' => sessions'[k].used
      OBVIOUS
    <3>1. CASE s = t
      BY <1>0, <1>1, <1>2, <1>4, <1>8, <1>9, <3>1
    <3>2. CASE s # t
      BY <1>1, <1>2, <1>10, <3>2 DEF SessionInv, Spent
    <3>3. QED
      BY <3>1, <3>2
  <2>2. \A r, s \in Callers :
          Exchanging(r)' /\ Exchanging(s)' /\ LoginOf(r)' = LoginOf(s)' => r = s
    BY <1>9, <1>10 DEF SessionInv, Spent
  <2>3. QED
    BY <2>1, <2>2 DEF Spent
<1>12. QED
  BY <1>5, <1>6, <1>7, <1>11 DEF SessionInv

LEMMA NextSession == SessionInv /\ [Next]_svars => SessionInv'
<1> SUFFICES ASSUME SessionInv, [Next]_svars PROVE SessionInv'
  OBVIOUS
<1>0. /\ account \in [Emails -> Account \cup {NoAccount}]
      /\ \A s \in Callers : th[s] \in Work \cup {Idle}
      /\ Idle \in Work \cup {Idle} /\ Sound(Idle)
  BY DEF SessionInv, TypeOK, Sound, Idle
<1>1. ASSUME NEW t \in Callers, NEW e \in Emails, GoogleCallback(t, e) PROVE SessionInv'
  <2>0. PICK pc \in {"google_save", "issue"} :
          /\ pc = "issue" => account[e] # NoAccount
          /\ Start(t, Task(pc, e, [role |-> Shipper, password |-> FALSE], 0))
    BY <1>1 DEF GoogleCallback
  <2> DEFINE w == Task(pc, e, [role |-> Shipper, password |-> FALSE], 0)
  <2>1. w \in Work /\ w.parent = 0 /\ w.new # NoAccount /\ w.user = e
    <3>1. [role |-> Shipper, password |-> FALSE] \in Account \ {NoAccount}
      BY SessionConstants DEF Account, NoAccount
    <3>2. QED
      BY <3>1, SessionConstants DEF Task, Work
  <2>2. w.pc \in {"google_save", "issue"} /\ (w.pc = "issue" => account[e] # NoAccount)
    BY <2>0 DEF Task
  <2>3. th' = [th EXCEPT ![t] = w] /\ UNCHANGED <<account, sessions, cut>>
    BY <1>1, <2>0 DEF GoogleCallback, Start
  <2>4. Len(sessions) \in Nat
    BY DEF SessionInv, TypeOK
  <2> HIDE DEF w
  <2>5. Sound(w)
    BY <2>1, <2>2, <2>3, <2>4 DEF Sound
  <2>6. QED
    BY <1>0, <2>1, <2>3, <2>5, OtherTask
<1>2. ASSUME NEW t \in Callers, NEW e \in Emails, Login(t, e) PROVE SessionInv'
  <2> DEFINE w == Task("issue", e, NoAccount, 0)
  <2>1. w \in Work /\ w.parent = 0 /\ w.user = e /\ w.pc = "issue"
    BY SessionConstants DEF Task, Work, SessionInv, TypeOK
  <2>2. account[e] # NoAccount
    BY <1>2 DEF Login, NoAccount
  <2>3. th' = [th EXCEPT ![t] = w] /\ UNCHANGED <<account, sessions, cut>>
    BY <1>2 DEF Login, Start
  <2>4. Len(sessions) \in Nat
    BY DEF SessionInv, TypeOK
  <2> HIDE DEF w
  <2>5. Sound(w)
    BY <2>1, <2>2, <2>3, <2>4 DEF Sound
  <2>6. QED
    BY <1>0, <2>1, <2>3, <2>5, OtherTask
<1>3. ASSUME NEW t \in Callers, NEW e \in Emails, NEW role \in Roles, Register(t, e, role)
      PROVE  SessionInv'
  <2> DEFINE w == Task("save", e, [role |-> role, password |-> TRUE], 0)
  <2>1. w \in Work /\ w.parent = 0 /\ w.new # NoAccount /\ w.pc = "save"
    BY SessionConstants DEF Task, Work, Account, NoAccount, SessionInv, TypeOK
  <2>2. th' = [th EXCEPT ![t] = w] /\ UNCHANGED <<account, sessions, cut>>
    BY <1>3 DEF Register, Start
  <2>3. Len(sessions) \in Nat
    BY DEF SessionInv, TypeOK
  <2> HIDE DEF w
  <2>4. Sound(w)
    BY <2>1, <2>3 DEF Sound
  <2>5. QED
    BY <1>0, <2>1, <2>2, <2>4, OtherTask
<1>4. ASSUME NEW t \in Callers, NEW k \in Ids, RefreshToken(t, k) PROVE SessionInv'
  <2> DEFINE w == Task(IF sessions[k].used THEN "revoke_all" ELSE "mark_used",
                       sessions[k].user, NoAccount, k)
  <2>1. sessions[k] \in Session /\ Len(sessions) \in Nat /\ Len(sessions) <= MaxSessions
    BY DEF SessionInv, TypeOK, Ids
  <2>2. /\ w \in Work /\ w.parent = k /\ w.user = sessions[k].user
        /\ w.pc \in {"mark_used", "revoke_all"}
    BY <2>1, SessionConstants DEF Task, Work, Session, Ids
  <2>3. account[sessions[k].user] # NoAccount
    BY DEF SessionInv, TypeOK
  <2>4. th' = [th EXCEPT ![t] = w] /\ UNCHANGED <<account, sessions, cut>>
    BY <1>4 DEF RefreshToken, Start
  <2>5. k \in 0..Len(sessions) /\ k # 0
    BY <2>1 DEF Ids
  <2> HIDE DEF w
  <2>6. Sound(w)
    BY <2>2, <2>3, <2>4, <2>5 DEF Sound
  <2>7. QED
    BY <1>0, <2>2, <2>4, <2>6, OtherTask
<1>5. ASSUME NEW t \in Callers, Save(t) PROVE SessionInv'
  <2>1. /\ th[t] \in Work /\ th[t].pc \in {"save", "google_save"}
        /\ th[t].parent = 0 /\ th[t].new # NoAccount
    BY <1>0, <1>5 DEF Save, Idle, SessionInv, TasksOK
  <2>2. CASE Return(t)
    <3>1. /\ account' \in [Emails -> Account \cup {NoAccount}]
          /\ \A e \in Emails : account[e] # NoAccount => account'[e] # NoAccount
      BY <1>0, <1>5, <2>1 DEF Save, Work
    <3>2. QED
      BY <1>0, <1>5, <2>2, <3>1, OtherTask DEF Save, Return
  <2>3. CASE Goto(t, "issue") /\ account' = [account EXCEPT ![th[t].user] = th[t].new]
    <3> DEFINE w == [th[t] EXCEPT !.pc = "issue"]
    <3>1. w \in Work /\ w.pc = "issue" /\ w.parent = 0 /\ w.user = th[t].user
      BY <2>1 DEF Work
    <3>2. /\ account' \in [Emails -> Account \cup {NoAccount}]
          /\ \A e \in Emails : account[e] # NoAccount => account'[e] # NoAccount
          /\ account'[w.user] # NoAccount
      BY <1>0, <2>1, <2>3, <3>1 DEF Work
    <3>3. th' = [th EXCEPT ![t] = w] /\ UNCHANGED <<sessions, cut>>
      BY <1>5, <2>3 DEF Save, Goto
    <3>4. Len(sessions) \in Nat
      BY DEF SessionInv, TypeOK
    <3> HIDE DEF w
    <3>5. Sound(w)
      BY <3>1, <3>2, <3>4 DEF Sound
    <3>6. QED
      BY <1>0, <3>1, <3>2, <3>3, <3>5, OtherTask
  <2>4. QED
    BY <1>5, <2>2, <2>3 DEF Save
<1>6. ASSUME NEW t \in Callers, Create(t) PROVE SessionInv'
  BY <1>6, Creating
<1>7. ASSUME NEW t \in Callers, MarkUsed(t) PROVE SessionInv'
  <2>1. CASE UNCHANGED sessions /\ Return(t)
    BY <1>0, <1>7, <2>1, OtherTask DEF MarkUsed, Return
  <2>2. CASE ~(UNCHANGED sessions /\ Return(t))
    BY <1>7, <2>2, Marking DEF MarkUsed
  <2>3. QED
    BY <2>1, <2>2
<1>8. ASSUME NEW t \in Callers, RevokeAllForUser(t) PROVE SessionInv'
  <2> DEFINE his == {k \in Ids : sessions[k].user = th[t].user}
             row(k) == IF k \in his THEN Revoked(sessions[k]) ELSE sessions[k]
  <2>1. TypeOK /\ Ids = 1..Len(sessions) /\ Len(sessions) \in Nat
    BY DEF SessionInv, TypeOK, Ids
  <2>2. sessions' = [k \in Ids |-> row(k)] /\ cut' = cut \cup his
    BY <1>8 DEF RevokeAllForUser
  <2>3. \A k \in Ids : /\ row(k) \in Session
                       /\ row(k).user = sessions[k].user
                       /\ row(k).used <=> sessions[k].used
                       /\ row(k).parent = sessions[k].parent
                       /\ row(k).login = sessions[k].login
                       /\ row(k).ended => row(k).revoked /\ ~sessions[k].used
    <3> TAKE k \in Ids
    <3>1. CASE k \in his
      BY <3>1, RevokedRow
    <3>2. CASE k \notin his
      BY <2>1, <3>2, RowOK DEF SessionInv, EndedOK
    <3>3. QED
      BY <3>1, <3>2
  <2> HIDE DEF row
  <2>4. \A k \in Ids : sessions'[k] = row(k)
    BY <2>2
  <2>5. sessions' \in Seq(Session) /\ Len(sessions') = Len(sessions)
    BY <2>1, <2>2, <2>3
  <2>6. th' = [th EXCEPT ![t] = Idle] /\ UNCHANGED account
    BY <1>8 DEF RevokeAllForUser, Return
  <2>7. cut' \in SUBSET Ids
    BY <2>1, <2>2 DEF TypeOK
  <2>8. /\ th' \in [Callers -> Work \cup {Idle}]
        /\ \A s \in Callers : th'[s] = th[s] \/ th'[s] = Idle
    BY <2>1, <2>6 DEF TypeOK
  <2>9. QED
    BY <2>3, <2>4, <2>5, <2>6, <2>7, <2>8, Revoking
<1>9. ASSUME NEW t \in Callers, DbError(t) PROVE SessionInv'
  BY <1>0, <1>9, OtherTask DEF DbError, Return
<1>10. ASSUME NEW k \in Ids, Logout(k) PROVE SessionInv'
  <2> DEFINE row == Revoked(sessions[k])
  <2>1. TypeOK /\ sessions \in Seq(Session) /\ Len(sessions) \in Nat /\ k \in 1..Len(sessions)
    BY DEF SessionInv, TypeOK, Ids
  <2>2. sessions' = [sessions EXCEPT ![k] = row] /\ UNCHANGED <<account, th, cut>>
    BY <1>10 DEF Logout
  <2>3. /\ row \in Session
        /\ row.user = sessions[k].user
        /\ row.used <=> sessions[k].used
        /\ row.parent = sessions[k].parent
        /\ row.login = sessions[k].login
        /\ row.ended => row.revoked /\ ~sessions[k].used
    BY <2>1, RevokedRow
  <2> HIDE DEF row
  <2>4. \A j \in Ids : sessions'[j] = IF j = k THEN row ELSE sessions[j]
    BY <2>1, <2>2 DEF Ids
  <2>5. sessions' \in Seq(Session) /\ Len(sessions') = Len(sessions)
    BY <2>1, <2>2, <2>3
  <2>6. \A j \in Ids : /\ sessions'[j].user = sessions[j].user
                       /\ sessions'[j].used <=> sessions[j].used
                       /\ sessions'[j].parent = sessions[j].parent
                       /\ sessions'[j].login = sessions[j].login
                       /\ sessions'[j].ended => sessions'[j].revoked /\ ~sessions[j].used
    BY <2>3, <2>4 DEF SessionInv, EndedOK
  <2>7. QED
    BY <2>1, <2>2, <2>5, <2>6, Revoking DEF TypeOK
<1>11. CASE UNCHANGED svars
  BY <1>11 DEF svars, SessionInv, TypeOK, TasksOK, ChainsOK, EndedOK, Spent, Ids, Exchanging,
     LoginOf, OneTokenPerLogin
<1>12. QED
  BY <1>1, <1>2, <1>3, <1>4, <1>5, <1>6, <1>7, <1>8, <1>9, <1>10, <1>11
     DEF Next, Request, Handler

-----------------------------------------------------------------------------
LEMMA Invariance == Spec => []SessionInv
BY InitSession, NextSession, PTL DEF Spec

\* Rows and goroutines keep their types and every session has an account, for
\* any number of users, goroutines and sessions.
THEOREM SessionTyping == Spec => []TypeOK
<1>1. SessionInv => TypeOK
  BY DEF SessionInv
<1>2. QED
  BY <1>1, Invariance, PTL

\* However many refreshes race, a login never has two tokens that can be
\* exchanged (MarkUsed is the compare-and-set that decides).
THEOREM LoginHasOneToken == Spec => []OneTokenPerLogin
<1>1. SessionInv => OneTokenPerLogin
  BY DEF SessionInv
<1>2. QED
  BY <1>1, Invariance, PTL

\* A session logged out before its token was exchanged is never carried on.
THEOREM LogoutIsFinal == Spec => []LogoutEnds
<1>1. SessionInv => LogoutEnds
  BY RowOK DEF SessionInv, ChainsOK, EndedOK, LogoutEnds
<1>2. QED
  BY <1>1, Invariance, PTL

\* Concurrent registrations and Google logins never replace an account.
THEOREM AccountIsKept == Spec => RoleIsKept
<1>1. SessionInv /\ [Next]_svars =>
        [\A e \in Emails : account[e] # NoAccount => account'[e] = account[e]]_svars
  <2> SUFFICES ASSUME SessionInv, Next
               PROVE  \A e \in Emails : account[e] # NoAccount => account'[e] = account[e]
    OBVIOUS
  <2>1. ASSUME NEW t \in Callers, Save(t)
        PROVE  \A e \in Emails : account[e] # NoAccount => account'[e] = account[e]
    BY <2>1 DEF Save, SessionInv, TypeOK
  <2>2. CASE UNCHANGED account
    BY <2>2
  <2>3. QED
    BY <2>1, <2>2 DEF Next, Request, Handler, Register, GoogleCallback, Login,
       RefreshToken, Create, MarkUsed, RevokeAllForUser, DbError, Logout
<1>2. QED
  BY <1>1, Invariance, PTL DEF Spec, RoleIsKept
=============================================================================
