------------------------ MODULE ConversationProofs ------------------------
(***************************************************************************)
(* The safety properties of Conversation, for every set of profiles and    *)
(* requests and any number of workers.                                     *)
(***************************************************************************)
EXTENDS Conversation, FiniteSetTheorems, TLAPS

\* What is known of a request q being handled in a conversation of type t whose
\* past members are eu and past admins ea.  It mentions no variable, so that it
\* survives, for an untouched request, any step that only adds to eu and ea.
CallInv(q, t, eu, ea) ==
    /\ q.snap.admins # {}
    /\ q.snap.admins \subseteq eu /\ q.snap.blocked \subseteq eu
    /\ q.snap.admins \subseteq ea
    /\ q.phase = "write" => q.actor \in q.snap.admins /\ q.actor # q.profile
    /\ q.phase = "write" /\ q.op \in {"promote", "block"} => q.profile \in eu
    /\ q.phase = "write" /\ q.op = "add" => <<q.profile, q.actor>> \in Listening
    /\ t = "chat" /\ q.phase \in {"create", "leave", "send", "add_sender"} => q.actor \in eu

HistoryInv ==
    /\ users \subseteq everUser
    /\ Creator \in everUser
    /\ row.admins \subseteq everAdmin

\* The inductive invariant.
IInv ==
    /\ TypeOK
    /\ HistoryInv
    /\ AdminsNeverEmpty
    /\ ListsHoldMembers
    /\ PrivateMembership
    /\ \A r \in Request : req[r].phase \in Phase => CallInv(req[r], type, everUser, everAdmin)
-----------------------------------------------------------------------------
\* A request in one of the phases of Phase has all the fields of a Call.
LEMMA CallTyped ==
    ASSUME NEW q \in Call \cup {NotMade, Done}, q.phase \in Phase
    PROVE  q \in Call
  BY DEF Call, NotMade, Done, Phase

\* Moving a request on keeps its type.
LEMMA GotoTyped ==
    ASSUME NEW q \in Call, NEW phase \in Phase
    PROVE  [q EXCEPT !.phase = phase] \in Call
  BY DEF Call

\* The facts about an untouched request survive when the histories grow.
LEMMA CallInvGrows ==
    ASSUME NEW q, NEW t, NEW eu, NEW ea, NEW eu2, NEW ea2,
           eu \subseteq eu2, ea \subseteq ea2, CallInv(q, t, eu, ea)
    PROVE  CallInv(q, t, eu2, ea2)
  BY DEF CallInv

LEMMA InitTypeOK == Init => TypeOK
  <1> SUFFICES ASSUME Init PROVE TypeOK
    OBVIOUS
  <1> USE ConversationAssumption
  <1>1. row \in Row
    BY DEF Init, Row
  <1>2. req \in [Request -> Call \cup {NotMade, Done}]
    <2>1. PICK r \in Request :
             req = [q \in Request |->
                      IF q = r
                      THEN [phase |-> IF type = "chat" THEN "create" ELSE "announce",
                            op |-> "create", actor |-> Creator, profile |-> Creator,
                            snap |-> row, message |-> 0]
                      ELSE NotMade]
      BY DEF Init
    <2>2. [phase |-> IF type = "chat" THEN "create" ELSE "announce",
           op |-> "create", actor |-> Creator, profile |-> Creator,
           snap |-> row, message |-> 0] \in Call
      BY <1>1 DEF Call, Phase, Op
    <2>3. QED
      BY <2>1, <2>2
  <1>3. QED
    BY <1>1, <1>2 DEF Init, TypeOK
-----------------------------------------------------------------------------
\* Every step keeps the state well typed: what each action writes, from the
\* object of its request, is again a row, a set of profiles or a request.
LEMMA StepTypeOK == TypeOK /\ [Next]_vars => TypeOK'
  <1> SUFFICES ASSUME TypeOK, [Next]_vars PROVE TypeOK'
    OBVIOUS
  <1> USE ConversationAssumption
  <1>1. CASE UNCHANGED vars
    BY <1>1 DEF vars, TypeOK
  <1>2. ASSUME NEW r \in Request, Start(r) \/ Handle(r) \/ Abort(r), Remember
        PROVE  TypeOK'
    <2> DEFINE Rest == /\ type' \in Type
                       /\ row' \in Row
                       /\ users' \subseteq User
                       /\ messages' \in Nat
                       /\ req' \in [Request -> Call \cup {NotMade, Done}]
    <2>0. /\ req[r].phase \in Phase => req[r] \in Call
          /\ \A q \in Call \cup {NotMade, Done} :
                [req EXCEPT ![r] = q] \in [Request -> Call \cup {NotMade, Done}]
      BY CallTyped DEF TypeOK
    <2>1. ASSUME Rest PROVE TypeOK'
      BY <2>1, <1>2 DEF Remember, TypeOK, Row
    <2>2. ASSUME Finish(r) PROVE req' \in [Request -> Call \cup {NotMade, Done}]
      BY <2>2, <2>0 DEF Finish
    <2>3. ASSUME NEW phase \in Phase, req[r] \in Call, Goto(r, phase)
          PROVE  req' \in [Request -> Call \cup {NotMade, Done}]
      BY <2>3, GotoTyped, <2>0 DEF Goto, TypeOK
    <2>4. ASSUME NEW op \in Op \ {"create"}, NEW u \in User, NEW p \in User,
                 GetObject(r, op, u, p)
          PROVE  Rest
      <3>1. [phase |-> NextPhase[op], op |-> op, actor |-> u, profile |-> p,
             snap |-> row, message |-> 0] \in Call
        BY <2>4 DEF NextPhase, Phase, Op, ProfileOp, Call, TypeOK
      <3>2. QED
        BY <3>1, <2>0, <2>4 DEF GetObject, TypeOK
    <2>5. ASSUME NEW u \in User, NEW p \in User, ContinueChat(r, u, p)
          PROVE  Rest
      <3>1. [phase |-> "send", op |-> "reply", actor |-> u,
             profile |-> u, snap |-> row, message |-> 0] \in Call
        BY DEF Phase, Op, ProfileOp, Call, TypeOK
      <3>2. QED
        BY <3>1, <2>0, <2>5 DEF ContinueChat, TypeOK
    <2>6. ASSUME CreateChat(r) PROVE Rest
      BY <2>0, <2>3, <2>6 DEF CreateChat, Phase, TypeOK
    <2>7. ASSUME AnnouncePublicChat(r) PROVE Rest
      <3>1. [req[r] EXCEPT !.message = messages + 1, !.phase = "first_save"] \in Call
        BY <2>0, <2>7 DEF AnnouncePublicChat, Phase, Call, TypeOK
      <3>2. QED
        BY <3>1, <2>0, <2>7 DEF AnnouncePublicChat, TypeOK
    <2>8. ASSUME SavePublicChat(r) PROVE Rest
      <3>1. [req[r].snap EXCEPT !.last_message = req[r].message] \in Row
        BY <2>0, <2>8 DEF SavePublicChat, Phase, Call, Row
      <3>2. QED
        BY <3>1, <2>0, <2>3, <2>8 DEF SavePublicChat, Phase, TypeOK
    <2>9. ASSUME JoinPublicChat(r) PROVE Rest
      BY <2>2, <2>9 DEF JoinPublicChat, TypeOK
    <2>10. ASSUME Validate(r) PROVE Rest
      BY <2>0, <2>3, <2>10 DEF Validate, Phase, TypeOK
    <2>11. ASSUME AddProfile(r) PROVE Rest
      BY <2>0, <2>2, <2>11 DEF AddProfile, Phase, Call, TypeOK
    <2>12. ASSUME RemoveProfile(r) PROVE Rest
      BY <2>2, <2>12 DEF RemoveProfile, TypeOK
    <2>13. ASSUME PromoteAdmin(r) PROVE Rest
      <3>1. req[r].snap \in Row /\ req[r].profile \in User
        BY <2>0, <2>13 DEF PromoteAdmin, Phase, Call
      <3>2. row' \in Row
        BY <3>1, <2>13 DEF PromoteAdmin, Row, TypeOK
      <3>3. QED
        BY <3>2, <2>2, <2>13 DEF PromoteAdmin, TypeOK
    <2>14. ASSUME BlockProfile(r) PROVE Rest
      <3>1. req[r].snap \in Row /\ req[r].profile \in User
        BY <2>0, <2>14 DEF BlockProfile, Phase, Call
      <3>2. row' \in Row
        BY <3>1, <2>14 DEF BlockProfile, Row, TypeOK
      <3>3. QED
        BY <3>2, <2>2, <2>14 DEF BlockProfile, TypeOK
    <2>15. ASSUME UnblockProfile(r) PROVE Rest
      <3>1. req[r].snap \in Row
        BY <2>0, <2>15 DEF UnblockProfile, Phase, Call
      <3>2. row' \in Row
        BY <3>1, <2>15 DEF UnblockProfile, Row, TypeOK
      <3>3. QED
        BY <3>2, <2>2, <2>15 DEF UnblockProfile, TypeOK
    <2>16. ASSUME NEW s \in Subject, UpdateSubject(r, s) PROVE Rest
      <3>1. row' \in Row
        BY <2>16 DEF UpdateSubject, Row, TypeOK
      <3>2. QED
        BY <3>1, <2>2, <2>16 DEF UpdateSubject, TypeOK
    <2>17. ASSUME Leave(r) PROVE Rest
      BY <2>0, <2>3, <2>17 DEF Leave, Phase, TypeOK
    <2>18. ASSUME SendMessage(r) PROVE Rest
      <3>1. [req[r] EXCEPT !.message = messages + 1, !.phase = "add_sender"] \in Call
        BY <2>0, <2>18 DEF SendMessage, Phase, Call, TypeOK
      <3>2. QED
        BY <3>1, <2>0, <2>18 DEF SendMessage, TypeOK
    <2>19. ASSUME AddSender(r) PROVE Rest
      <3>1. req[r].actor \in User /\ req[r] \in Call
        BY <2>0, <2>19 DEF AddSender, Phase, Call
      <3>2. QED
        BY <3>1, <2>3, <2>19 DEF AddSender, Phase, TypeOK
    <2>20. ASSUME SaveConversation(r) PROVE Rest
      <3>1. [req[r].snap EXCEPT !.last_message = req[r].message] \in Row
        BY <2>0, <2>20 DEF SaveConversation, Phase, Call, Row
      <3>2. QED
        BY <3>1, <2>2, <2>20 DEF SaveConversation, TypeOK
    <2>21. ASSUME Abort(r) PROVE Rest
      BY <2>2, <2>21 DEF Abort, TypeOK
    <2>22. Rest
      <3>1. CASE Start(r)
        BY <3>1, <2>4, <2>5 DEF Start, Op, ProfileOp
      <3>2. CASE Handle(r)
        BY <3>2, <2>6, <2>7, <2>8, <2>9, <2>10, <2>11, <2>12, <2>13, <2>14, <2>15, <2>16,
           <2>17, <2>18, <2>19, <2>20 DEF Handle
      <3>3. QED
        BY <3>1, <3>2, <2>21, <1>2
    <2>23. QED
      BY <2>1, <2>22
  <1>3. QED
    BY <1>1, <1>2 DEF Next

\* The state of a conversation and of its requests stays well typed.
THEOREM ConversationTypeOK == Spec => []TypeOK
  BY InitTypeOK, StepTypeOK, PTL DEF Spec
-----------------------------------------------------------------------------
LEMMA InitIInv == Init => IInv
  <1> SUFFICES ASSUME Init PROVE IInv
    OBVIOUS
  <1> USE ConversationAssumption
  <1>1. /\ row.admins = {Creator}
        /\ row.blocked = {}
        /\ users = {}
        /\ everUser = {Creator}
        /\ everAdmin = {Creator}
    BY DEF Init
  <1>2. HistoryInv /\ AdminsNeverEmpty /\ ListsHoldMembers /\ PrivateMembership
    BY <1>1 DEF HistoryInv, AdminsNeverEmpty, ListsHoldMembers, PrivateMembership
  <1>3. ASSUME NEW q \in Request, req[q].phase \in Phase
        PROVE  CallInv(req[q], type, everUser, everAdmin)
    <2>1. PICK r \in Request :
             req = [p \in Request |->
                      IF p = r
                      THEN [phase |-> IF type = "chat" THEN "create" ELSE "announce",
                            op |-> "create", actor |-> Creator, profile |-> Creator,
                            snap |-> row, message |-> 0]
                      ELSE NotMade]
      BY DEF Init
    <2>2. q = r
      BY <2>1, <1>3 DEF NotMade, Phase
    <2>3. /\ req[q].snap = row
          /\ req[q].actor = Creator
          /\ req[q].phase \in {"create", "announce"}
      BY <2>1, <2>2
    <2>4. QED
      BY <2>3, <1>1 DEF CallInv
  <1>4. QED
    BY <1>2, <1>3, InitTypeOK DEF IInv

\* A step is harmless when the row it leaves, the profiles it puts in users and
\* the request it leaves behind are as IInv wants them.
LEMMA StepByParts ==
    ASSUME IInv, TypeOK', Remember, type' = type, NEW r \in Request,
           \A q \in Request \ {r} : req'[q] = req[q],
           req'[r].phase \in Phase => CallInv(req'[r], type, everUser, everAdmin),
           row'.admins # {},
           row'.admins \cup row'.blocked \subseteq everUser,
           type = "chat" => \A u \in users' : \/ u \in everUser \cup Participants
                                             \/ \E a \in everAdmin : <<u, a>> \in Listening
    PROVE  IInv'
  <1>1. /\ everUser \subseteq everUser' /\ users' \subseteq everUser'
        /\ everAdmin \subseteq everAdmin' /\ row'.admins \subseteq everAdmin'
    BY DEF Remember
  <1>2. HistoryInv' /\ AdminsNeverEmpty' /\ ListsHoldMembers'
    BY <1>1 DEF IInv, HistoryInv, AdminsNeverEmpty, ListsHoldMembers
  <1>3. PrivateMembership'
    <2> SUFFICES ASSUME type = "chat", NEW u \in everUser', u \notin Participants
                 PROVE  \E a \in everAdmin' : <<u, a>> \in Listening
      BY DEF PrivateMembership
    <2>1. CASE u \in everUser
      BY <2>1, <1>1 DEF IInv, PrivateMembership
    <2>2. CASE u \in users'
      BY <2>2, <2>1, <1>1
    <2>3. QED
      BY <2>1, <2>2 DEF Remember
  <1>4. ASSUME NEW q \in Request, req'[q].phase \in Phase
        PROVE  CallInv(req'[q], type', everUser', everAdmin')
    <2>1. CallInv(req'[q], type, everUser, everAdmin)
      BY <1>4 DEF IInv
    <2>2. QED
      BY <2>1, <1>1, CallInvGrows
  <1>5. QED
    BY <1>2, <1>3, <1>4 DEF IInv

LEMMA StepIInv == IInv /\ [Next]_vars => IInv'
  <1> SUFFICES ASSUME IInv, [Next]_vars PROVE IInv'
    OBVIOUS
  <1> USE ConversationAssumption
  <1>0. TypeOK /\ TypeOK'
    BY StepTypeOK DEF IInv
  <1>1. CASE UNCHANGED vars
    <2>1. \A q \in Request : req'[q].phase \in Phase => CallInv(req'[q], type', everUser', everAdmin')
      BY <1>1 DEF vars, IInv
    <2>2. QED
      BY <2>1, <1>0, <1>1
      DEF vars, IInv, HistoryInv, AdminsNeverEmpty, ListsHoldMembers, PrivateMembership
  <1>2. ASSUME NEW r \in Request, Start(r) \/ Handle(r) \/ Abort(r), Remember
        PROVE  IInv'
    <2> DEFINE q == req[r]
               LeavesRequest == req'[r].phase \in Phase => CallInv(req'[r], type, everUser, everAdmin)
               LeavesRow == /\ row'.admins # {}
                            /\ row'.admins \cup row'.blocked \subseteq everUser
               LeavesUsers == type = "chat" =>
                  \A u \in users' : \/ u \in everUser \cup Participants
                                   \/ \E a \in everAdmin : <<u, a>> \in Listening
               Others == type' = type /\ \A p \in Request \ {r} : req'[p] = req[p]
    <2>0. /\ req \in [Request -> Call \cup {NotMade, Done}]
          /\ q.phase \in Phase => q \in Call /\ CallInv(q, type, everUser, everAdmin)
      BY <1>0, CallTyped DEF IInv, TypeOK
    <2>1. ASSUME LeavesRequest, LeavesRow, LeavesUsers, Others PROVE IInv'
      BY <2>1, <1>0, <1>2, StepByParts
    <2>2. ASSUME row' = row PROVE LeavesRow
      BY <2>2 DEF IInv, AdminsNeverEmpty, ListsHoldMembers
    <2>3. ASSUME users' \subseteq users \cup Participants PROVE LeavesUsers
      BY <2>3 DEF IInv, HistoryInv
    <2>4. ASSUME Finish(r) PROVE LeavesRequest /\ \A p \in Request \ {r} : req'[p] = req[p]
      BY <2>4, <2>0 DEF Finish, Done, Phase
    <2>5. ASSUME NEW phase, Goto(r, phase), q \in Call
          PROVE  /\ req'[r] = [q EXCEPT !.phase = phase]
                 /\ req'[r].phase = phase
                 /\ req'[r].snap = q.snap /\ req'[r].op = q.op
                 /\ req'[r].actor = q.actor /\ req'[r].profile = q.profile
                 /\ \A p \in Request \ {r} : req'[p] = req[p]
      BY <2>5, <2>0 DEF Goto, Call
    \* The object a request starts with is the row itself.
    <2>6. ASSUME NEW c, c.snap = row, c.phase # "write",
                 type = "chat" /\ c.phase \in {"create", "leave", "send", "add_sender"} => c.actor \in everUser
          PROVE  CallInv(c, type, everUser, everAdmin)
      BY <2>6 DEF CallInv, IInv, AdminsNeverEmpty, ListsHoldMembers, HistoryInv
    \* Moving on to a phase that asks nothing new.
    <2>7. ASSUME NEW phase \in Phase \ {"write"}, Goto(r, phase), q.phase \in Phase,
                 type = "chat" /\ phase \in {"create", "leave", "send", "add_sender"} => q.actor \in everUser
          PROVE  LeavesRequest /\ \A p \in Request \ {r} : req'[p] = req[p]
      <3> DEFINE c == req'[r]
      <3>1. q \in Call /\ CallInv(q, type, everUser, everAdmin)
        BY <2>7, <2>0
      <3>2. /\ c.phase = phase
            /\ c.snap = q.snap /\ c.op = q.op /\ c.actor = q.actor /\ c.profile = q.profile
            /\ \A p \in Request \ {r} : req'[p] = req[p]
        BY <3>1, <2>7, <2>5
      <3>3. CallInv(c, type, everUser, everAdmin)
        <4> HIDE DEF c, q
        <4> QED
          BY <3>1, <3>2, <2>7 DEF CallInv
      <3>4. QED
        BY <3>2, <3>3
    <2>10. ASSUME NEW op \in Op \ {"create"}, NEW u \in User, NEW p \in User, GetObject(r, op, u, p) PROVE IInv'
      <3> DEFINE c == [phase |-> NextPhase[op], op |-> op, actor |-> u, profile |-> p,
                       snap |-> row, message |-> 0]
      <3>1. c.phase # "write"
        BY DEF NextPhase
      <3>2. type = "chat" /\ op # "update" => u \in everUser
        BY <2>10 DEF GetObject, HasObjectPermission, CanContribute, Contributors, Type, IInv, HistoryInv
      <3>3. type = "chat" /\ c.phase \in {"create", "leave", "send", "add_sender"} => c.actor \in everUser
        BY <3>2 DEF NextPhase
      <3>4. CallInv(c, type, everUser, everAdmin)
        BY <3>1, <3>3, <2>6
      <3>5. req'[r] = c /\ Others /\ row' = row /\ users' = users
        BY <2>10, <2>0 DEF GetObject
      <3>6. QED
        BY <3>4, <3>5, <2>1, <2>2, <2>3
    <2>11. ASSUME NEW u \in User, NEW p \in User, ContinueChat(r, u, p) PROVE IInv'
      <3> DEFINE c == [phase |-> "send", op |-> "reply", actor |-> u, profile |-> u,
                       snap |-> row, message |-> 0]
      <3>1. u \in everUser
        BY <2>11 DEF ContinueChat, IInv, HistoryInv
      <3>2. CallInv(c, type, everUser, everAdmin)
        BY <3>1, <2>6
      <3>3. req'[r] = c /\ Others /\ row' = row /\ users' = users
        BY <2>11, <2>0 DEF ContinueChat
      <3>4. QED
        BY <3>2, <3>3, <2>1, <2>2, <2>3
    <2>12. ASSUME CreateChat(r) PROVE IInv'
      <3>1. q.phase = "create" /\ q.phase \in Phase /\ Goto(r, "send") /\ "send" \in Phase \ {"write"}
        BY <2>12 DEF CreateChat, Phase
      <3>2. type = "chat" => q.actor \in everUser
        BY <3>1, <2>0 DEF CallInv
      <3>3. LeavesRequest /\ \A p \in Request \ {r} : req'[p] = req[p]
        BY <3>1, <3>2, <2>7
      <3>4. QED
        BY <3>3, <2>1, <2>2, <2>3, <2>12 DEF CreateChat
    <2>13. ASSUME AnnouncePublicChat(r) PROVE IInv'
      <3>1. q.phase = "announce" /\ q \in Call /\ CallInv(q, type, everUser, everAdmin)
        BY <2>13, <2>0 DEF AnnouncePublicChat, Phase
      <3>2. /\ req'[r].phase = "first_save" /\ req'[r].snap = q.snap
            /\ Others /\ row' = row /\ users' = users
        BY <2>13, <2>0, <3>1 DEF AnnouncePublicChat, Call
      <3>3. LeavesRequest
        BY <3>1, <3>2 DEF CallInv
      <3>4. QED
        BY <3>2, <3>3, <2>1, <2>2, <2>3
    <2>14. ASSUME SavePublicChat(r) PROVE IInv'
      <3>1. q.phase = "first_save" /\ q.phase \in Phase /\ "join" \in Phase \ {"write"}
        BY <2>14 DEF SavePublicChat, Phase
      <3>2. CallInv(q, type, everUser, everAdmin) /\ q.snap \in Row
        BY <3>1, <2>0 DEF Call
      <3>3. row'.admins = q.snap.admins /\ row'.blocked = q.snap.blocked
        BY <3>2, <2>14 DEF SavePublicChat, Row
      <3>4. LeavesRow
        BY <3>2, <3>3 DEF CallInv
      <3>5. LeavesRequest /\ \A p \in Request \ {r} : req'[p] = req[p]
        BY <3>1, <2>7, <2>14 DEF SavePublicChat
      <3>6. QED
        BY <3>4, <3>5, <2>1, <2>3, <2>14 DEF SavePublicChat
    <2>15. ASSUME JoinPublicChat(r) PROVE IInv'
      BY <2>1, <2>2, <2>3, <2>4, <2>15 DEF JoinPublicChat
    <2>16. ASSUME Validate(r) PROVE IInv'
      <3>1. q.phase = "validate" /\ q.phase \in Phase
        BY <2>16 DEF Validate, Phase
      <3>2. q \in Call /\ CallInv(q, type, everUser, everAdmin)
        BY <3>1, <2>0
      <3>3. /\ req'[r].phase = "write"
            /\ req'[r].snap = q.snap /\ req'[r].op = q.op
            /\ req'[r].actor = q.actor /\ req'[r].profile = q.profile
            /\ \A p \in Request \ {r} : req'[p] = req[p]
        BY <3>2, <2>5, <2>16 DEF Validate
      <3>4. q.actor \in q.snap.admins /\ q.actor # q.profile
        BY <2>16 DEF Validate, IsAdmin
      <3>5. q.op \in {"promote", "block"} => q.profile \in everUser
        BY <2>16 DEF Validate, Condition, PromoteCondition, BlockCondition, IInv, HistoryInv
      <3>6. q.op = "add" => <<q.profile, q.actor>> \in Listening
        BY <2>16 DEF Validate, Condition, AddCondition
      <3>7. LeavesRequest
        BY <3>2, <3>3, <3>4, <3>5, <3>6 DEF CallInv
      <3>8. QED
        BY <3>3, <3>7, <2>1, <2>2, <2>3, <2>16 DEF Validate
    \* A request about to write holds an object that its actor administers.
    <2>17. ASSUME q.phase = "write"
           PROVE  /\ q.snap \in Row /\ CallInv(q, type, everUser, everAdmin)
                  /\ q.actor \in q.snap.admins /\ q.actor # q.profile
      BY <2>17, <2>0 DEF Call, CallInv, Phase
    <2>18. ASSUME AddProfile(r) PROVE IInv'
      <3>1. q.op = "add" /\ q.phase = "write" /\ Finish(r) /\ users' = users \cup {q.profile}
        BY <2>18 DEF AddProfile
      <3>2. <<q.profile, q.actor>> \in Listening /\ q.actor \in everAdmin
        BY <3>1, <2>17 DEF CallInv
      <3>3. LeavesUsers
        BY <3>1, <3>2 DEF IInv, HistoryInv
      <3>4. QED
        BY <3>1, <3>3, <2>1, <2>2, <2>4, <2>18 DEF AddProfile
    <2>19. ASSUME RemoveProfile(r) PROVE IInv'
      BY <2>1, <2>2, <2>3, <2>4, <2>19 DEF RemoveProfile
    <2>20. ASSUME PromoteAdmin(r) PROVE IInv'
      <3>1. q.op = "promote" /\ q.phase = "write"
        BY <2>20 DEF PromoteAdmin
      <3>2. q.profile \in everUser /\ q.snap.admins # {} /\ q.snap.admins \subseteq everUser
        BY <3>1, <2>17 DEF CallInv
      <3>3. CASE q.profile \in q.snap.admins
        BY <3>3, <2>1, <2>2, <2>3, <2>4, <2>20 DEF PromoteAdmin
      <3>4. CASE q.profile \notin q.snap.admins
        <4>1. row'.admins = q.snap.admins \cup {q.profile} /\ row'.blocked = row.blocked
          BY <3>4, <2>20, <1>0 DEF PromoteAdmin, TypeOK, Row
        <4>2. LeavesRow
          BY <4>1, <3>2 DEF IInv, ListsHoldMembers
        <4>3. QED
          BY <4>2, <2>1, <2>3, <2>4, <2>20 DEF PromoteAdmin
      <3>5. QED
        BY <3>3, <3>4
    <2>21. ASSUME BlockProfile(r) PROVE IInv'
      <3>1. q.op = "block" /\ q.phase = "write"
        BY <2>21 DEF BlockProfile
      <3>2. /\ q.profile \in everUser
            /\ q.snap.admins \subseteq everUser /\ q.snap.blocked \subseteq everUser
        BY <3>1, <2>17 DEF CallInv
      \* The actor is still in the list of admins that is written.
      <3>3. q.actor \in q.snap.admins \ {q.profile}
        BY <3>1, <2>17
      <3>4. CASE q.profile \in q.snap.blocked
        BY <3>4, <2>1, <2>2, <2>3, <2>4, <2>21 DEF BlockProfile
      <3>5. CASE q.profile \notin q.snap.blocked
        <4>1. row' = [row EXCEPT !.admins = q.snap.admins \ {q.profile},
                                 !.blocked = q.snap.blocked \cup {q.profile}]
          BY <3>5, <2>21 DEF BlockProfile
        <4>2. /\ row'.admins = q.snap.admins \ {q.profile}
              /\ row'.blocked = q.snap.blocked \cup {q.profile}
          BY <4>1, <1>0 DEF TypeOK, Row
        <4>3. LeavesRow
          BY <4>2, <3>2, <3>3
        <4>4. QED
          BY <4>3, <2>1, <2>3, <2>4, <2>21 DEF BlockProfile
      <3>6. QED
        BY <3>4, <3>5
    <2>22. ASSUME UnblockProfile(r) PROVE IInv'
      <3>1. q.snap.blocked \subseteq everUser
        BY <2>22, <2>17 DEF UnblockProfile, CallInv
      <3>2. row'.blocked = q.snap.blocked \ {q.profile} /\ row'.admins = row.admins
        BY <2>22, <1>0 DEF UnblockProfile, TypeOK, Row
      <3>3. LeavesRow
        BY <3>1, <3>2 DEF IInv, AdminsNeverEmpty, ListsHoldMembers
      <3>4. QED
        BY <3>3, <2>1, <2>3, <2>4, <2>22 DEF UnblockProfile
    <2>23. ASSUME NEW s \in Subject, UpdateSubject(r, s) PROVE IInv'
      <3>1. row'.blocked = row.blocked /\ row'.admins = row.admins
        BY <2>23, <1>0 DEF UpdateSubject, TypeOK, Row
      <3>2. LeavesRow
        BY <3>1 DEF IInv, AdminsNeverEmpty, ListsHoldMembers
      <3>3. QED
        BY <3>2, <2>1, <2>3, <2>4, <2>23 DEF UpdateSubject
    <2>24. ASSUME Leave(r) PROVE IInv'
      <3>1. q.phase = "leave" /\ q.phase \in Phase /\ Goto(r, "send") /\ "send" \in Phase \ {"write"}
        BY <2>24 DEF Leave, Phase
      <3>2. type = "chat" => q.actor \in everUser
        BY <3>1, <2>0 DEF CallInv
      <3>3. LeavesRequest /\ \A p \in Request \ {r} : req'[p] = req[p]
        BY <3>1, <3>2, <2>7
      <3>4. QED
        BY <3>3, <2>1, <2>2, <2>3, <2>24 DEF Leave
    <2>25. ASSUME SendMessage(r) PROVE IInv'
      <3>1. q.phase = "send" /\ q \in Call /\ CallInv(q, type, everUser, everAdmin)
        BY <2>25, <2>0 DEF SendMessage, Phase
      <3>2. /\ req'[r].phase = "add_sender" /\ req'[r].snap = q.snap /\ req'[r].actor = q.actor
            /\ Others /\ row' = row /\ users' = users
        BY <2>25, <2>0, <3>1 DEF SendMessage, Call
      <3>3. LeavesRequest
        BY <3>1, <3>2 DEF CallInv
      <3>4. QED
        BY <3>2, <3>3, <2>1, <2>2, <2>3
    <2>26. ASSUME AddSender(r) PROVE IInv'
      <3>1. /\ q.phase = "add_sender" /\ q.phase \in Phase
            /\ Goto(r, "save") /\ "save" \in Phase \ {"write"}
        BY <2>26 DEF AddSender, Phase
      <3>2. type = "chat" => q.actor \in everUser
        BY <3>1, <2>0 DEF CallInv
      <3>3. LeavesRequest /\ \A p \in Request \ {r} : req'[p] = req[p]
        BY <3>1, <2>7
      <3>4. LeavesUsers
        BY <3>2, <2>26 DEF AddSender, IInv, HistoryInv
      <3>5. QED
        BY <3>3, <3>4, <2>1, <2>2, <2>26 DEF AddSender
    <2>27. ASSUME SaveConversation(r) PROVE IInv'
      <3>1. q.phase = "save" /\ q.phase \in Phase
        BY <2>27 DEF SaveConversation, Phase
      <3>2. CallInv(q, type, everUser, everAdmin) /\ q.snap \in Row
        BY <3>1, <2>0 DEF Call
      <3>3. row'.admins = q.snap.admins /\ row'.blocked = q.snap.blocked
        BY <3>2, <2>27 DEF SaveConversation, Row
      <3>4. LeavesRow
        BY <3>2, <3>3 DEF CallInv
      <3>5. QED
        BY <3>4, <2>1, <2>3, <2>4, <2>27 DEF SaveConversation
    <2>28. ASSUME Abort(r) PROVE IInv'
      BY <2>1, <2>2, <2>3, <2>4, <2>28 DEF Abort
    <2>29. CASE Start(r)
      BY <2>29, <2>10, <2>11 DEF Start, Op, ProfileOp
    <2>30. CASE Handle(r)
      BY <2>30, <2>12, <2>13, <2>14, <2>15, <2>16, <2>18, <2>19, <2>20, <2>21, <2>22, <2>23,
         <2>24, <2>25, <2>26, <2>27 DEF Handle
    <2>31. QED
      BY <1>2, <2>28, <2>29, <2>30
  <1>3. QED
    BY <1>1, <1>2 DEF Next

LEMMA InvariantHolds == Spec => []IInv
  BY InitIInv, StepIInv, PTL DEF Spec

\* However requests overlap, and whatever they do to each other's writes, the
\* conversation always has an admin.
THEOREM AlwaysAnAdmin == Spec => []AdminsNeverEmpty
  <1>1. IInv => AdminsNeverEmpty
    BY DEF IInv
  <1>2. QED
    BY <1>1, InvariantHolds, PTL

\* Only profiles that were once in the conversation are ever admins or blocked.
THEOREM OnlyMembersListed == Spec => []ListsHoldMembers
  <1>1. IInv => ListsHoldMembers
    BY DEF IInv
  <1>2. QED
    BY <1>1, InvariantHolds, PTL

\* Every profile that was ever in a private conversation was one of its first
\* participants or listens to one who was its admin.
THEOREM PrivateByInvitation == Spec => []PrivateMembership
  <1>1. IInv => PrivateMembership
    BY DEF IInv
  <1>2. QED
    BY <1>1, InvariantHolds, PTL
-----------------------------------------------------------------------------
\* What is known of a request q when no other is being handled: its object is the
\* row, what was checked still holds, and its message is the newest one.
SerialCall(q) ==
    /\ q.phase # "join" => q.snap = row
    /\ q.phase \in {"validate", "write"} => q.op \in ProfileOp
    /\ q.phase = "validate" => ACL!Insider(q.actor)
    /\ q.phase = "write" =>
          /\ ACL!Administers(q.actor, q.profile)
          /\ q.op = "add" => <<q.profile, q.actor>> \in Listening
          /\ q.op \in {"remove", "promote", "block"} => q.profile \in users
          /\ q.op = "unblock" => q.profile \in row.blocked
    /\ q.phase = "update" => q.actor \in row.admins \ row.blocked
    /\ q.phase = "leave" => q.op = "destroy"
    /\ q.phase \in {"send", "add_sender"} /\ q.op # "destroy" =>
          IF type = "chat" THEN q.actor \in users ELSE q.actor \notin row.blocked
    /\ q.phase = "create" => type = "chat" /\ q.actor = Creator
    /\ q.phase \in {"announce", "first_save", "join"} => type = "public_chat"
    /\ q.phase \in {"first_save", "add_sender", "save"} =>
          row.last_message < q.message /\ q.message <= messages

\* The inductive invariant of the refinement.
SInv ==
    /\ row.last_message <= messages
    /\ \A p, q \in Request : req[p].phase \in Phase /\ req[q].phase \in Phase => p = q
    /\ \A r \in Request : req[r].phase \in Phase => SerialCall(req[r])

LEMMA InitSInv == Init => SInv /\ ACL!Init
  <1> SUFFICES ASSUME Init PROVE SInv /\ ACL!Init
    OBVIOUS
  <1> USE ConversationAssumption
  <1>1. PICK s \in Subject :
           row = [admins |-> {Creator}, blocked |-> {}, subject |-> s, last_message |-> 0]
    BY DEF Init
  <1>2. /\ row.admins = {Creator} /\ row.blocked = {} /\ row.subject \in Subject
        /\ row.last_message = 0
    BY <1>1
  <1>3. PICK r \in Request :
           req = [q \in Request |->
                    IF q = r
                    THEN [phase |-> IF type = "chat" THEN "create" ELSE "announce", op |-> "create",
                          actor |-> Creator, profile |-> Creator, snap |-> row, message |-> 0]
                    ELSE NotMade]
    BY DEF Init
  <1>4. \A q \in Request : req[q].phase \in Phase => q = r
    BY <1>3 DEF NotMade, Phase
  <1>5. /\ req[r].snap = row /\ req[r].actor = Creator
        /\ req[r].phase = IF type = "chat" THEN "create" ELSE "announce"
    BY <1>3
  <1>6. SerialCall(req[r])
    BY <1>5 DEF SerialCall, Init, Type
  <1>7. SInv
    BY <1>2, <1>4, <1>6 DEF SInv, Init
  <1>8. ACL!Init
    BY <1>2 DEF Init, Type, ACL!Init
  <1>9. QED
    BY <1>7, <1>8

\* With one worker a request starts when none is being handled.
LEMMA StartsAlone ==
    ASSUME Workers = 1, TypeOK, SInv, Cardinality(InFlight) < Workers
    PROVE  \A q \in Request : req[q].phase \notin Phase
  <1> SUFFICES ASSUME NEW q \in Request, req[q].phase \in Phase PROVE FALSE
    OBVIOUS
  <1>1. InFlight = {q}
    BY DEF InFlight, SInv, TypeOK, Call, NotMade, Done, Phase
  <1>2. Cardinality(InFlight) = 1
    BY <1>1, FS_Singleton
  <1>3. QED
    BY <1>2

\* One step of a request that is alone keeps SInv and is a step of the access
\* list, or none.
LEMMA StepSerial ==
    ASSUME Workers = 1, TypeOK, TypeOK', SInv, NEW r \in Request,
           Start(r) \/ Handle(r) \/ Abort(r)
    PROVE  SInv' /\ [ACL!Next]_(ACL!vars)
  <1> USE ConversationAssumption
  <1> DEFINE Others == \A p \in Request \ {r} : req[p].phase \notin Phase /\ req'[p] = req[p]
             Same == UNCHANGED <<type, row, users>>
             Stutter == UNCHANGED <<type, row.admins, row.blocked, row.subject, row.last_message, users>>
  <1>0. /\ req[r].phase \in Phase => req[r] \in Call /\ SerialCall(req[r])
        /\ row \in Row /\ row.last_message \in Nat /\ messages \in Nat
        /\ row.last_message <= messages
    BY CallTyped DEF TypeOK, SInv, Row
  <1>1. ASSUME Others, row'.last_message <= messages',
               req'[r].phase \in Phase => SerialCall(req[r])'
        PROVE  SInv'
    BY <1>1 DEF SInv
  <1>2. ASSUME Stutter PROVE [ACL!Next]_(ACL!vars)
    BY <1>2 DEF ACL!vars
  <1>3. Same => Stutter
    OBVIOUS
  <1>4. req[r].phase \in Phase => \A p \in Request \ {r} : req[p].phase \notin Phase
    BY DEF SInv
  <1>5. ASSUME Finish(r), req[r].phase \in Phase
        PROVE  Others /\ req'[r].phase \notin Phase
    BY <1>4, <1>5 DEF Finish, Done, Phase, TypeOK
  <1>6. ASSUME NEW phase, Goto(r, phase), req[r].phase \in Phase
        PROVE  /\ Others /\ req'[r].phase = phase
               /\ req'[r].snap = req[r].snap /\ req'[r].op = req[r].op
               /\ req'[r].actor = req[r].actor /\ req'[r].profile = req[r].profile
               /\ req'[r].message = req[r].message
    BY <1>0, <1>4, <1>6 DEF Goto, TypeOK, Call
  <1>7. ASSUME NEW op \in Op \ {"create"}, NEW u \in User, NEW p \in User, GetObject(r, op, u, p)
        PROVE  SInv' /\ [ACL!Next]_(ACL!vars)
    <2> DEFINE q == [phase |-> NextPhase[op], op |-> op, actor |-> u, profile |-> p,
                     snap |-> row, message |-> 0]
    <2>1. /\ req[r] = NotMade /\ Cardinality(InFlight) < Workers
          /\ u \notin row.blocked /\ HasObjectPermission(q)
          /\ req' = [req EXCEPT ![r] = q] /\ UNCHANGED <<type, row, users, messages>>
      BY <1>7 DEF GetObject
    <2>2. Others
      BY <2>1, StartsAlone DEF TypeOK
    <2>3. /\ q.phase \in {"send", "leave", "update", "validate"} /\ q.snap = row
          /\ q.op = op /\ q.actor = u
          /\ q.phase = "send" => op = "reply"
          /\ q.phase = "update" => op = "update"
          /\ q.phase = "leave" => op = "destroy"
          /\ q.phase = "validate" => op \in ProfileOp
      BY DEF NextPhase, Op, ProfileOp
    <2> HIDE DEF q
    <2>4. /\ op = "update" => u \in row.admins
          /\ op # "update" => (type = "chat" => u \in users)
      BY <2>1, <2>3 DEF HasObjectPermission, IsAdmin, CanContribute, Contributors
    <2>5. req'[r] = q
      BY <2>1 DEF TypeOK
    <2>6. op \in ProfileOp => op # "update"
      BY DEF ProfileOp
    <2>7. SerialCall(req[r])'
      BY <2>1, <2>3, <2>4, <2>5, <2>6 DEF SerialCall, ACL!Insider
    <2>8. QED
      BY <1>0, <1>1, <1>2, <2>1, <2>2, <2>7
  <1>8. ASSUME NEW u \in User, NEW p \in User, ContinueChat(r, u, p)
        PROVE  SInv' /\ [ACL!Next]_(ACL!vars)
    <2> DEFINE q == [phase |-> "send", op |-> "reply", actor |-> u,
                     profile |-> u, snap |-> row, message |-> 0]
    <2>1. /\ Cardinality(InFlight) < Workers /\ type = "chat" /\ u \in users
          /\ req' = [req EXCEPT ![r] = q] /\ UNCHANGED <<type, row, users, messages>>
      BY <1>8 DEF ContinueChat
    <2>2. Others
      BY <2>1, StartsAlone DEF TypeOK
    <2>3. q.phase = "send" /\ q.snap = row /\ q.actor = u
      OBVIOUS
    <2> HIDE DEF q
    <2>4. req'[r] = q
      BY <2>1 DEF TypeOK
    <2>5. SerialCall(req[r])'
      BY <2>1, <2>3, <2>4 DEF SerialCall
    <2>6. QED
      BY <1>0, <1>1, <1>2, <2>1, <2>2, <2>5
  <1>9. ASSUME CreateChat(r) PROVE SInv' /\ [ACL!Next]_(ACL!vars)
    <2>1. /\ req[r].phase = "create" /\ req[r].phase \in Phase /\ Goto(r, "send")
          /\ users' = users \cup Participants /\ UNCHANGED <<type, row, messages>>
      BY <1>9 DEF CreateChat, Phase
    <2>2. type = "chat" /\ req[r].actor = Creator /\ req[r].snap = row
      BY <1>0, <2>1 DEF SerialCall
    <2>3. SerialCall(req[r])'
      BY <1>6, <2>1, <2>2 DEF SerialCall
    <2>4. ACL!Open
      BY <2>1, <2>2 DEF ACL!Open
    <2>5. QED
      BY <1>0, <1>1, <1>6, <2>1, <2>3, <2>4 DEF ACL!Next
  <1>10. ASSUME AnnouncePublicChat(r) PROVE SInv' /\ [ACL!Next]_(ACL!vars)
    <2> DEFINE q == [req[r] EXCEPT !.message = messages + 1, !.phase = "first_save"]
    <2>1. /\ req[r].phase = "announce" /\ req[r].phase \in Phase
          /\ messages' = messages + 1 /\ req' = [req EXCEPT ![r] = q] /\ UNCHANGED <<type, row, users>>
      BY <1>10 DEF AnnouncePublicChat, Phase
    <2>2. type = "public_chat" /\ req[r].snap = row /\ req[r] \in Call
      BY <1>0, <2>1 DEF SerialCall
    <2>3. q.phase = "first_save" /\ q.message = messages + 1 /\ q.snap = row
      BY <2>2 DEF Call
    <2> HIDE DEF q
    <2>4. Others /\ req'[r] = q
      BY <1>4, <2>1 DEF TypeOK
    <2>5. SerialCall(req[r])'
      BY <1>0, <2>1, <2>2, <2>3, <2>4 DEF SerialCall
    <2>6. QED
      BY <1>0, <1>1, <1>2, <2>1, <2>4, <2>5
  <1>11. ASSUME SavePublicChat(r) PROVE SInv' /\ [ACL!Next]_(ACL!vars)
    <2>1. /\ req[r].phase = "first_save" /\ req[r].phase \in Phase /\ Goto(r, "join")
          /\ row' = [req[r].snap EXCEPT !.last_message = req[r].message]
          /\ UNCHANGED <<type, users, messages>>
      BY <1>11 DEF SavePublicChat, Phase
    <2>2. /\ type = "public_chat" /\ req[r].snap = row /\ req[r].message \in Nat
          /\ row.last_message < req[r].message /\ req[r].message <= messages
      BY <1>0, <2>1 DEF SerialCall, Call
    <2>3. /\ row'.admins = row.admins /\ row'.blocked = row.blocked
          /\ row'.subject = row.subject /\ row'.last_message = req[r].message
      BY <1>0, <2>1, <2>2 DEF Row
    <2>4. SerialCall(req[r])'
      BY <1>6, <2>1, <2>2 DEF SerialCall
    <2>5. ACL!Post
      BY <1>0, <2>1, <2>2, <2>3 DEF ACL!Post
    <2>6. QED
      BY <1>1, <1>6, <2>1, <2>2, <2>3, <2>4, <2>5 DEF ACL!Next
  <1>12. ASSUME JoinPublicChat(r) PROVE SInv' /\ [ACL!Next]_(ACL!vars)
    <2>1. /\ req[r].phase = "join" /\ req[r].phase \in Phase /\ Finish(r)
          /\ users' = users \cup {Creator} /\ UNCHANGED <<type, row, messages>>
      BY <1>12 DEF JoinPublicChat, Phase
    <2>2. type = "public_chat"
      BY <1>0, <2>1 DEF SerialCall
    <2>3. ACL!Open
      BY <2>1, <2>2 DEF ACL!Open
    <2>4. QED
      BY <1>0, <1>1, <1>5, <2>1, <2>3 DEF ACL!Next
  <1>13. ASSUME Validate(r) PROVE SInv' /\ [ACL!Next]_(ACL!vars)
    <2>1. /\ req[r].phase = "validate" /\ req[r].phase \in Phase /\ Goto(r, "write")
          /\ IsAdmin(req[r].snap, req[r].actor) /\ req[r].actor # req[r].profile
          /\ Condition(req[r]) /\ UNCHANGED <<type, row, users, messages>>
      BY <1>13 DEF Validate, Phase
    <2>2. req[r].snap = row /\ req[r].op \in ProfileOp /\ ACL!Insider(req[r].actor)
      BY <1>0, <2>1 DEF SerialCall
    <2>3. ACL!Administers(req[r].actor, req[r].profile)
      BY <2>1, <2>2 DEF ACL!Administers, IsAdmin
    <2>4. /\ req[r].op = "add" => <<req[r].profile, req[r].actor>> \in Listening
          /\ req[r].op \in {"remove", "promote", "block"} => req[r].profile \in users
          /\ req[r].op = "unblock" => req[r].profile \in row.blocked
      BY <2>1, <2>2 DEF Condition, AddCondition, RemoveCondition, PromoteCondition,
         BlockCondition, UnblockCondition
    <2>5. /\ Others /\ req'[r].phase = "write"
          /\ req'[r].snap = req[r].snap /\ req'[r].op = req[r].op
          /\ req'[r].actor = req[r].actor /\ req'[r].profile = req[r].profile
      BY <1>6, <2>1
    <2>6. SerialCall(req[r])'
      BY <2>1, <2>2, <2>3, <2>4, <2>5 DEF SerialCall, ACL!Administers, ACL!Insider
    <2>7. QED
      BY <1>0, <1>1, <1>2, <2>1, <2>5, <2>6
  <1>14. ASSUME req[r].phase = "write"
         PROVE  /\ req[r] \in Call /\ req[r].phase \in Phase /\ req[r].snap = row
                /\ ACL!Administers(req[r].actor, req[r].profile)
                /\ req[r].actor \in User /\ req[r].profile \in User
                /\ req[r].op = "add" => <<req[r].profile, req[r].actor>> \in Listening
                /\ req[r].op \in {"remove", "promote", "block"} => req[r].profile \in users
                /\ req[r].op = "unblock" => req[r].profile \in row.blocked
    <2>1. req[r].phase \in Phase
      BY <1>14 DEF Phase
    <2>2. QED
      BY <1>0, <1>14, <2>1 DEF SerialCall, Call
  <1>15. ASSUME AddProfile(r) PROVE SInv' /\ [ACL!Next]_(ACL!vars)
    <2>1. /\ req[r].phase = "write" /\ req[r].op = "add" /\ Finish(r)
          /\ users' = users \cup {req[r].profile} /\ UNCHANGED <<type, row, messages>>
      BY <1>15 DEF AddProfile
    <2>2. ACL!Add(req[r].actor, req[r].profile)
      BY <1>14, <2>1 DEF ACL!Add
    <2>3. QED
      BY <1>0, <1>1, <1>5, <1>14, <2>1, <2>2 DEF ACL!Next
  <1>16. ASSUME RemoveProfile(r) PROVE SInv' /\ [ACL!Next]_(ACL!vars)
    <2>1. /\ req[r].phase = "write" /\ req[r].op = "remove" /\ Finish(r)
          /\ users' = users \ {req[r].profile} /\ UNCHANGED <<type, row, messages>>
      BY <1>16 DEF RemoveProfile
    <2>2. ACL!Remove(req[r].actor, req[r].profile)
      BY <1>14, <2>1 DEF ACL!Remove
    <2>3. QED
      BY <1>0, <1>1, <1>5, <1>14, <2>1, <2>2 DEF ACL!Next
  <1>17. ASSUME PromoteAdmin(r) PROVE SInv' /\ [ACL!Next]_(ACL!vars)
    <2>1. /\ req[r].phase = "write" /\ req[r].op = "promote" /\ Finish(r)
          /\ UNCHANGED <<type, users, messages>>
          /\ row' = IF req[r].profile \in req[r].snap.admins THEN row
                    ELSE [row EXCEPT !.admins = req[r].snap.admins \cup {req[r].profile}]
      BY <1>17 DEF PromoteAdmin
    <2>2. /\ row'.admins = row.admins \cup {req[r].profile}
          /\ row'.blocked = row.blocked /\ row'.subject = row.subject
          /\ row'.last_message = row.last_message
      BY <1>0, <1>14, <2>1 DEF Row
    <2>3. ACL!Promote(req[r].actor, req[r].profile)
      BY <1>14, <2>1, <2>2 DEF ACL!Promote
    <2>4. QED
      BY <1>0, <1>1, <1>5, <1>14, <2>1, <2>2, <2>3 DEF ACL!Next
  <1>18. ASSUME BlockProfile(r) PROVE SInv' /\ [ACL!Next]_(ACL!vars)
    <2>1. /\ req[r].phase = "write" /\ req[r].op = "block" /\ Finish(r)
          /\ UNCHANGED <<type, users, messages>>
          /\ row' = IF req[r].profile \in req[r].snap.blocked THEN row
                    ELSE [row EXCEPT !.admins = req[r].snap.admins \ {req[r].profile},
                                     !.blocked = req[r].snap.blocked \cup {req[r].profile}]
      BY <1>18 DEF BlockProfile
    <2>2. CASE req[r].profile \in row.blocked
      <3>1. Stutter
        BY <1>14, <2>1, <2>2
      <3>2. row'.last_message <= messages'
        BY <1>0, <2>1, <3>1
      <3>3. QED
        BY <1>1, <1>2, <1>5, <1>14, <2>1, <3>1, <3>2
    <2>3. CASE req[r].profile \notin row.blocked
      <3>1. /\ row'.admins = row.admins \ {req[r].profile}
            /\ row'.blocked = row.blocked \cup {req[r].profile}
            /\ row'.subject = row.subject /\ row'.last_message = row.last_message
        BY <1>0, <1>14, <2>1, <2>3 DEF Row
      <3>2. ACL!Block(req[r].actor, req[r].profile)
        BY <1>14, <2>1, <2>3, <3>1 DEF ACL!Block
      <3>3. QED
        BY <1>0, <1>1, <1>5, <1>14, <2>1, <3>1, <3>2 DEF ACL!Next
    <2>4. QED
      BY <2>2, <2>3
  <1>19. ASSUME UnblockProfile(r) PROVE SInv' /\ [ACL!Next]_(ACL!vars)
    <2>1. /\ req[r].phase = "write" /\ req[r].op = "unblock" /\ Finish(r)
          /\ UNCHANGED <<type, users, messages>>
          /\ row' = [row EXCEPT !.blocked = req[r].snap.blocked \ {req[r].profile}]
      BY <1>19 DEF UnblockProfile
    <2>2. /\ row'.blocked = row.blocked \ {req[r].profile}
          /\ row'.admins = row.admins /\ row'.subject = row.subject
          /\ row'.last_message = row.last_message
      BY <1>0, <1>14, <2>1 DEF Row
    <2>3. ACL!Unblock(req[r].actor, req[r].profile)
      BY <1>14, <2>1, <2>2 DEF ACL!Unblock
    <2>4. QED
      BY <1>0, <1>1, <1>5, <1>14, <2>1, <2>2, <2>3 DEF ACL!Next
  <1>20. ASSUME NEW s \in Subject, UpdateSubject(r, s) PROVE SInv' /\ [ACL!Next]_(ACL!vars)
    <2>1. /\ req[r].phase = "update" /\ req[r].phase \in Phase /\ Finish(r)
          /\ UNCHANGED <<type, users, messages>> /\ row' = [row EXCEPT !.subject = s]
      BY <1>20 DEF UpdateSubject, Phase
    <2>2. req[r].actor \in row.admins \ row.blocked
      BY <1>0, <2>1 DEF SerialCall
    <2>3. /\ row'.blocked = row.blocked /\ row'.admins = row.admins
          /\ row'.subject = s /\ row'.last_message = row.last_message
      BY <1>0, <2>1 DEF Row
    <2>4. ACL!Rename(s)
      BY <2>1, <2>2, <2>3 DEF ACL!Rename
    <2>5. QED
      BY <1>0, <1>1, <1>5, <2>1, <2>3, <2>4 DEF ACL!Next
  <1>21. ASSUME Leave(r) PROVE SInv' /\ [ACL!Next]_(ACL!vars)
    <2>1. /\ req[r].phase = "leave" /\ req[r].phase \in Phase /\ Goto(r, "send")
          /\ users' = IF req[r].actor \in Contributors(req[r].snap)
                      THEN users \ {req[r].actor} ELSE users
          /\ UNCHANGED <<type, row, messages>>
      BY <1>21 DEF Leave, Phase
    <2>2. req[r].snap = row /\ req[r].op = "destroy" /\ req[r].actor \in User
      BY <1>0, <2>1 DEF SerialCall, Call
    <2>3. SerialCall(req[r])'
      BY <1>6, <2>1, <2>2 DEF SerialCall
    <2>4. [ACL!Next]_(ACL!vars)
      <3>1. CASE req[r].actor \in users \ row.blocked
        <4>1. ACL!Leave(req[r].actor)
          BY <2>1, <2>2, <3>1 DEF ACL!Leave, ACL!Insider, Contributors
        <4>2. QED
          BY <2>2, <4>1 DEF ACL!Next
      <3>2. CASE req[r].actor \notin users \ row.blocked
        BY <1>2, <2>1, <2>2, <3>2 DEF Contributors
      <3>3. QED
        BY <3>1, <3>2
    <2>5. QED
      BY <1>0, <1>1, <1>6, <2>1, <2>3, <2>4
  <1>22. ASSUME SendMessage(r) PROVE SInv' /\ [ACL!Next]_(ACL!vars)
    <2> DEFINE q == [req[r] EXCEPT !.message = messages + 1, !.phase = "add_sender"]
    <2>1. /\ req[r].phase = "send" /\ req[r].phase \in Phase
          /\ messages' = messages + 1 /\ req' = [req EXCEPT ![r] = q] /\ UNCHANGED <<type, row, users>>
      BY <1>22 DEF SendMessage, Phase
    <2>2. /\ req[r].snap = row /\ req[r] \in Call
          /\ req[r].op # "destroy" =>
                IF type = "chat" THEN req[r].actor \in users ELSE req[r].actor \notin row.blocked
      BY <1>0, <2>1 DEF SerialCall
    <2>3. /\ q.phase = "add_sender" /\ q.message = messages + 1 /\ q.snap = row
          /\ q.op = req[r].op /\ q.actor = req[r].actor
      BY <2>2 DEF Call
    <2> HIDE DEF q
    <2>4. Others /\ req'[r] = q
      BY <1>4, <2>1 DEF TypeOK
    <2>5. SerialCall(req[r])'
      BY <1>0, <2>1, <2>2, <2>3, <2>4 DEF SerialCall
    <2>6. QED
      BY <1>0, <1>1, <1>2, <2>1, <2>4, <2>5
  <1>23. ASSUME AddSender(r) PROVE SInv' /\ [ACL!Next]_(ACL!vars)
    <2>1. /\ req[r].phase = "add_sender" /\ req[r].phase \in Phase /\ Goto(r, "save")
          /\ users' = IF req[r].op = "destroy" THEN users ELSE users \cup {req[r].actor}
          /\ UNCHANGED <<type, row, messages>>
      BY <1>23 DEF AddSender, Phase
    <2>2. /\ req[r].snap = row /\ req[r].actor \in User
          /\ req[r].op # "destroy" =>
                IF type = "chat" THEN req[r].actor \in users ELSE req[r].actor \notin row.blocked
          /\ row.last_message < req[r].message /\ req[r].message <= messages
      BY <1>0, <2>1 DEF SerialCall, Call
    <2>3. SerialCall(req[r])'
      BY <1>6, <2>1, <2>2 DEF SerialCall
    <2>4. [ACL!Next]_(ACL!vars)
      <3>1. CASE req[r].op = "destroy" \/ type = "chat"
        <4>1. users' = users
          BY <2>1, <2>2, <3>1
        <4>2. QED
          BY <1>2, <2>1, <4>1
      <3>2. CASE req[r].op # "destroy" /\ type = "public_chat"
        <4>1. ACL!Join(req[r].actor)
          BY <2>1, <2>2, <3>2 DEF ACL!Join, ACL!Insider
        <4>2. QED
          BY <2>2, <4>1 DEF ACL!Next
      <3>3. QED
        BY <3>1, <3>2 DEF TypeOK, Type
    <2>5. QED
      BY <1>0, <1>1, <1>6, <2>1, <2>3, <2>4
  <1>24. ASSUME SaveConversation(r) PROVE SInv' /\ [ACL!Next]_(ACL!vars)
    <2>1. /\ req[r].phase = "save" /\ req[r].phase \in Phase /\ Finish(r)
          /\ row' = [req[r].snap EXCEPT !.last_message = req[r].message]
          /\ UNCHANGED <<type, users, messages>>
      BY <1>24 DEF SaveConversation, Phase
    <2>2. /\ req[r].snap = row /\ req[r].message \in Nat
          /\ row.last_message < req[r].message /\ req[r].message <= messages
      BY <1>0, <2>1 DEF SerialCall, Call
    <2>3. /\ row'.admins = row.admins /\ row'.blocked = row.blocked
          /\ row'.subject = row.subject /\ row'.last_message = req[r].message
      BY <1>0, <2>1, <2>2 DEF Row
    <2>4. ACL!Post
      BY <1>0, <2>1, <2>2, <2>3 DEF ACL!Post
    <2>5. QED
      BY <1>1, <1>5, <2>1, <2>2, <2>3, <2>4 DEF ACL!Next
  <1>25. ASSUME Abort(r) PROVE SInv' /\ [ACL!Next]_(ACL!vars)
    <2>1. req[r].phase \in Phase /\ Finish(r) /\ UNCHANGED <<type, row, users, messages>>
      BY <1>25 DEF Abort, InFlight, TypeOK, Call
    <2>2. QED
      BY <1>0, <1>1, <1>2, <1>5, <2>1
  <1>26. CASE Start(r)
    BY <1>7, <1>8, <1>26 DEF Start, Op, ProfileOp
  <1>27. CASE Handle(r)
    BY <1>9, <1>10, <1>11, <1>12, <1>13, <1>15, <1>16, <1>17, <1>18, <1>19, <1>20, <1>21, <1>22,
       <1>23, <1>24, <1>27 DEF Handle
  <1>28. QED
    BY <1>25, <1>26, <1>27

\* Handled one at a time, the requests, which may end anywhere, implement the
\* access list: what is checked of the object is then true of the row when it is
\* written.
THEOREM ConversationImplementsAccessList ==
    ASSUME Workers = 1
    PROVE  Spec => ImplementsAccessList
  <1>1. Init => SInv /\ ACL!Init
    BY InitSInv
  <1>2. TypeOK /\ TypeOK' /\ SInv /\ [Next]_vars => SInv' /\ [ACL!Next]_(ACL!vars)
    <2> SUFFICES ASSUME TypeOK, TypeOK', SInv, [Next]_vars
                 PROVE  SInv' /\ [ACL!Next]_(ACL!vars)
      OBVIOUS
    <2>1. CASE UNCHANGED vars
      <3>1. SInv'
        BY <2>1 DEF vars, SInv, SerialCall, ACL!Insider, ACL!Administers
      <3>2. UNCHANGED ACL!vars
        BY <2>1 DEF vars, ACL!vars
      <3>3. QED
        BY <3>1, <3>2
    <2>2. ASSUME NEW r \in Request, Start(r) \/ Handle(r) \/ Abort(r)
          PROVE  SInv' /\ [ACL!Next]_(ACL!vars)
      BY <2>2, StepSerial
    <2>3. QED
      BY <2>1, <2>2 DEF Next
  <1>3. QED
    BY <1>1, <1>2, ConversationTypeOK, PTL DEF Spec, ImplementsAccessList, ACL!Spec
-----------------------------------------------------------------------------
\* What is known of a request q however many others there are: its object is an
\* old version of the row, what was checked of it holds of that version for good,
\* and its message is newer than the last one of that version.
SeenInv(q, t, n) ==
    /\ q.snap.last_message <= n
    /\ q.phase \in {"validate", "write"} => q.op \in ProfileOp /\ q.actor \notin q.snap.blocked
    /\ q.phase = "write" /\ q.op = "unblock" => q.profile \in q.snap.blocked
    /\ q.phase = "update" => q.actor \in q.snap.admins \ q.snap.blocked
    /\ q.phase = "leave" => q.op = "destroy" /\ q.actor \notin q.snap.blocked
    /\ t = "public_chat" /\ q.phase \in {"send", "add_sender"} /\ q.op # "destroy" =>
          q.actor \notin q.snap.blocked
    /\ q.phase = "create" => t = "chat"
    /\ q.phase \in {"announce", "first_save", "join"} => t = "public_chat"
    /\ q.phase \in {"first_save", "add_sender", "save"} =>
          q.snap.last_message < q.message /\ q.message <= n

VInv ==
    /\ row.last_message <= messages
    /\ \A r \in Request : req[r].phase \in Phase => SeenInv(req[r], type, messages)

\* The versions of the row that the conversation and its requests hold.
Views == {row} \cup {req[r].snap : r \in InFlight}

LEMMA InFlightIs ==
    ASSUME TypeOK
    PROVE  InFlight = {r \in Request : req[r].phase \in Phase}
  BY DEF InFlight, TypeOK, Call, NotMade, Done, Phase

LEMMA SeenGrows ==
    ASSUME NEW q \in Call, NEW t, NEW n \in Nat, NEW m \in Nat, n <= m, SeenInv(q, t, n)
    PROVE  SeenInv(q, t, m)
  <1>1. q.snap.last_message \in Nat /\ q.message \in Nat
    BY DEF Call, Row
  <1>2. QED
    BY <1>1 DEF SeenInv

LEMMA InitShared == Init => VInv /\ Shared!Init
  <1> SUFFICES ASSUME Init PROVE VInv /\ Shared!Init
    OBVIOUS
  <1>1. PICK s \in Subject :
           row = [admins |-> {Creator}, blocked |-> {}, subject |-> s, last_message |-> 0]
    BY DEF Init
  <1>2. PICK r \in Request :
           req = [q \in Request |->
                    IF q = r
                    THEN [phase |-> IF type = "chat" THEN "create" ELSE "announce", op |-> "create",
                          actor |-> Creator, profile |-> Creator, snap |-> row, message |-> 0]
                    ELSE NotMade]
    BY DEF Init
  <1>3. \A q \in Request : req[q].phase \in Phase => q = r
    BY <1>2 DEF NotMade, Phase
  <1>4. /\ req[r].snap = row /\ req[r].phase = IF type = "chat" THEN "create" ELSE "announce"
        /\ row.last_message = 0 /\ messages = 0 /\ type \in Type
    BY <1>1, <1>2 DEF Init
  <1>5. SeenInv(req[r], type, messages)
    BY <1>4 DEF SeenInv, Type
  <1>6. VInv
    BY <1>3, <1>4, <1>5 DEF VInv
  <1>7. \A q \in InFlight : req[q].snap = row
    BY <1>3, <1>4, InitTypeOK, InFlightIs
  <1>8. Shared!Init
    BY <1>1, <1>7 DEF Init, Type, Shared!Init
  <1>9. QED
    BY <1>6, <1>8

\* No request holds a version that was replaced before it began.
LEMMA ViewsLook ==
    ASSUME TypeOK, TypeOK', Remember, NEW r \in Request,
           \A q \in Request \ {r} : req'[q] = req[q],
           req'[r].phase \in Phase => req'[r].snap \in Views
    PROVE  Shared!Look
  <1>1. /\ InFlight = {q \in Request : req[q].phase \in Phase}
        /\ InFlight' = {q \in Request : req'[q].phase \in Phase}
    BY DEF InFlight, TypeOK, Call, NotMade, Done, Phase
  <1>2. ASSUME NEW q \in InFlight' PROVE req'[q].snap \in Views
    <2>1. CASE q = r
      BY <1>1, <2>1
    <2>2. CASE q # r
      BY <1>1, <2>2 DEF Views
    <2>3. QED
      BY <2>1, <2>2
  <1>3. Views' \subseteq Views \cup {row'} /\ row' \in Views'
    BY <1>2 DEF Views
  <1>4. QED
    BY <1>3 DEF Shared!Look, Views, Remember

\* One step of a request among others keeps VInv and is a step on one version of the
\* row, or none.
LEMMA StepShared ==
    ASSUME TypeOK, TypeOK', IInv, VInv, NEW r \in Request,
           Start(r) \/ Handle(r) \/ Abort(r), Remember
    PROVE  VInv' /\ [Shared!Next]_(Shared!vars)
  <1> USE ConversationAssumption
  <1> DEFINE Others == \A p \in Request \ {r} : req'[p] = req[p]
             Kept == req'[r].phase \in Phase => req'[r].snap \in Views
             Acts == Shared!Idle \/ Shared!Open \/ \E v \in Views : Shared!Act(v)
             Goal == VInv' /\ [Shared!Next]_(Shared!vars)
  <1>0. /\ row \in Row /\ row.last_message \in Nat /\ messages \in Nat /\ row \in Views
        /\ row.last_message <= messages
    BY DEF TypeOK, VInv, Row, Views
  <1>1. ASSUME req[r].phase \in Phase
        PROVE  /\ req[r] \in Call /\ req[r].snap \in Row /\ req[r].snap.last_message \in Nat
               /\ req[r].actor \in User /\ req[r].profile \in User /\ req[r].message \in Nat
               /\ req[r].snap \in Views
               /\ SeenInv(req[r], type, messages) /\ CallInv(req[r], type, everUser, everAdmin)
    <2>1. req[r] \in Call
      BY <1>1, CallTyped DEF TypeOK
    <2>2. req[r].snap \in Views
      BY <1>1, InFlightIs DEF Views
    <2>3. QED
      BY <1>1, <2>1, <2>2 DEF VInv, IInv, Call, Row
  <1>2. ASSUME Others, Kept, Acts, type' = type, messages' \in Nat, messages <= messages',
               row'.last_message <= messages',
               req'[r].phase \in Phase => SeenInv(req'[r], type, messages')
        PROVE  Goal
    <2>1. ASSUME NEW q \in Request, req'[q].phase \in Phase
          PROVE  SeenInv(req'[q], type, messages')
      <3>1. CASE q = r
        BY <1>2, <2>1, <3>1
      <3>2. CASE q # r
        <4>1. req'[q] = req[q] /\ req[q] \in Call /\ SeenInv(req[q], type, messages)
          BY <1>2, <2>1, <3>2, CallTyped DEF VInv, TypeOK
        <4>2. QED
          BY <1>0, <1>2, <4>1, SeenGrows
      <3>3. QED
        BY <3>1, <3>2
    <2>2. VInv'
      BY <1>2, <2>1 DEF VInv
    <2>3. Shared!Look
      BY <1>2, ViewsLook
    <2>4. Shared!Next
      BY <1>2, <2>3 DEF Shared!Next, Views
    <2>5. QED
      BY <2>2, <2>4
  <1>3. ASSUME UNCHANGED <<type, row, users>> PROVE Acts
    BY <1>3 DEF Shared!Idle, Shared!ListStays
  <1>4. ASSUME Finish(r) PROVE Others /\ req'[r].phase \notin Phase
    BY <1>4 DEF Finish, Done, Phase, TypeOK
  <1>5. ASSUME NEW phase, Goto(r, phase), req[r].phase \in Phase
        PROVE  /\ Others /\ req'[r].phase = phase
               /\ req'[r].snap = req[r].snap /\ req'[r].op = req[r].op
               /\ req'[r].actor = req[r].actor /\ req'[r].profile = req[r].profile
               /\ req'[r].message = req[r].message
    BY <1>1, <1>5 DEF Goto, TypeOK, Call
  \* A request that is done, having changed the members or nothing.
  <1>6. ASSUME Finish(r), Acts, UNCHANGED <<type, messages>>, row'.last_message <= messages
        PROVE  Goal
    BY <1>0, <1>2, <1>4, <1>6
  <1>7. ASSUME NEW op \in Op \ {"create"}, NEW u \in User, NEW p \in User, GetObject(r, op, u, p)
        PROVE  Goal
    <2> DEFINE q == [phase |-> NextPhase[op], op |-> op, actor |-> u, profile |-> p,
                     snap |-> row, message |-> 0]
    <2>1. /\ u \notin row.blocked /\ HasObjectPermission(q)
          /\ req' = [req EXCEPT ![r] = q] /\ UNCHANGED <<type, row, users, messages>>
      BY <1>7 DEF GetObject
    <2>2. /\ q.phase \in {"send", "leave", "update", "validate"} /\ q.snap = row
          /\ q.op = op /\ q.actor = u
          /\ q.phase = "update" => op = "update"
          /\ q.phase = "leave" => op = "destroy"
          /\ q.phase = "validate" => op \in ProfileOp
      BY DEF NextPhase, Op, ProfileOp
    <2> HIDE DEF q
    <2>3. op = "update" => u \in row.admins
      BY <2>1, <2>2 DEF HasObjectPermission, IsAdmin
    <2>4. Others /\ req'[r] = q
      BY <2>1 DEF TypeOK
    <2>5. SeenInv(q, type, messages)
      BY <1>0, <2>1, <2>2, <2>3 DEF SeenInv
    <2>6. QED
      BY <1>0, <1>2, <1>3, <2>1, <2>2, <2>4, <2>5
  <1>8. ASSUME NEW u \in User, NEW p \in User, ContinueChat(r, u, p)
        PROVE  Goal
    <2> DEFINE q == [phase |-> "send", op |-> "reply", actor |-> u,
                     profile |-> u, snap |-> row, message |-> 0]
    <2>1. /\ type = "chat"
          /\ req' = [req EXCEPT ![r] = q] /\ UNCHANGED <<type, row, users, messages>>
      BY <1>8 DEF ContinueChat
    <2>2. q.phase = "send" /\ q.snap = row
      OBVIOUS
    <2> HIDE DEF q
    <2>3. Others /\ req'[r] = q
      BY <2>1 DEF TypeOK
    <2>4. SeenInv(q, type, messages)
      BY <1>0, <2>1, <2>2 DEF SeenInv
    <2>5. QED
      BY <1>0, <1>2, <1>3, <2>1, <2>2, <2>3, <2>4
  <1>9. ASSUME CreateChat(r) PROVE Goal
    <2>1. /\ req[r].phase = "create" /\ req[r].phase \in Phase /\ Goto(r, "send")
          /\ users' = users \cup Participants /\ UNCHANGED <<type, row, messages>>
      BY <1>9 DEF CreateChat, Phase
    <2>2. type = "chat"
      BY <1>1, <2>1 DEF SeenInv
    <2>3. SeenInv(req'[r], type, messages)
      BY <1>1, <1>5, <2>1, <2>2 DEF SeenInv
    <2>4. Shared!Open
      BY <2>1, <2>2 DEF Shared!Open, Shared!ListStays
    <2>5. QED
      BY <1>0, <1>1, <1>2, <1>5, <2>1, <2>3, <2>4
  <1>10. ASSUME AnnouncePublicChat(r) PROVE Goal
    <2> DEFINE q == [req[r] EXCEPT !.message = messages + 1, !.phase = "first_save"]
    <2>1. /\ req[r].phase = "announce" /\ req[r].phase \in Phase
          /\ messages' = messages + 1 /\ req' = [req EXCEPT ![r] = q] /\ UNCHANGED <<type, row, users>>
      BY <1>10 DEF AnnouncePublicChat, Phase
    <2>2. q.phase = "first_save" /\ q.message = messages + 1 /\ q.snap = req[r].snap
      BY <1>1, <2>1 DEF Call
    <2> HIDE DEF q
    <2>3. Others /\ req'[r] = q
      BY <2>1 DEF TypeOK
    <2>4. SeenInv(q, type, messages')
      BY <1>0, <1>1, <2>1, <2>2 DEF SeenInv
    <2>5. QED
      BY <1>0, <1>1, <1>2, <1>3, <2>1, <2>2, <2>3, <2>4
  <1>11. ASSUME req[r].phase \in {"first_save", "save"},
                row' = [req[r].snap EXCEPT !.last_message = req[r].message],
                UNCHANGED <<type, users, messages>>
         PROVE  Acts /\ row'.last_message <= messages
    <2>1. /\ req[r].phase \in Phase /\ req[r].snap.last_message < req[r].message
          /\ req[r].message <= messages /\ req[r].message \in Nat
          /\ req[r].snap \in Row /\ req[r].snap \in Views
      BY <1>1, <1>11 DEF Phase, SeenInv
    <2>2. row'.last_message = req[r].message
      BY <1>11, <2>1 DEF Row
    <2>3. Shared!Post(req[r].snap)
      BY <1>11, <2>1, <2>2 DEF Shared!Post
    <2>4. QED
      BY <2>1, <2>2, <2>3 DEF Shared!Act
  <1>12. ASSUME SavePublicChat(r) PROVE Goal
    <2>1. /\ req[r].phase = "first_save" /\ req[r].phase \in Phase /\ Goto(r, "join")
          /\ row' = [req[r].snap EXCEPT !.last_message = req[r].message]
          /\ UNCHANGED <<type, users, messages>>
      BY <1>12 DEF SavePublicChat, Phase
    <2>2. Acts /\ row'.last_message <= messages
      BY <1>11, <2>1
    <2>3. SeenInv(req'[r], type, messages)
      BY <1>1, <1>5, <2>1 DEF SeenInv
    <2>4. QED
      BY <1>0, <1>1, <1>2, <1>5, <2>1, <2>2, <2>3
  <1>13. ASSUME JoinPublicChat(r) PROVE Goal
    <2>1. /\ req[r].phase = "join" /\ req[r].phase \in Phase /\ Finish(r)
          /\ users' = users \cup {Creator} /\ UNCHANGED <<type, row, messages>>
      BY <1>13 DEF JoinPublicChat, Phase
    <2>2. type = "public_chat"
      BY <1>1, <2>1 DEF SeenInv
    <2>3. Shared!Open
      BY <2>1, <2>2 DEF Shared!Open, Shared!ListStays
    <2>4. QED
      BY <1>0, <1>6, <2>1, <2>3
  <1>14. ASSUME Validate(r) PROVE Goal
    <2>1. /\ req[r].phase = "validate" /\ req[r].phase \in Phase /\ Goto(r, "write")
          /\ Condition(req[r]) /\ UNCHANGED <<type, row, users, messages>>
      BY <1>14 DEF Validate, Phase
    <2>2. req[r].op = "unblock" => req[r].profile \in req[r].snap.blocked
      BY <2>1 DEF Condition, UnblockCondition
    <2>3. SeenInv(req'[r], type, messages)
      BY <1>1, <1>5, <2>1, <2>2 DEF SeenInv
    <2>4. QED
      BY <1>0, <1>1, <1>2, <1>3, <1>5, <2>1, <2>3
  <1>15. ASSUME req[r].phase = "write"
         PROVE  /\ req[r].phase \in Phase /\ Shared!Administers(req[r].snap, req[r].actor, req[r].profile)
                /\ req[r].snap \in Row /\ req[r].snap \in Views
                /\ req[r].actor \in User /\ req[r].profile \in User
                /\ req[r].op = "add" => <<req[r].profile, req[r].actor>> \in Listening
                /\ req[r].op \in {"promote", "block"} => req[r].profile \in everUser
                /\ req[r].op = "unblock" => req[r].profile \in req[r].snap.blocked
    <2>1. req[r].phase \in Phase
      BY <1>15 DEF Phase
    <2>2. QED
      BY <1>1, <1>15, <2>1 DEF SeenInv, CallInv, Shared!Administers
  <1>16. ASSUME AddProfile(r) PROVE Goal
    <2>1. /\ req[r].phase = "write" /\ req[r].op = "add" /\ Finish(r)
          /\ users' = users \cup {req[r].profile} /\ UNCHANGED <<type, row, messages>>
      BY <1>16 DEF AddProfile
    <2>2. Shared!Add(req[r].snap, req[r].actor, req[r].profile)
      BY <1>15, <2>1 DEF Shared!Add, Shared!ListStays
    <2>3. Acts
      BY <1>15, <2>1, <2>2 DEF Shared!Act
    <2>4. QED
      BY <1>0, <1>6, <2>1, <2>3
  <1>17. ASSUME RemoveProfile(r) PROVE Goal
    <2>1. /\ req[r].phase = "write" /\ req[r].op = "remove" /\ Finish(r)
          /\ users' = users \ {req[r].profile} /\ UNCHANGED <<type, row, messages>>
      BY <1>17 DEF RemoveProfile
    <2>2. Acts
      <3>1. CASE req[r].profile \in users
        <4>1. Shared!Remove(req[r].snap, req[r].actor, req[r].profile)
          BY <1>15, <2>1, <3>1 DEF Shared!Remove, Shared!ListStays
        <4>2. QED
          BY <1>15, <2>1, <4>1 DEF Shared!Act
      <3>2. CASE req[r].profile \notin users
        BY <1>3, <2>1, <3>2
      <3>3. QED
        BY <3>1, <3>2
    <2>3. QED
      BY <1>0, <1>6, <2>1, <2>2
  <1>18. ASSUME PromoteAdmin(r) PROVE Goal
    <2>1. /\ req[r].phase = "write" /\ req[r].op = "promote" /\ Finish(r)
          /\ UNCHANGED <<type, users, messages>>
          /\ row' = IF req[r].profile \in req[r].snap.admins THEN row
                    ELSE [row EXCEPT !.admins = req[r].snap.admins \cup {req[r].profile}]
      BY <1>18 DEF PromoteAdmin
    <2>2. row'.last_message = row.last_message
      BY <1>0, <2>1 DEF Row
    <2>3. Acts
      <3>1. CASE req[r].profile \in req[r].snap.admins
        BY <1>3, <2>1, <3>1
      <3>2. CASE req[r].profile \notin req[r].snap.admins
        <4>1. Shared!Promote(req[r].snap, req[r].actor, req[r].profile)
          BY <1>15, <2>1, <3>2 DEF Shared!Promote
        <4>2. QED
          BY <1>15, <2>1, <4>1 DEF Shared!Act
      <3>3. QED
        BY <3>1, <3>2
    <2>4. QED
      BY <1>0, <1>6, <2>1, <2>2, <2>3
  <1>19. ASSUME BlockProfile(r) PROVE Goal
    <2>1. /\ req[r].phase = "write" /\ req[r].op = "block" /\ Finish(r)
          /\ UNCHANGED <<type, users, messages>>
          /\ row' = IF req[r].profile \in req[r].snap.blocked THEN row
                    ELSE [row EXCEPT !.admins = req[r].snap.admins \ {req[r].profile},
                                     !.blocked = req[r].snap.blocked \cup {req[r].profile}]
      BY <1>19 DEF BlockProfile
    <2>2. row'.last_message = row.last_message
      BY <1>0, <2>1 DEF Row
    <2>3. Acts
      <3>1. CASE req[r].profile \in req[r].snap.blocked
        BY <1>3, <2>1, <3>1
      <3>2. CASE req[r].profile \notin req[r].snap.blocked
        <4>1. Shared!Block(req[r].snap, req[r].actor, req[r].profile)
          BY <1>15, <2>1, <3>2 DEF Shared!Block
        <4>2. QED
          BY <1>15, <2>1, <4>1 DEF Shared!Act
      <3>3. QED
        BY <3>1, <3>2
    <2>4. QED
      BY <1>0, <1>6, <2>1, <2>2, <2>3
  <1>20. ASSUME UnblockProfile(r) PROVE Goal
    <2>1. /\ req[r].phase = "write" /\ req[r].op = "unblock" /\ Finish(r)
          /\ UNCHANGED <<type, users, messages>>
          /\ row' = [row EXCEPT !.blocked = req[r].snap.blocked \ {req[r].profile}]
      BY <1>20 DEF UnblockProfile
    <2>2. row'.last_message = row.last_message
      BY <1>0, <2>1 DEF Row
    <2>3. Shared!Unblock(req[r].snap, req[r].actor, req[r].profile)
      BY <1>15, <2>1 DEF Shared!Unblock
    <2>4. Acts
      BY <1>15, <2>1, <2>3 DEF Shared!Act
    <2>5. QED
      BY <1>0, <1>6, <2>1, <2>2, <2>4
  <1>21. ASSUME NEW s \in Subject, UpdateSubject(r, s) PROVE Goal
    <2>1. /\ req[r].phase = "update" /\ req[r].phase \in Phase /\ Finish(r)
          /\ UNCHANGED <<type, users, messages>> /\ row' = [row EXCEPT !.subject = s]
      BY <1>21 DEF UpdateSubject, Phase
    <2>2. req[r].snap \in Views /\ req[r].actor \in req[r].snap.admins \ req[r].snap.blocked
      BY <1>1, <2>1 DEF SeenInv
    <2>3. row'.last_message = row.last_message
      BY <1>0, <2>1 DEF Row
    <2>4. Shared!Rename(req[r].snap, s)
      BY <2>1, <2>2 DEF Shared!Rename
    <2>5. Acts
      BY <2>2, <2>4 DEF Shared!Act
    <2>6. QED
      BY <1>0, <1>6, <2>1, <2>3, <2>5
  <1>22. ASSUME Leave(r) PROVE Goal
    <2>1. /\ req[r].phase = "leave" /\ req[r].phase \in Phase /\ Goto(r, "send")
          /\ users' = IF req[r].actor \in Contributors(req[r].snap)
                      THEN users \ {req[r].actor} ELSE users
          /\ UNCHANGED <<type, row, messages>>
      BY <1>22 DEF Leave, Phase
    <2>2. SeenInv(req'[r], type, messages)
      BY <1>1, <1>5, <2>1 DEF SeenInv
    <2>3. Acts
      <3>1. CASE req[r].actor \in Contributors(req[r].snap)
        <4>1. Shared!Leave(req[r].snap, req[r].actor)
          BY <2>1, <3>1 DEF Shared!Leave, Shared!ListStays, Contributors
        <4>2. QED
          BY <1>1, <2>1, <4>1 DEF Shared!Act
      <3>2. CASE req[r].actor \notin Contributors(req[r].snap)
        BY <1>3, <2>1, <3>2
      <3>3. QED
        BY <3>1, <3>2
    <2>4. QED
      BY <1>0, <1>1, <1>2, <1>5, <2>1, <2>2, <2>3
  <1>23. ASSUME SendMessage(r) PROVE Goal
    <2> DEFINE q == [req[r] EXCEPT !.message = messages + 1, !.phase = "add_sender"]
    <2>1. /\ req[r].phase = "send" /\ req[r].phase \in Phase
          /\ messages' = messages + 1 /\ req' = [req EXCEPT ![r] = q] /\ UNCHANGED <<type, row, users>>
      BY <1>23 DEF SendMessage, Phase
    <2>2. /\ q.phase = "add_sender" /\ q.message = messages + 1 /\ q.snap = req[r].snap
          /\ q.op = req[r].op /\ q.actor = req[r].actor
      BY <1>1, <2>1 DEF Call
    <2> HIDE DEF q
    <2>3. Others /\ req'[r] = q
      BY <2>1 DEF TypeOK
    <2>4. SeenInv(q, type, messages')
      BY <1>0, <1>1, <2>1, <2>2 DEF SeenInv
    <2>5. QED
      BY <1>0, <1>1, <1>2, <1>3, <2>1, <2>2, <2>3, <2>4
  <1>24. ASSUME AddSender(r) PROVE Goal
    <2>1. /\ req[r].phase = "add_sender" /\ req[r].phase \in Phase /\ Goto(r, "save")
          /\ users' = IF req[r].op = "destroy" THEN users ELSE users \cup {req[r].actor}
          /\ UNCHANGED <<type, row, messages>>
      BY <1>24 DEF AddSender, Phase
    <2>2. SeenInv(req'[r], type, messages)
      BY <1>1, <1>5, <2>1 DEF SeenInv
    <2>3. Acts
      <3>1. CASE req[r].op = "destroy"
        BY <1>3, <2>1, <3>1
      <3>2. CASE req[r].op # "destroy"
        <4>1. IF type = "chat" THEN req[r].actor \in everUser ELSE req[r].actor \notin req[r].snap.blocked
          BY <1>1, <2>1, <3>2 DEF SeenInv, CallInv, TypeOK, Type
        <4>2. Shared!Join(req[r].snap, req[r].actor)
          BY <2>1, <3>2, <4>1 DEF Shared!Join, Shared!ListStays
        <4>3. QED
          BY <1>1, <2>1, <4>2 DEF Shared!Act
      <3>3. QED
        BY <3>1, <3>2
    <2>4. QED
      BY <1>0, <1>1, <1>2, <1>5, <2>1, <2>2, <2>3
  <1>25. ASSUME SaveConversation(r) PROVE Goal
    <2>1. /\ req[r].phase = "save" /\ Finish(r)
          /\ row' = [req[r].snap EXCEPT !.last_message = req[r].message]
          /\ UNCHANGED <<type, users, messages>>
      BY <1>25 DEF SaveConversation
    <2>2. QED
      BY <1>6, <1>11, <2>1
  <1>26. ASSUME Abort(r) PROVE Goal
    BY <1>0, <1>3, <1>6, <1>26 DEF Abort
  <1>27. CASE Start(r)
    BY <1>7, <1>8, <1>27 DEF Start, Op, ProfileOp
  <1>28. CASE Handle(r)
    BY <1>9, <1>10, <1>12, <1>13, <1>14, <1>16, <1>17, <1>18, <1>19, <1>20, <1>21, <1>22,
       <1>23, <1>24, <1>25, <1>28 DEF Handle
  <1>29. QED
    BY <1>26, <1>27, <1>28

\* However many requests overlap, each statement that changes the conversation is
\* a step of the shared access list: what one operation makes of one version of the
\* row, which was the current one when some request in flight began.
THEOREM ConversationImplementsSharedList == Spec => ImplementsSharedList
  <1>1. TypeOK /\ TypeOK' /\ IInv /\ VInv /\ [Next]_vars => VInv' /\ [Shared!Next]_(Shared!vars)
    <2> SUFFICES ASSUME TypeOK, TypeOK', IInv, VInv, [Next]_vars
                 PROVE  VInv' /\ [Shared!Next]_(Shared!vars)
      OBVIOUS
    <2>1. CASE UNCHANGED vars
      <3>1. VInv'
        BY <2>1 DEF vars, VInv
      <3>2. UNCHANGED Shared!vars
        BY <2>1 DEF vars, Shared!vars, InFlight
      <3>3. QED
        BY <3>1, <3>2
    <2>2. ASSUME NEW r \in Request, Start(r) \/ Handle(r) \/ Abort(r), Remember
          PROVE  VInv' /\ [Shared!Next]_(Shared!vars)
      BY <2>2, StepShared
    <2>3. QED
      BY <2>1, <2>2 DEF Next
  <1>2. QED
    BY <1>1, InitShared, ConversationTypeOK, InvariantHolds, PTL
    DEF Spec, ImplementsSharedList, Shared!Spec
=============================================================================
