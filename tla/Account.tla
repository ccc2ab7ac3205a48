------------------------------ MODULE Account ------------------------------
(***************************************************************************)
(* Signing up, in and out, on a device that several users share, and what  *)
(* a session leaves behind.  createUser and signIn are asynchronous; the   *)
(* user document is written by the app, in the completion block of         *)
(* createUser.  The home screen is made anew for every session.            *)
(*                                                                         *)
(* The reads, writes and timers of a session outlive it: nothing cancels   *)
(* them.  Of the home screen only what tells the sessions apart is here:   *)
(* the fetch, which keeps the user it was begun for, an add, whose block   *)
(* writes one document of the user it read and one of the user signed in   *)
(* by then, and timers, which write to the user signed in when they end.   *)
(* A definition that stands directly before another and is used nowhere is *)
(* that other one with a plausible mistake.                                *)
(***************************************************************************)
EXTENDS Integers, Sequences, SequencesExt

CONSTANTS
    Users,        \* the people, each with an email address
    NoUser,       \* currentUser is nil
    MaxRequests,  \* bound: sign ups and logins
    MaxCalls,     \* bound: adds and timers under way at a time
    MaxHabits     \* bound: habits of a user when one is added

ASSUME NoUserAssumption == NoUser \notin Users
ASSUME BoundsAssumption == {MaxRequests, MaxCalls, MaxHabits} \subseteq Nat

VARIABLES
    accounts,     \* users Firebase Auth has an account of
    currentUser,  \* Auth.auth().currentUser, kept in the keychain
    userDocs,     \* documents users/<uid>: user -> habitCounter
    unsaved,      \* user documents the backend has not acknowledged
    habits,       \* habit documents: user -> number -> who wrote it
    front,        \* "login", "signUp" presented over it, or "home"
    home,         \* the home screen in the window: its user, and rows of its list
    fetching,     \* its fetch has not been answered
    requests,     \* createUser and signIn calls that have not been answered
    authBlocks,   \* their completion blocks in the main queue
    adds,         \* adds whose read has not been answered
    addBlocks,    \* adds whose completion block waits in the main queue
    timers,       \* running timers, of this and of earlier sessions
    app,          \* "running", or how the process trapped
    asked,        \* sign ups and logins so far
    calm,         \* history: no user has left while anything was under way
    single,       \* history: no sign up or login was begun while one was pending
    sound         \* history: no sign up was cut off between its two writes

authVars  == <<accounts, currentUser, requests, authBlocks>>
storeVars == <<userDocs, unsaved, habits>>
homeVars  == <<home, fetching>>
callVars  == <<adds, addBlocks, timers>>
histVars  == <<asked, calm, single, sound>>
vars      == <<authVars, storeVars, front, homeVars, callVars, app, histVars>>

NoHome == [user |-> NoUser, rows |-> 0]

(* Blocks and timers that will ask for currentUser. *)
Underway == Len(adds) + Len(addBlocks) + Cardinality(timers)

Begins == Underway < MaxCalls

Quiet == adds = <<>> /\ addBlocks = <<>> /\ timers = {} /\ ~fetching

(* The user changes. *)
Becomes(u) ==
    /\ currentUser' = u
    /\ calm' = (calm /\ (u = currentUser \/ Quiet))

Running == app = "running"

----------------------------------------------------------------------------
\* The screens before home

ShowSignUp ==
    /\ Running /\ front = "login"
    /\ front' = "signUp"
    /\ UNCHANGED <<authVars, storeVars, homeVars, callVars, app, histVars>>

(* Screens that have left the window: their blocks find view.window nil. *)
Offscreen(calls, kinds) ==
    [i \in DOMAIN calls |->
        IF calls[i].kind \in kinds THEN [calls[i] EXCEPT !.inWindow = FALSE] ELSE calls[i]]

DismissSignUp ==
    /\ Running /\ front = "signUp"
    /\ front' = "login"
    /\ requests' = Offscreen(requests, {"signUp"})
    /\ authBlocks' = Offscreen(authBlocks, {"signUp"})
    /\ UNCHANGED <<accounts, currentUser, storeVars, homeVars, callVars, app, histVars>>

(* The fields are filled in; nothing keeps the button from a second tap. *)
Request(kind, u) ==
    /\ Running
    /\ asked < MaxRequests
    /\ asked' = asked + 1
    /\ requests' = Append(requests, [kind |-> kind, user |-> u, inWindow |-> TRUE])
    /\ single' = (single /\ requests = <<>> /\ authBlocks = <<>>)
    /\ UNCHANGED <<accounts, currentUser, authBlocks, storeVars, front, homeVars, callVars,
                   app, calm, sound>>

TapSignUp(u) == front = "signUp" /\ Request("signUp", u)
TapLogin(u)  == front = "login" /\ Request("signIn", u)

----------------------------------------------------------------------------
\* Firebase Auth

Answered(i, ok) ==
    /\ authBlocks' = Append(authBlocks, [kind |-> requests[i].kind,
                                         user |-> requests[i].user, ok |-> ok,
                                         inWindow |-> requests[i].inWindow])
    /\ requests' = RemoveAt(requests, i)

(* An account is made only if there is none, and signed in only if there is
   one; the user is current before the block runs. *)
AuthSucceeds(i) ==
    /\ Running
    /\ requests[i].kind = "signUp" <=> requests[i].user \notin accounts
    /\ accounts' = accounts \cup {requests[i].user}
    /\ Becomes(requests[i].user)
    /\ Answered(i, TRUE)
    /\ UNCHANGED <<storeVars, front, homeVars, callVars, app, asked, single, sound>>

(* Refused, or without connection. *)
AuthFails(i) ==
    /\ Running
    /\ Answered(i, FALSE)
    /\ UNCHANGED <<accounts, currentUser, storeVars, front, homeVars, callVars, app,
                   histVars>>

(* The account is made and the answer lost. *)
AnswerLost(i) ==
    /\ Running
    /\ requests[i].kind = "signUp"
    /\ requests[i].user \notin accounts
    /\ accounts' = accounts \cup {requests[i].user}
    /\ Answered(i, FALSE)
    /\ sound' = FALSE
    /\ UNCHANGED <<currentUser, storeVars, front, homeVars, callVars, app, asked, calm, single>>

----------------------------------------------------------------------------
\* The completion blocks

(* A new tab bar is the root of the window, and its home screen begins a fetch
   for the user of the moment. *)
ReuseHome ==
    /\ front' = "home"
    /\ home' = IF home = NoHome THEN [user |-> currentUser, rows |-> 0] ELSE home
    /\ fetching' = TRUE
    /\ requests' = Offscreen(requests, {"signUp", "signIn"})
    /\ authBlocks' = Offscreen(Tail(authBlocks), {"signUp", "signIn"})
EnterHome ==
    /\ front' = "home"
    /\ home' = [user |-> currentUser, rows |-> 0]
    /\ fetching' = TRUE
    /\ requests' = Offscreen(requests, {"signUp", "signIn"})
    /\ authBlocks' = Offscreen(Tail(authBlocks), {"signUp", "signIn"})

StayHere ==
    /\ authBlocks' = Tail(authBlocks)
    /\ UNCHANGED <<requests, front, homeVars>>

(* transitionToHome does not wait for the document to be acknowledged. *)
TransitionWhenSaved(block) == block.inWindow /\ block.user \notin unsaved'
Transition(block)          == block.inWindow

(* setData of the new user's document, visible to reads at once. *)
DocumentIfShown(block) ==
    IF block.inWindow
    THEN [u \in DOMAIN userDocs \cup {block.user} |->
             IF u = block.user THEN 0 ELSE userDocs[u]]
    ELSE userDocs
NewDocument(block) ==
    [u \in DOMAIN userDocs \cup {block.user} |-> IF u = block.user THEN 0 ELSE userDocs[u]]

RunSignUp ==
    /\ Running
    /\ authBlocks # <<>>
    /\ LET block == Head(authBlocks) IN
       /\ block.kind = "signUp"
       /\ IF block.ok
          THEN /\ userDocs' = NewDocument(block)
               /\ unsaved' = unsaved \cup {block.user}
               /\ IF Transition(block) THEN EnterHome ELSE StayHere
          ELSE StayHere /\ UNCHANGED <<userDocs, unsaved>>
    /\ UNCHANGED <<accounts, currentUser, habits, callVars, app, histVars>>

RunSignIn ==
    /\ Running
    /\ authBlocks # <<>>
    /\ LET block == Head(authBlocks) IN
       /\ block.kind = "signIn"
       /\ IF block.ok /\ block.inWindow THEN EnterHome ELSE StayHere
    /\ UNCHANGED <<accounts, currentUser, storeVars, callVars, app, histVars>>

(* The backend has the document, or refuses it: showError, on a screen that is
   gone, and the local document is taken back. *)
Acknowledge(u) ==
    /\ Running
    /\ unsaved' = unsaved \ {u}
    /\ UNCHANGED <<authVars, userDocs, habits, front, homeVars, callVars, app, histVars>>

Reject(u) ==
    /\ Running
    /\ unsaved' = unsaved \ {u}
    /\ userDocs' = [v \in DOMAIN userDocs \ {u} |-> userDocs[v]]
    /\ sound' = FALSE
    /\ UNCHANGED <<authVars, habits, front, homeVars, callVars, app, asked, calm, single>>

----------------------------------------------------------------------------
\* A session

Counted(u) == 0..(userDocs[u] - 1)

(* The documents of the home screen's user are answered: a user without
   document, or a counted habit without one, traps in a forced cast. *)
FetchAnswered ==
    /\ Running /\ fetching
    /\ LET u == home.user IN
       IF u \in DOMAIN userDocs /\ Counted(u) \subseteq DOMAIN habits[u]
       THEN /\ home' = [home EXCEPT !.rows = userDocs[u]]
            /\ fetching' = FALSE
            /\ UNCHANGED app
       ELSE app' = "castTrap" /\ UNCHANGED homeVars
    /\ UNCHANGED <<authVars, storeVars, front, callVars, histVars>>

(* addHabitButtonTapped: habitCounterRef is the document of the user of now. *)
TapAdd ==
    /\ Running /\ front = "home"
    /\ Begins
    /\ \A n \in DOMAIN habits[currentUser] : n < MaxHabits - 1
    /\ adds' = Append(adds, [ref |-> currentUser, by |-> home.user])
    /\ UNCHANGED <<authVars, storeVars, front, homeVars, addBlocks, timers, app, histVars>>

(* The habitCounter of the document, if it exists. *)
Missing == -1

AnswerAdd(i) ==
    /\ Running
    /\ LET ref == adds[i].ref IN
       addBlocks' = Append(addBlocks,
                           [add |-> adds[i],
                            number |-> IF ref \in DOMAIN userDocs THEN userDocs[ref]
                                       ELSE Missing])
    /\ adds' = RemoveAt(adds, i)
    /\ UNCHANGED <<authVars, storeVars, front, homeVars, timers, app, histVars>>

CounterPast(n)  == n + 2
CounterAfter(n) == n + 1

(* The block writes the habit to the user of then and the counter to the user
   of the tap, and has the home screen fetch again. *)
RunAdd ==
    /\ Running
    /\ addBlocks # <<>>
    /\ LET add == Head(addBlocks).add
           n   == Head(addBlocks).number
       IN  IF n = Missing \/ currentUser = NoUser
           THEN /\ app' = IF n = Missing THEN "castTrap" ELSE "nilTrap"
                /\ UNCHANGED <<habits, userDocs, fetching>>
           ELSE /\ habits' = [habits EXCEPT ![currentUser] =
                                 [m \in DOMAIN @ \cup {n} |->
                                     IF m = n THEN {add.by} ELSE @[m]]]
                /\ userDocs' = IF add.ref \in DOMAIN userDocs
                               THEN [userDocs EXCEPT ![add.ref] = CounterAfter(n)]
                               ELSE userDocs
                /\ fetching' = (fetching \/ add.by = home.user)
                /\ UNCHANGED app
    /\ addBlocks' = Tail(addBlocks)
    /\ UNCHANGED <<authVars, unsaved, front, home, adds, timers, histVars>>

StartTimer(r) ==
    /\ Running /\ front = "home"
    /\ r < home.rows
    /\ Begins
    /\ timers' = timers \cup {[row |-> r, by |-> home.user]}
    /\ UNCHANGED <<authVars, storeVars, front, homeVars, adds, addBlocks, app, histVars>>

(* showAlert, of a home screen that may be of an earlier session. *)
TimerEnds(t) ==
    /\ Running
    /\ timers' = timers \ {t}
    /\ IF currentUser = NoUser
       THEN app' = "nilTrap" /\ UNCHANGED habits
       ELSE /\ habits' = IF t.row \in DOMAIN habits[currentUser]
                         THEN [habits EXCEPT ![currentUser][t.row] = @ \cup {t.by}]
                         ELSE habits
            /\ UNCHANGED app
    /\ UNCHANGED <<authVars, userDocs, unsaved, front, homeVars, adds, addBlocks, histVars>>

(* The login screen is presented over the home screen, which stays. *)
SignOut ==
    /\ Running /\ front = "home"
    /\ Becomes(NoUser)
    /\ front' = "login"
    /\ UNCHANGED <<accounts, requests, authBlocks, storeVars, homeVars, callVars, app,
                   asked, single, sound>>

(* authenticateUser, when the app is started. *)
AlwaysHome  == "home"
LaunchFront == IF currentUser = NoUser THEN "login" ELSE "home"

(* The process ends and is started again.  A createUser that was sent may have
   been carried out. *)
Relaunch(made) ==
    /\ made \subseteq {requests[i].user :
                          i \in {j \in DOMAIN requests : requests[j].kind = "signUp"}}
                      \ accounts
    /\ accounts' = accounts \cup made
    /\ sound' = (sound /\ made = {}
                 /\ \A i \in DOMAIN authBlocks :
                       ~(authBlocks[i].kind = "signUp" /\ authBlocks[i].ok))
    /\ requests' = <<>> /\ authBlocks' = <<>>
    /\ adds' = <<>> /\ addBlocks' = <<>> /\ timers' = {}
    /\ front' = LaunchFront
    /\ home' = [user |-> currentUser, rows |-> 0]
    /\ fetching' = (currentUser # NoUser)
    /\ app' = "running"
    /\ UNCHANGED <<currentUser, storeVars, asked, calm, single>>

----------------------------------------------------------------------------
Init ==
    /\ accounts = {}
    /\ currentUser = NoUser
    /\ userDocs = [u \in {} |-> 0]
    /\ unsaved = {}
    /\ habits = [u \in Users |-> [n \in {} |-> {}]]
    /\ front = "login"
    /\ home = NoHome
    /\ fetching = FALSE
    /\ requests = <<>> /\ authBlocks = <<>>
    /\ adds = <<>> /\ addBlocks = <<>> /\ timers = {}
    /\ app = "running"
    /\ asked = 0 /\ calm = TRUE /\ single = TRUE /\ sound = TRUE

Person ==
    \/ ShowSignUp
    \/ DismissSignUp
    \/ \E u \in Users : TapSignUp(u) \/ TapLogin(u)
    \/ TapAdd
    \/ \E r \in 0..(home.rows - 1) : StartTimer(r)
    \/ SignOut

Auth == \E i \in DOMAIN requests : AuthSucceeds(i) \/ AuthFails(i) \/ AnswerLost(i)

MainQueue == RunSignUp \/ RunSignIn \/ RunAdd

Firestore ==
    \/ FetchAnswered
    \/ \E i \in DOMAIN adds : AnswerAdd(i)
    \/ \E u \in unsaved : Acknowledge(u) \/ Reject(u)

Next ==
    \/ Person
    \/ Auth
    \/ MainQueue
    \/ Firestore
    \/ \E t \in timers : TimerEnds(t)
    \/ \E made \in SUBSET Users : Relaunch(made)

Spec == Init /\ [][Next]_vars

(* The main queue runs its blocks.  No answer is assumed, of Auth or of
   Firestore: the device may be offline. *)
FairSpec == Spec /\ WF_vars(MainQueue)

----------------------------------------------------------------------------
\* Properties

Someone     == Users \cup {NoUser}
Kinds       == {"signUp", "signIn"}
RequestType == [kind : Kinds, user : Users, inWindow : BOOLEAN]
BlockType   == [kind : Kinds, user : Users, ok : BOOLEAN, inWindow : BOOLEAN]
AddType     == [ref : Users, by : Users]

AuthTypeOK ==
    /\ accounts \subseteq Users
    /\ currentUser \in Someone
    /\ requests \in Seq(RequestType) /\ authBlocks \in Seq(BlockType)

StoreTypeOK ==
    /\ DOMAIN userDocs \subseteq Users /\ \A u \in DOMAIN userDocs : userDocs[u] \in Nat
    /\ unsaved \subseteq Users
    /\ DOMAIN habits = Users
    /\ \A u \in Users : /\ DOMAIN habits[u] \subseteq Nat
                        /\ \A n \in DOMAIN habits[u] : habits[u][n] \subseteq Users

ScreenTypeOK ==
    /\ front \in {"login", "signUp", "home"}
    /\ front = "home" => home.user # NoUser /\ currentUser # NoUser
    /\ home \in [user : Someone, rows : Nat]
    /\ fetching \in BOOLEAN /\ (fetching => home.user # NoUser)
    /\ app \in {"running", "castTrap", "nilTrap"}

CallTypeOK ==
    /\ adds \in Seq(AddType)
    /\ addBlocks \in Seq([add : AddType, number : Nat \cup {Missing}])
    /\ timers \subseteq [row : Nat, by : Users]

BoundsOK ==
    /\ asked \in 0..MaxRequests
    /\ calm \in BOOLEAN /\ single \in BOOLEAN /\ sound \in BOOLEAN

(* The type of every variable; a home screen in front has a user, and so has
   every call it makes with currentUser!, although another screen's sign up or
   login may be answered, and its user sign out again, before a block runs. *)
TypeOK == AuthTypeOK /\ StoreTypeOK /\ ScreenTypeOK /\ CallTypeOK /\ BoundsOK

(* The home screen in front is that of the user signed in, whatever was
   answered late, dismissed, lost or ended: createUser and signIn change the
   user when they are answered, loginTapped and signUpTapped the screen in a
   later block, and only if theirs is still in the window. *)
SessionIsCurrent == single /\ front = "home" => home.user = currentUser

(* Every account has its user document, which the app writes in a second step
   (signUpTapped), or its block is about to write it: also when the sign up
   screen was dismissed meanwhile, or several sign ups were under way.  A
   process that ends between the steps, a lost answer and a refused write
   leave an account without (sound): no later step makes the document. *)
EveryAccountHasADocument ==
    sound =>
        \A u \in accounts :
            \/ u \in DOMAIN userDocs
            \/ \E i \in DOMAIN authBlocks :
                  LET block == authBlocks[i]
                  IN  block.kind = "signUp" /\ block.user = u /\ block.ok

(* No forced cast of a missing field and no currentUser! of nil traps, for
   users who make one request at a time and leave when nothing is under way:
   the document of a new user is there before the fetch of the home screen is
   answered, without waiting for the backend. *)
NoTrap == calm /\ single /\ sound => app = "running"

(* Users who share a device so never change each other's habits: the habits
   below a user document are written by their user alone. *)
HabitsAreOwn ==
    calm /\ single =>
        \A u \in Users : \A n \in DOMAIN habits[u] : habits[u][n] = {u}

Welcome(block) == block.kind = "signUp" /\ block.ok /\ block.inWindow

(* A sign up that succeeds leads off its screen, to the home screen, even if
   Firestore never answers: transitionToHome stands outside the block of the
   document's write. *)
SignUpLeadsHome ==
    (\E i \in DOMAIN authBlocks : Welcome(authBlocks[i]))
        ~> (front # "signUp" \/ app # "running")
============================================================================
