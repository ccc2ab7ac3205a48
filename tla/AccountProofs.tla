--------------------------- MODULE AccountProofs ---------------------------
(***************************************************************************)
(* Proofs about module Account, for any users and bounds.                  *)
(***************************************************************************)
EXTENDS Account, SequenceTheorems, TLAPS

----------------------------------------------------------------------------
\* Sequences of calls

LEMMA RemoveAtType ==
    ASSUME NEW S, NEW s \in Seq(S), NEW i \in 1..Len(s)
    PROVE  /\ RemoveAt(s, i) \in Seq(S)
           /\ Len(RemoveAt(s, i)) = Len(s) - 1
           /\ \A k \in 1..Len(RemoveAt(s, i)) :
                 \E j \in 1..Len(s) : RemoveAt(s, i)[k] = s[j]
<1> DEFINE before == SubSeq(s, 1, i - 1)
           after  == SubSeq(s, i + 1, Len(s))
<1>1. /\ before \in Seq(S) /\ Len(before) = i - 1
      /\ \A k \in 1..(i - 1) : before[k] = s[k]
  BY SubSeqProperties
<1>2. /\ after \in Seq(S) /\ Len(after) = Len(s) - i
      /\ \A k \in 1..(Len(s) - i) : after[k] = s[i + k]
  BY SubSeqProperties
<1> HIDE DEF before, after
<1>3. /\ before \o after \in Seq(S) /\ Len(before \o after) = Len(s) - 1
      /\ \A k \in 1..(Len(s) - 1) :
            (before \o after)[k] = IF k <= i - 1 THEN before[k] ELSE after[k - (i - 1)]
  BY <1>1, <1>2, ConcatProperties
<1>4. \A k \in 1..(Len(s) - 1) : \E j \in 1..Len(s) : (before \o after)[k] = s[j]
  <2> TAKE k \in 1..(Len(s) - 1)
  <2>1. CASE k <= i - 1
    BY <1>1, <1>3, <2>1
  <2>2. CASE ~(k <= i - 1)
    <3>1. k - (i - 1) \in 1..(Len(s) - i) /\ i + (k - (i - 1)) \in 1..Len(s)
      BY <2>2
    <3> QED
      BY <1>2, <1>3, <2>2, <3>1
  <2> QED
    BY <2>1, <2>2
<1> QED
  BY <1>3, <1>4 DEF RemoveAt, before, after

LEMMA TailType ==
    ASSUME NEW S, NEW s \in Seq(S), s # <<>>
    PROVE  /\ Head(s) \in S /\ Head(s) = s[1] /\ 1 \in 1..Len(s)
           /\ Tail(s) \in Seq(S) /\ Len(Tail(s)) = Len(s) - 1
           /\ \A k \in 1..Len(Tail(s)) : k + 1 \in 1..Len(s) /\ Tail(s)[k] = s[k + 1]
BY HeadTailProperties, ElementOfSeq, EmptySeq

LEMMA AppendType ==
    ASSUME NEW S, NEW s \in Seq(S), NEW e \in S
    PROVE  /\ Append(s, e) \in Seq(S) /\ Len(Append(s, e)) = Len(s) + 1
           /\ \A k \in 1..Len(s) : Append(s, e)[k] = s[k]
           /\ Append(s, e)[Len(s) + 1] = e
BY AppendProperties

(* Taking a screen out of the window changes nothing else of its calls. *)
LEMMA OffscreenRequests ==
    ASSUME NEW calls \in Seq(RequestType), NEW kinds
    PROVE  /\ Offscreen(calls, kinds) \in Seq(RequestType)
           /\ Len(Offscreen(calls, kinds)) = Len(calls)
           /\ \A k \in 1..Len(calls) :
                 /\ Offscreen(calls, kinds)[k].kind = calls[k].kind
                 /\ Offscreen(calls, kinds)[k].user = calls[k].user
                 /\ calls[k].kind \in kinds => ~Offscreen(calls, kinds)[k].inWindow
                 /\ Offscreen(calls, kinds)[k].inWindow => calls[k].inWindow
<1>1. \A k \in 1..Len(calls) : calls[k] \in RequestType
  BY ElementOfSeq
<1>2. \A r \in RequestType : [r EXCEPT !.inWindow = FALSE] \in RequestType
  BY DEF RequestType
<1>3. DOMAIN calls = 1..Len(calls) /\ Len(calls) \in Nat
  OBVIOUS
<1>4. Offscreen(calls, kinds) \in [1..Len(calls) -> RequestType]
  BY <1>1, <1>2, <1>3 DEF Offscreen
<1>5. Offscreen(calls, kinds) \in Seq(RequestType) /\ Len(Offscreen(calls, kinds)) = Len(calls)
  BY <1>3, <1>4
<1> QED
  BY <1>1, <1>3, <1>5 DEF Offscreen, RequestType

LEMMA OffscreenBlocks ==
    ASSUME NEW calls \in Seq(BlockType), NEW kinds
    PROVE  /\ Offscreen(calls, kinds) \in Seq(BlockType)
           /\ Len(Offscreen(calls, kinds)) = Len(calls)
           /\ \A k \in 1..Len(calls) :
                 /\ Offscreen(calls, kinds)[k].kind = calls[k].kind
                 /\ Offscreen(calls, kinds)[k].user = calls[k].user
                 /\ Offscreen(calls, kinds)[k].ok = calls[k].ok
                 /\ calls[k].kind \in kinds => ~Offscreen(calls, kinds)[k].inWindow
                 /\ Offscreen(calls, kinds)[k].inWindow => calls[k].inWindow
<1>1. \A k \in 1..Len(calls) : calls[k] \in BlockType
  BY ElementOfSeq
<1>2. \A r \in BlockType : [r EXCEPT !.inWindow = FALSE] \in BlockType
  BY DEF BlockType
<1>3. DOMAIN calls = 1..Len(calls) /\ Len(calls) \in Nat
  OBVIOUS
<1>4. Offscreen(calls, kinds) \in [1..Len(calls) -> BlockType]
  BY <1>1, <1>2, <1>3 DEF Offscreen
<1>5. Offscreen(calls, kinds) \in Seq(BlockType) /\ Len(Offscreen(calls, kinds)) = Len(calls)
  BY <1>3, <1>4
<1> QED
  BY <1>1, <1>3, <1>5 DEF Offscreen, BlockType

----------------------------------------------------------------------------
\* Type correctness

(* A home screen must not be entered without a user.  The blocks that enter it
   find their screen in the window, which is so only while no home screen is
   in front; and while it is so nobody can sign out. *)
Windows ==
    /\ front = "home" => /\ \A k \in 1..Len(requests) : ~requests[k].inWindow
                         /\ \A k \in 1..Len(authBlocks) : ~authBlocks[k].inWindow
    /\ \A k \in 1..Len(authBlocks) :
          authBlocks[k].ok /\ authBlocks[k].inWindow => currentUser # NoUser

TypeInv == TypeOK /\ Windows

ScreenVars == <<front, home, fetching, app>>

LEMMA UnchangedTypes ==
    /\ AuthTypeOK /\ UNCHANGED authVars => AuthTypeOK'
    /\ StoreTypeOK /\ UNCHANGED storeVars => StoreTypeOK'
    /\ ScreenTypeOK /\ UNCHANGED ScreenVars /\ currentUser' = currentUser => ScreenTypeOK'
    /\ CallTypeOK /\ UNCHANGED callVars => CallTypeOK'
    /\ BoundsOK /\ UNCHANGED histVars => BoundsOK'
    /\ Windows /\ UNCHANGED <<authVars, front>> => Windows'
BY DEF AuthTypeOK, authVars, StoreTypeOK, storeVars, ScreenTypeOK, ScreenVars, CallTypeOK,
       callVars, BoundsOK, histVars, Windows

LEMMA KindsDistinct == "signUp" \in Kinds /\ "signIn" \in Kinds
BY DEF Kinds

LEMMA InitType == Init => TypeInv
<1> SUFFICES ASSUME Init PROVE TypeInv
  OBVIOUS
<1> USE BoundsAssumption DEF Init
<1>1. AuthTypeOK
  BY DEF AuthTypeOK, Someone
<1>2. StoreTypeOK
  BY DEF StoreTypeOK
<1>3. ScreenTypeOK
  BY DEF ScreenTypeOK, NoHome, Someone
<1>4. CallTypeOK
  BY DEF CallTypeOK
<1>5. BoundsOK
  BY DEF BoundsOK
<1>6. Windows
  BY DEF Windows
<1> QED
  BY <1>1, <1>2, <1>3, <1>4, <1>5, <1>6 DEF TypeInv, TypeOK

LEMMA ShowSignUpType ==
    ASSUME TypeInv, ShowSignUp
    PROVE  TypeInv'
<1> USE DEF TypeInv, TypeOK, ShowSignUp, homeVars
<1>1. AuthTypeOK' /\ StoreTypeOK' /\ CallTypeOK' /\ BoundsOK'
  BY UnchangedTypes
<1>2. ScreenTypeOK'
  BY DEF ScreenTypeOK
<1>3. Windows'
  BY DEF Windows, authVars
<1> QED
  BY <1>1, <1>2, <1>3

LEMMA DismissSignUpType ==
    ASSUME TypeInv, DismissSignUp
    PROVE  TypeInv'
<1> USE DEF TypeInv, TypeOK, DismissSignUp, homeVars
<1>1. StoreTypeOK' /\ CallTypeOK' /\ BoundsOK'
  BY UnchangedTypes
<1>2. requests \in Seq(RequestType) /\ authBlocks \in Seq(BlockType)
  BY DEF AuthTypeOK
<1>3. AuthTypeOK'
  BY <1>2, OffscreenRequests, OffscreenBlocks DEF AuthTypeOK
<1>4. ScreenTypeOK'
  BY DEF ScreenTypeOK
<1>5. Windows'
  <2>1. \A k \in 1..Len(authBlocks') :
           k \in 1..Len(authBlocks) /\ authBlocks'[k].ok = authBlocks[k].ok
           /\ (authBlocks'[k].inWindow => authBlocks[k].inWindow)
    BY <1>2, OffscreenBlocks
  <2> QED
    BY <2>1 DEF Windows
<1> QED
  BY <1>1, <1>3, <1>4, <1>5

LEMMA RequestTypeKept ==
    ASSUME TypeInv, NEW kind \in Kinds, NEW u \in Users, Request(kind, u), front # "home"
    PROVE  TypeInv'
<1> USE DEF TypeInv, TypeOK, Request, homeVars
<1> DEFINE request == [kind |-> kind, user |-> u, inWindow |-> TRUE]
<1>1. StoreTypeOK' /\ CallTypeOK'
  BY UnchangedTypes
<1>2. request \in RequestType
  BY DEF RequestType
<1>3. AuthTypeOK'
  <2>1. requests \in Seq(RequestType) /\ requests' = Append(requests, request)
    BY DEF AuthTypeOK
  <2> HIDE DEF request
  <2>2. requests' \in Seq(RequestType)
    BY <1>2, <2>1
  <2> QED
    BY <2>2 DEF AuthTypeOK
<1>4. ScreenTypeOK'
  BY DEF ScreenTypeOK
<1>5. BoundsOK'
  BY BoundsAssumption DEF BoundsOK
<1>6. Windows'
  BY DEF Windows
<1> QED
  BY <1>1, <1>3, <1>4, <1>5, <1>6

(* An answer moves a request to the blocks, on the screen it was made on. *)
LEMMA AnsweredType ==
    ASSUME TypeInv, NEW i \in DOMAIN requests, NEW ok \in BOOLEAN, Answered(i, ok)
    PROVE  /\ requests' \in Seq(RequestType) /\ authBlocks' \in Seq(BlockType)
           /\ requests[i] \in RequestType
           /\ Len(requests') = Len(requests) - 1 /\ Len(authBlocks') = Len(authBlocks) + 1
           /\ \A k \in 1..Len(requests') : \E j \in 1..Len(requests) :
                 requests'[k] = requests[j]
           /\ \A k \in 1..Len(authBlocks) : authBlocks'[k] = authBlocks[k]
           /\ authBlocks'[Len(authBlocks) + 1] =
                 [kind |-> requests[i].kind, user |-> requests[i].user, ok |-> ok,
                  inWindow |-> requests[i].inWindow]
<1> DEFINE block == [kind |-> requests[i].kind, user |-> requests[i].user, ok |-> ok,
                     inWindow |-> requests[i].inWindow]
<1>1. requests \in Seq(RequestType) /\ authBlocks \in Seq(BlockType)
  BY DEF TypeInv, TypeOK, AuthTypeOK
<1>2. i \in 1..Len(requests) /\ requests[i] \in RequestType
  BY <1>1, ElementOfSeq
<1>3. block \in BlockType
  BY <1>2 DEF RequestType, BlockType
<1>4. authBlocks' = Append(authBlocks, block) /\ requests' = RemoveAt(requests, i)
  BY DEF Answered
<1> HIDE DEF block
<1>5. /\ authBlocks' \in Seq(BlockType) /\ Len(authBlocks') = Len(authBlocks) + 1
      /\ \A k \in 1..Len(authBlocks) : authBlocks'[k] = authBlocks[k]
      /\ authBlocks'[Len(authBlocks) + 1] = block
  BY <1>1, <1>3, <1>4, AppendType
<1>6. /\ requests' \in Seq(RequestType) /\ Len(requests') = Len(requests) - 1
      /\ \A k \in 1..Len(requests') : \E j \in 1..Len(requests) :
            requests'[k] = requests[j]
  BY <1>1, <1>2, <1>4, RemoveAtType
<1> QED
  BY <1>2, <1>5, <1>6 DEF block

LEMMA AnsweredWindows ==
    ASSUME TypeInv, NEW i \in DOMAIN requests, NEW ok \in BOOLEAN, Answered(i, ok),
           front' = front,
           currentUser' # NoUser \/ (~ok /\ currentUser' = currentUser)
    PROVE  Windows'
<1>1. \A k \in 1..Len(authBlocks') : k \in 1..Len(authBlocks) \/ k = Len(authBlocks) + 1
  <2>1. Len(authBlocks') = Len(authBlocks) + 1
    BY AnsweredType
  <2>2. Len(authBlocks) \in Nat
    BY DEF TypeInv, TypeOK, AuthTypeOK
  <2> QED
    BY <2>1, <2>2
<1>2. i \in 1..Len(requests)
  BY DEF TypeInv, TypeOK, AuthTypeOK
<1>3. front = "home" => ~requests[i].inWindow
  BY <1>2 DEF TypeInv, Windows
<1>4. authBlocks'[Len(authBlocks) + 1].inWindow = requests[i].inWindow
      /\ authBlocks'[Len(authBlocks) + 1].ok = ok
  <2>1. authBlocks'[Len(authBlocks) + 1] =
           [kind |-> requests[i].kind, user |-> requests[i].user, ok |-> ok,
            inWindow |-> requests[i].inWindow]
    BY AnsweredType
  <2> QED
    BY <2>1
<1>5. front' = "home" => \A k \in 1..Len(requests') : ~requests'[k].inWindow
  BY AnsweredType DEF TypeInv, Windows
<1>6. front' = "home" => \A k \in 1..Len(authBlocks') : ~authBlocks'[k].inWindow
  BY <1>1, <1>3, <1>4, AnsweredType DEF TypeInv, Windows
<1>7. \A k \in 1..Len(authBlocks') :
         authBlocks'[k].ok /\ authBlocks'[k].inWindow => currentUser' # NoUser
  BY <1>1, <1>4, AnsweredType DEF TypeInv, Windows
<1> QED
  BY <1>5, <1>6, <1>7 DEF Windows

LEMMA AuthSucceedsType ==
    ASSUME TypeInv, NEW i \in DOMAIN requests, AuthSucceeds(i)
    PROVE  TypeInv'
<1> USE DEF TypeInv, TypeOK, homeVars, AuthSucceeds, Becomes
<1>1. StoreTypeOK' /\ CallTypeOK'
  BY UnchangedTypes
<1>2. Answered(i, TRUE) /\ TRUE \in BOOLEAN
  OBVIOUS
<1>3. requests[i].user \in Users
  <2>1. requests[i] \in RequestType
    BY <1>2, AnsweredType
  <2> QED
    BY <2>1 DEF RequestType
<1>4. AuthTypeOK'
  <2>1. requests' \in Seq(RequestType) /\ authBlocks' \in Seq(BlockType)
    BY <1>2, AnsweredType
  <2> QED
    BY <1>3, <2>1 DEF AuthTypeOK, Someone
<1>5. currentUser' # NoUser
  BY <1>3, NoUserAssumption
<1>6. ScreenTypeOK'
  BY <1>5 DEF ScreenTypeOK
<1>7. BoundsOK'
  <2>1. calm' \in BOOLEAN
    OBVIOUS
  <2> QED
    BY <2>1 DEF BoundsOK
<1>8. Windows'
  BY <1>2, <1>5, AnsweredWindows
<1> QED
  BY <1>1, <1>4, <1>6, <1>7, <1>8

LEMMA RefusedType ==
    ASSUME TypeInv, NEW i \in DOMAIN requests, AuthFails(i) \/ AnswerLost(i)
    PROVE  TypeInv'
<1> USE DEF TypeInv, TypeOK, homeVars
<1>1. StoreTypeOK' /\ CallTypeOK' /\ ScreenTypeOK'
  BY UnchangedTypes DEF AuthFails, AnswerLost, ScreenVars
<1>2. Answered(i, FALSE) /\ FALSE \in BOOLEAN
  BY DEF AuthFails, AnswerLost
<1>3. requests[i].user \in Users
  <2>1. requests[i] \in RequestType
    BY <1>2, AnsweredType
  <2> QED
    BY <2>1 DEF RequestType
<1>4. AuthTypeOK'
  <2>1. requests' \in Seq(RequestType) /\ authBlocks' \in Seq(BlockType)
    BY <1>2, AnsweredType
  <2> QED
    BY <1>3, <2>1 DEF AuthTypeOK, AuthFails, AnswerLost
<1>5. BoundsOK'
  BY DEF BoundsOK, AuthFails, AnswerLost, histVars
<1>6. Windows'
  BY <1>2, AnsweredWindows DEF AuthFails, AnswerLost
<1> QED
  BY <1>1, <1>4, <1>5, <1>6

(* The oldest block runs, and the home screen may be entered. *)
LEMMA HeadType ==
    ASSUME TypeInv, authBlocks # <<>>
    PROVE  /\ Head(authBlocks) \in BlockType /\ Head(authBlocks) = authBlocks[1]
           /\ Head(authBlocks).user \in Users
           /\ Head(authBlocks).ok /\ Head(authBlocks).inWindow => currentUser # NoUser
           /\ Tail(authBlocks) \in Seq(BlockType)
           /\ \A k \in 1..Len(Tail(authBlocks)) :
                 k + 1 \in 1..Len(authBlocks) /\ Tail(authBlocks)[k] = authBlocks[k + 1]
<1>1. authBlocks \in Seq(BlockType)
  BY DEF TypeInv, TypeOK, AuthTypeOK
<1>2. /\ Head(authBlocks) \in BlockType /\ Head(authBlocks) = authBlocks[1]
      /\ 1 \in 1..Len(authBlocks)
      /\ Tail(authBlocks) \in Seq(BlockType)
      /\ \A k \in 1..Len(Tail(authBlocks)) :
            k + 1 \in 1..Len(authBlocks) /\ Tail(authBlocks)[k] = authBlocks[k + 1]
  BY <1>1, TailType
<1>3. Head(authBlocks).ok /\ Head(authBlocks).inWindow => currentUser # NoUser
  BY <1>2 DEF TypeInv, Windows
<1> QED
  BY <1>2, <1>3 DEF BlockType

LEMMA EnterHomeType ==
    ASSUME TypeInv, authBlocks # <<>>, currentUser # NoUser, EnterHome,
           UNCHANGED <<accounts, currentUser, app>>
    PROVE  AuthTypeOK' /\ ScreenTypeOK' /\ Windows'
<1> USE DEF TypeInv, TypeOK, EnterHome
<1>1. requests \in Seq(RequestType) /\ Tail(authBlocks) \in Seq(BlockType)
  BY HeadType DEF AuthTypeOK
<1> DEFINE both == {"signUp", "signIn"}
<1>2. /\ requests' \in Seq(RequestType)
      /\ \A k \in 1..Len(requests') : ~requests'[k].inWindow
  <2>1. /\ requests' \in Seq(RequestType) /\ Len(requests') = Len(requests)
        /\ \A k \in 1..Len(requests) : requests[k].kind \in both => ~requests'[k].inWindow
    BY <1>1, OffscreenRequests
  <2>2. \A k \in 1..Len(requests) : requests[k].kind \in both
    <3>1. \A k \in 1..Len(requests) : requests[k] \in RequestType
      BY <1>1, ElementOfSeq
    <3> QED
      BY <3>1 DEF RequestType, Kinds
  <2> QED
    BY <2>1, <2>2
<1>3. /\ authBlocks' \in Seq(BlockType)
      /\ \A k \in 1..Len(authBlocks') : ~authBlocks'[k].inWindow
  <2>1. /\ authBlocks' \in Seq(BlockType) /\ Len(authBlocks') = Len(Tail(authBlocks))
        /\ \A k \in 1..Len(Tail(authBlocks)) :
              Tail(authBlocks)[k].kind \in both => ~authBlocks'[k].inWindow
    BY <1>1, OffscreenBlocks
  <2>2. \A k \in 1..Len(Tail(authBlocks)) : Tail(authBlocks)[k].kind \in both
    <3>1. \A k \in 1..Len(Tail(authBlocks)) : Tail(authBlocks)[k] \in BlockType
      BY <1>1, ElementOfSeq
    <3> QED
      BY <3>1 DEF BlockType, Kinds
  <2> QED
    BY <2>1, <2>2
<1>4. AuthTypeOK'
  BY <1>2, <1>3 DEF AuthTypeOK
<1>5. ScreenTypeOK'
  BY DEF ScreenTypeOK, AuthTypeOK
<1>6. Windows'
  BY <1>2, <1>3 DEF Windows
<1> QED
  BY <1>4, <1>5, <1>6

LEMMA StayHereType ==
    ASSUME TypeInv, authBlocks # <<>>, StayHere, UNCHANGED <<accounts, currentUser, app>>
    PROVE  AuthTypeOK' /\ ScreenTypeOK' /\ Windows'
<1> USE DEF TypeInv, TypeOK, StayHere, homeVars
<1>1. AuthTypeOK'
  BY HeadType DEF AuthTypeOK
<1>2. ScreenTypeOK'
  BY DEF ScreenTypeOK
<1>3. Windows'
  BY HeadType DEF Windows
<1> QED
  BY <1>1, <1>2, <1>3

LEMMA RunSignUpType ==
    ASSUME TypeInv, RunSignUp
    PROVE  TypeInv'
<1> USE DEF TypeInv, TypeOK
<1> DEFINE block == Head(authBlocks)
<1>1. authBlocks # <<>> /\ UNCHANGED <<accounts, currentUser, app>>
  BY DEF RunSignUp
<1>2. CallTypeOK' /\ BoundsOK'
  BY UnchangedTypes DEF RunSignUp
<1>3. AuthTypeOK' /\ ScreenTypeOK' /\ Windows'
  <2>1. CASE EnterHome /\ block.ok /\ block.inWindow
    BY <1>1, <2>1, HeadType, EnterHomeType
  <2>2. CASE StayHere
    BY <1>1, <2>2, StayHereType
  <2> QED
    BY <2>1, <2>2 DEF RunSignUp, Transition
<1>4. StoreTypeOK'
  <2>1. block.user \in Users
    BY <1>1, HeadType
  <2> HIDE DEF block
  <2>2. \/ userDocs' = NewDocument(block) /\ unsaved' = unsaved \cup {block.user}
        \/ UNCHANGED <<userDocs, unsaved>>
    BY DEF RunSignUp, block
  <2>3. DOMAIN NewDocument(block) \subseteq Users
        /\ \A u \in DOMAIN NewDocument(block) : NewDocument(block)[u] \in Nat
    BY <2>1 DEF NewDocument, StoreTypeOK
  <2>4. UNCHANGED habits
    BY DEF RunSignUp
  <2> QED
    BY <2>1, <2>2, <2>3, <2>4 DEF StoreTypeOK
<1> QED
  BY <1>2, <1>3, <1>4

LEMMA RunSignInType ==
    ASSUME TypeInv, RunSignIn
    PROVE  TypeInv'
<1> USE DEF TypeInv, TypeOK
<1> DEFINE block == Head(authBlocks)
<1>1. authBlocks # <<>> /\ UNCHANGED <<accounts, currentUser, app>>
  BY DEF RunSignIn
<1>2. CallTypeOK' /\ BoundsOK' /\ StoreTypeOK'
  BY UnchangedTypes DEF RunSignIn
<1>3. AuthTypeOK' /\ ScreenTypeOK' /\ Windows'
  <2>1. CASE EnterHome /\ block.ok /\ block.inWindow
    BY <1>1, <2>1, HeadType, EnterHomeType
  <2>2. CASE StayHere
    BY <1>1, <2>2, StayHereType
  <2> QED
    BY <2>1, <2>2 DEF RunSignIn
<1> QED
  BY <1>2, <1>3

LEMMA AcknowledgedType ==
    ASSUME TypeInv, NEW u \in unsaved, Acknowledge(u) \/ Reject(u)
    PROVE  TypeInv'
<1> USE DEF TypeInv, TypeOK, Acknowledge, Reject, homeVars
<1>1. AuthTypeOK' /\ ScreenTypeOK' /\ CallTypeOK' /\ Windows'
  BY UnchangedTypes DEF ScreenVars, authVars
<1>2. StoreTypeOK'
  BY DEF StoreTypeOK
<1>3. BoundsOK'
  BY DEF BoundsOK, histVars
<1> QED
  BY <1>1, <1>2, <1>3

LEMMA FetchAnsweredType ==
    ASSUME TypeInv, FetchAnswered
    PROVE  TypeInv'
<1> USE DEF TypeInv, TypeOK, FetchAnswered, homeVars
<1>1. AuthTypeOK' /\ StoreTypeOK' /\ CallTypeOK' /\ BoundsOK' /\ Windows'
  BY UnchangedTypes DEF authVars
<1>2. ScreenTypeOK'
  <2>1. home.user \in DOMAIN userDocs => userDocs[home.user] \in Nat
    BY DEF StoreTypeOK
  <2>2. home' \in [user : Someone, rows : Nat] /\ home'.user = home.user
    BY <2>1 DEF ScreenTypeOK
  <2> QED
    BY <2>2 DEF ScreenTypeOK, authVars
<1> QED
  BY <1>1, <1>2

LEMMA CallsType ==
    ASSUME TypeInv,
           \/ TapAdd
           \/ \E i \in DOMAIN adds : AnswerAdd(i)
           \/ \E r \in 0..(home.rows - 1) : StartTimer(r)
    PROVE  TypeInv'
<1> USE DEF TypeInv, TypeOK
<1>1. AuthTypeOK' /\ StoreTypeOK' /\ BoundsOK' /\ ScreenTypeOK' /\ Windows'
  BY UnchangedTypes DEF TapAdd, AnswerAdd, StartTimer, ScreenVars, homeVars, authVars
<1>2. CASE TapAdd
  <2> DEFINE add == [ref |-> currentUser, by |-> home.user]
  <2>1. add \in AddType
    BY <1>2 DEF TapAdd, AddType, ScreenTypeOK, AuthTypeOK, Someone
  <2>2. adds \in Seq(AddType) /\ adds' = Append(adds, add)
    BY <1>2 DEF TapAdd, CallTypeOK
  <2> HIDE DEF add
  <2>3. adds' \in Seq(AddType)
    BY <2>1, <2>2, AppendType
  <2>4. CallTypeOK'
    BY <1>2, <2>3 DEF CallTypeOK, TapAdd
  <2> QED
    BY <1>1, <2>4
<1>3. CASE \E i \in DOMAIN adds : AnswerAdd(i)
  <2>1. PICK i \in DOMAIN adds : AnswerAdd(i)
    BY <1>3
  <2> DEFINE ref   == adds[i].ref
             block == [add |-> adds[i],
                       number |-> IF ref \in DOMAIN userDocs THEN userDocs[ref]
                                  ELSE Missing]
             T     == [add : AddType, number : Nat \cup {Missing}]
  <2>2. adds \in Seq(AddType) /\ i \in 1..Len(adds) /\ adds[i] \in AddType
    BY ElementOfSeq DEF CallTypeOK
  <2>3. block \in T
    BY <2>2 DEF StoreTypeOK
  <2>4. addBlocks' = Append(addBlocks, block) /\ adds' = RemoveAt(adds, i)
    BY <2>1 DEF AnswerAdd
  <2>5. addBlocks \in Seq(T)
    BY DEF CallTypeOK
  <2> HIDE DEF block, T
  <2>6. addBlocks' \in Seq(T)
    BY <2>3, <2>4, <2>5, AppendType
  <2>7. adds' \in Seq(AddType)
    BY <2>2, <2>4, RemoveAtType
  <2>8. CallTypeOK'
    BY <2>1, <2>6, <2>7 DEF CallTypeOK, AnswerAdd, T
  <2> QED
    BY <1>1, <2>8
<1>4. CASE \E r \in 0..(home.rows - 1) : StartTimer(r)
  <2>1. PICK r \in 0..(home.rows - 1) : StartTimer(r)
    BY <1>4
  <2>2. [row |-> r, by |-> home.user] \in [row : Nat, by : Users]
    BY <2>1 DEF StartTimer, ScreenTypeOK, Someone
  <2>3. CallTypeOK'
    BY <2>1, <2>2 DEF CallTypeOK, StartTimer
  <2> QED
    BY <1>1, <2>3
<1> QED
  BY <1>2, <1>3, <1>4

LEMMA RunAddType ==
    ASSUME TypeInv, RunAdd
    PROVE  TypeInv'
<1> USE DEF TypeInv, TypeOK
<1> DEFINE add == Head(addBlocks).add
           n   == Head(addBlocks).number
<1>1. AuthTypeOK' /\ BoundsOK' /\ Windows'
  BY UnchangedTypes DEF RunAdd, authVars
<1>2. /\ add \in AddType /\ n \in Nat \cup {Missing}
      /\ Tail(addBlocks) \in Seq([add : AddType, number : Nat \cup {Missing}])
  <2>1. addBlocks # <<>> /\ addBlocks \in Seq([add : AddType, number : Nat \cup {Missing}])
    BY DEF RunAdd, CallTypeOK
  <2>2. /\ Head(addBlocks) \in [add : AddType, number : Nat \cup {Missing}]
        /\ Tail(addBlocks) \in Seq([add : AddType, number : Nat \cup {Missing}])
    BY <2>1, TailType
  <2> QED
    BY <2>2
<1> HIDE DEF add, n
<1>3. add.by \in Users /\ add.ref \in Users
  BY <1>2 DEF AddType
<1>4. CallTypeOK'
  BY <1>2 DEF RunAdd, CallTypeOK
<1>5. ScreenTypeOK'
  <2>1. /\ UNCHANGED <<front, home, currentUser>>
        /\ fetching' = fetching \/ fetching' = (fetching \/ add.by = home.user)
        /\ app' \in {app, "castTrap", "nilTrap"}
    BY DEF RunAdd, add, n, authVars
  <2>2. home.user = add.by => home.user # NoUser
    BY <1>3, NoUserAssumption
  <2>3. fetching' \in BOOLEAN /\ (fetching' => home.user # NoUser)
    <3>1. fetching \in BOOLEAN /\ (fetching => home.user # NoUser)
      BY DEF ScreenTypeOK
    <3>2. CASE fetching' = fetching
      BY <3>1, <3>2
    <3>3. CASE fetching' = (fetching \/ add.by = home.user)
      <4>1. fetching' <=> fetching \/ add.by = home.user
        BY <3>3
      <4>2. fetching' \in BOOLEAN
        BY <3>3
      <4> QED
        BY <2>2, <3>1, <4>1, <4>2
    <3> QED
      BY <2>1, <3>2, <3>3
  <2>4. home' = home /\ front' = front /\ currentUser' = currentUser
    BY <2>1
  <2> QED
    BY <2>1, <2>3, <2>4 DEF ScreenTypeOK
<1>6. StoreTypeOK'
  <2>1. CASE UNCHANGED <<habits, userDocs>>
    BY <2>1 DEF StoreTypeOK, RunAdd
  <2>2. CASE /\ n # Missing /\ currentUser # NoUser
             /\ habits' = [habits EXCEPT ![currentUser] =
                              [m \in DOMAIN @ \cup {n} |->
                                  IF m = n THEN {add.by} ELSE @[m]]]
             /\ userDocs' = IF add.ref \in DOMAIN userDocs
                            THEN [userDocs EXCEPT ![add.ref] = CounterAfter(n)]
                            ELSE userDocs
    <3>1. n \in Nat /\ CounterAfter(n) \in Nat /\ currentUser \in Users
      BY <1>2, <2>2 DEF AuthTypeOK, Someone, CounterAfter
    <3>2. DOMAIN userDocs' \subseteq Users /\ \A u \in DOMAIN userDocs' : userDocs'[u] \in Nat
      BY <2>2, <3>1 DEF StoreTypeOK
    <3>3. DOMAIN habits' = Users
      BY <2>2 DEF StoreTypeOK
    <3>4. ASSUME NEW u \in Users
          PROVE  /\ DOMAIN habits'[u] \subseteq Nat
                 /\ \A m \in DOMAIN habits'[u] : habits'[u][m] \subseteq Users
      <4>1. CASE u = currentUser
        <5>1. habits'[u] = [m \in DOMAIN habits[u] \cup {n} |->
                               IF m = n THEN {add.by} ELSE habits[u][m]]
          BY <2>2, <4>1 DEF StoreTypeOK
        <5> QED
          BY <1>3, <3>1, <5>1 DEF StoreTypeOK
      <4>2. CASE u # currentUser
        BY <2>2, <4>2 DEF StoreTypeOK
      <4> QED
        BY <4>1, <4>2
    <3> QED
      BY <3>2, <3>3, <3>4 DEF StoreTypeOK, RunAdd
  <2> QED
    BY <2>1, <2>2 DEF RunAdd, add, n
<1> QED
  BY <1>1, <1>4, <1>5, <1>6

LEMMA TimerEndsType ==
    ASSUME TypeInv, NEW t \in timers, TimerEnds(t)
    PROVE  TypeInv'
<1> USE DEF TypeInv, TypeOK, TimerEnds, homeVars
<1>1. AuthTypeOK' /\ BoundsOK' /\ Windows'
  BY UnchangedTypes DEF authVars
<1>2. CallTypeOK'
  BY DEF CallTypeOK
<1>3. ScreenTypeOK'
  BY DEF ScreenTypeOK, authVars
<1>4. StoreTypeOK'
  <2>1. t.by \in Users
    BY DEF CallTypeOK
  <2>2. \/ UNCHANGED habits
        \/ /\ currentUser \in Users /\ t.row \in DOMAIN habits[currentUser]
           /\ habits' = [habits EXCEPT ![currentUser][t.row] = @ \cup {t.by}]
    BY DEF AuthTypeOK, Someone
  <2> QED
    BY <2>1, <2>2 DEF StoreTypeOK
<1> QED
  BY <1>1, <1>2, <1>3, <1>4

LEMMA SignOutType ==
    ASSUME TypeInv, SignOut
    PROVE  TypeInv'
<1> USE DEF TypeInv, TypeOK, SignOut, Becomes, homeVars
<1>1. StoreTypeOK' /\ CallTypeOK'
  BY UnchangedTypes
<1>2. AuthTypeOK'
  BY DEF AuthTypeOK, Someone
<1>3. ScreenTypeOK'
  BY DEF ScreenTypeOK
<1>4. BoundsOK'
  <2>1. calm' \in BOOLEAN
    OBVIOUS
  <2> QED
    BY <2>1 DEF BoundsOK
<1>5. Windows'
  BY DEF Windows
<1> QED
  BY <1>1, <1>2, <1>3, <1>4, <1>5

LEMMA RelaunchType ==
    ASSUME TypeInv, NEW made \in SUBSET Users, Relaunch(made)
    PROVE  TypeInv'
<1> USE DEF TypeInv, TypeOK, Relaunch
<1>1. StoreTypeOK'
  BY UnchangedTypes
<1>2. AuthTypeOK'
  BY DEF AuthTypeOK
<1>3. ScreenTypeOK'
  BY DEF ScreenTypeOK, LaunchFront, AuthTypeOK
<1>4. CallTypeOK'
  BY DEF CallTypeOK
<1>5. BoundsOK'
  <2>1. sound' \in BOOLEAN
    OBVIOUS
  <2> QED
    BY <2>1 DEF BoundsOK
<1>6. Windows'
  BY DEF Windows
<1> QED
  BY <1>1, <1>2, <1>3, <1>4, <1>5, <1>6

LEMMA StepType == TypeInv /\ [Next]_vars => TypeInv'
<1> SUFFICES ASSUME TypeInv, [Next]_vars PROVE TypeInv'
  OBVIOUS
<1>1. CASE ShowSignUp
  BY <1>1, ShowSignUpType
<1>2. CASE DismissSignUp
  BY <1>2, DismissSignUpType
<1>3. CASE \E u \in Users : TapSignUp(u) \/ TapLogin(u)
  BY <1>3, RequestTypeKept, KindsDistinct DEF TapSignUp, TapLogin
<1>4. CASE TapAdd \/ (\E i \in DOMAIN adds : AnswerAdd(i))
           \/ \E r \in 0..(home.rows - 1) : StartTimer(r)
  BY <1>4, CallsType
<1>5. CASE SignOut
  BY <1>5, SignOutType
<1>6. CASE Auth
  BY <1>6, AuthSucceedsType, RefusedType DEF Auth
<1>7. CASE MainQueue
  BY <1>7, RunSignUpType, RunSignInType, RunAddType DEF MainQueue
<1>8. CASE FetchAnswered \/ \E u \in unsaved : Acknowledge(u) \/ Reject(u)
  BY <1>8, FetchAnsweredType, AcknowledgedType
<1>9. CASE \E t \in timers : TimerEnds(t)
  BY <1>9, TimerEndsType
<1>10. CASE \E made \in SUBSET Users : Relaunch(made)
  BY <1>10, RelaunchType
<1>11. CASE UNCHANGED vars
  BY <1>11, UnchangedTypes
     DEF vars, TypeInv, TypeOK, authVars, storeVars, homeVars, callVars, histVars, ScreenVars
<1> QED
  BY <1>1, <1>2, <1>3, <1>4, <1>5, <1>6, <1>7, <1>8, <1>9, <1>10, <1>11
     DEF Next, Person, Firestore

LEMMA TypeInvariant == Spec => []TypeInv
<1>1. Init => TypeInv
  BY InitType
<1>2. TypeInv /\ [Next]_vars => TypeInv'
  BY StepType
<1> QED
  BY <1>1, <1>2, PTL DEF Spec

(* Every variable keeps its type, and a home screen in front always has a user
   signed in (viewDidLoad, signOutButtonTapped, transitionToHome). *)
THEOREM TypeCorrect == Spec => []TypeOK
<1>1. TypeInv => TypeOK
  BY DEF TypeInv
<1> QED
  BY <1>1, TypeInvariant, PTL

----------------------------------------------------------------------------
\* Sessions

(* With one request at a time there is never more than one request or block,
   none while a home screen is in front, and a block that succeeded is of the
   user signed in. *)
OneAtATime ==
    single =>
        /\ Len(requests) <= 1 /\ Len(authBlocks) <= 1
        /\ requests = <<>> \/ authBlocks = <<>>
        /\ front = "home" => requests = <<>> /\ authBlocks = <<>>
        /\ \A k \in 1..Len(authBlocks) :
              authBlocks[k].ok => authBlocks[k].user = currentUser

SessionInv == OneAtATime /\ SessionIsCurrent

LEMMA EmptySize ==
    ASSUME NEW S, NEW s \in Seq(S)
    PROVE  Len(s) \in Nat /\ (Len(s) = 0 <=> s = <<>>)
BY EmptySeq

LEMMA OneOnly == \A n \in Nat : n # 0 /\ n <= 1 => n = 1
OBVIOUS

LEMMA QueuesTyped ==
    ASSUME TypeInv
    PROVE  /\ requests \in Seq(RequestType) /\ authBlocks \in Seq(BlockType)
           /\ Len(requests) \in Nat /\ (Len(requests) = 0 <=> requests = <<>>)
           /\ Len(authBlocks) \in Nat /\ (Len(authBlocks) = 0 <=> authBlocks = <<>>)
<1>1. requests \in Seq(RequestType) /\ authBlocks \in Seq(BlockType)
  BY DEF TypeInv, TypeOK, AuthTypeOK
<1> QED
  BY <1>1, EmptySize

LEMMA RequestSessions ==
    ASSUME TypeInv, SessionInv, NEW kind \in Kinds, NEW u \in Users, Request(kind, u),
           front # "home"
    PROVE  SessionInv'
<1>1. front' # "home" /\ authBlocks' = authBlocks
  BY DEF Request
<1>2. SessionIsCurrent'
  BY <1>1 DEF SessionIsCurrent
<1>3. single' => requests = <<>> /\ authBlocks = <<>>
  BY DEF Request
<1>4. requests' = Append(requests, [kind |-> kind, user |-> u, inWindow |-> TRUE])
  BY DEF Request
<1>5. Len(requests') = Len(requests) + 1
  BY <1>4, QueuesTyped, AppendProperties
<1>6. OneAtATime'
  BY <1>1, <1>3, <1>5, QueuesTyped DEF OneAtATime
<1> QED
  BY <1>2, <1>6 DEF SessionInv

LEMMA AnswerSessions ==
    ASSUME TypeInv, TypeInv', SessionInv, NEW i \in DOMAIN requests,
           AuthSucceeds(i) \/ AuthFails(i) \/ AnswerLost(i)
    PROVE  SessionInv'
<1> SUFFICES ASSUME single' PROVE SessionInv'
  BY DEF SessionInv, OneAtATime, SessionIsCurrent
<1>1. single /\ front' = front
  BY DEF AuthSucceeds, AuthFails, AnswerLost, histVars
<1>2. Len(requests) = 1 /\ authBlocks = <<>> /\ front # "home"
  <2>1. requests # <<>>
    BY DEF TypeInv, TypeOK, AuthTypeOK
  <2>2. /\ Len(requests) <= 1
        /\ requests = <<>> \/ authBlocks = <<>>
        /\ front = "home" => requests = <<>>
    BY <1>1 DEF SessionInv, OneAtATime
  <2>3. Len(requests) = 1
    <3>1. Len(requests) \in Nat /\ Len(requests) # 0
      BY <2>1, QueuesTyped
    <3>2. Len(requests) <= 1
      BY <2>2
    <3> QED
      BY <3>1, <3>2, OneOnly
  <2> QED
    BY <2>1, <2>2, <2>3
<1>3. PICK ok \in BOOLEAN : Answered(i, ok) /\ (ok => currentUser' = requests[i].user)
  BY DEF AuthSucceeds, AuthFails, AnswerLost, Becomes
<1>4. /\ Len(requests') = Len(requests) - 1 /\ Len(authBlocks') = Len(authBlocks) + 1
      /\ authBlocks'[Len(authBlocks) + 1] =
            [kind |-> requests[i].kind, user |-> requests[i].user, ok |-> ok,
             inWindow |-> requests[i].inWindow]
  BY <1>3, AnsweredType
<1>5. Len(authBlocks) = 0
  BY <1>2, QueuesTyped
<1>6. Len(requests') = 0 /\ Len(authBlocks') = 1
  BY <1>2, <1>4, <1>5
<1>7. requests' = <<>>
  <2>1. requests' \in Seq(RequestType)
    BY DEF TypeInv, TypeOK, AuthTypeOK
  <2> QED
    BY <1>6, <2>1, EmptySize
<1>8. authBlocks'[1].ok => authBlocks'[1].user = currentUser'
  BY <1>3, <1>4, <1>5
<1>9. OneAtATime'
  BY <1>1, <1>2, <1>6, <1>7, <1>8 DEF OneAtATime
<1> QED
  BY <1>1, <1>2, <1>9 DEF SessionInv, SessionIsCurrent

LEMMA DismissSessions ==
    ASSUME TypeInv, TypeInv', SessionInv, DismissSignUp
    PROVE  SessionInv'
<1> SUFFICES ASSUME single' PROVE SessionInv'
  BY DEF SessionInv, OneAtATime, SessionIsCurrent
<1>1. single /\ front' # "home" /\ currentUser' = currentUser
  BY DEF DismissSignUp, histVars
<1>2. /\ Len(requests') = Len(requests) /\ Len(authBlocks') = Len(authBlocks)
      /\ \A k \in 1..Len(authBlocks) : /\ authBlocks'[k].user = authBlocks[k].user
                                       /\ authBlocks'[k].ok = authBlocks[k].ok
  BY QueuesTyped, OffscreenRequests, OffscreenBlocks DEF DismissSignUp
<1>3. requests' \in Seq(RequestType) /\ authBlocks' \in Seq(BlockType)
  BY DEF TypeInv, TypeOK, AuthTypeOK
<1>4. requests' = <<>> \/ authBlocks' = <<>>
  BY <1>1, <1>2, <1>3, EmptySize, QueuesTyped DEF SessionInv, OneAtATime
<1>5. OneAtATime'
  BY <1>1, <1>2, <1>4 DEF SessionInv, OneAtATime
<1> QED
  BY <1>1, <1>5 DEF SessionInv, SessionIsCurrent

LEMMA EnterSessions ==
    ASSUME TypeInv, TypeInv', SessionInv, authBlocks # <<>>, EnterHome,
           UNCHANGED <<currentUser, single>>
    PROVE  SessionInv'
<1> SUFFICES ASSUME single' PROVE SessionInv'
  BY DEF SessionInv, OneAtATime, SessionIsCurrent
<1>1. Len(authBlocks) = 1 /\ requests = <<>>
  <2>1. single
    OBVIOUS
  <2>2. /\ Len(authBlocks) <= 1
        /\ requests = <<>> \/ authBlocks = <<>>
        /\ front = "home" => authBlocks = <<>>
    BY <2>1 DEF SessionInv, OneAtATime
  <2>3. Len(authBlocks) = 1
    <3>1. Len(authBlocks) \in Nat /\ Len(authBlocks) # 0
      BY QueuesTyped
    <3> QED
      BY <2>2, <3>1
  <2> QED
    BY <2>2, <2>3
<1>2. Tail(authBlocks) \in Seq(BlockType) /\ Len(Tail(authBlocks)) = 0
  BY <1>1, QueuesTyped, TailType
<1>3. Len(requests') = 0 /\ Len(authBlocks') = 0
  BY <1>1, <1>2, QueuesTyped, OffscreenRequests, OffscreenBlocks DEF EnterHome
<1>4. requests' = <<>> /\ authBlocks' = <<>>
  <2>1. requests' \in Seq(RequestType) /\ authBlocks' \in Seq(BlockType)
    BY DEF TypeInv, TypeOK, AuthTypeOK
  <2> QED
    BY <1>3, <2>1, EmptySize
<1>5. OneAtATime'
  BY <1>3, <1>4 DEF OneAtATime
<1>6. home'.user = currentUser'
  BY DEF EnterHome
<1> QED
  BY <1>5, <1>6 DEF SessionInv, SessionIsCurrent

LEMMA StaySessions ==
    ASSUME TypeInv, SessionInv, authBlocks # <<>>, StayHere,
           UNCHANGED <<currentUser, single>>
    PROVE  SessionInv'
<1> SUFFICES ASSUME single' PROVE SessionInv'
  BY DEF SessionInv, OneAtATime, SessionIsCurrent
<1>1. Len(authBlocks) = 1 /\ requests = <<>> /\ front # "home"
  <2>1. single
    OBVIOUS
  <2>2. /\ Len(authBlocks) <= 1
        /\ requests = <<>> \/ authBlocks = <<>>
        /\ front = "home" => authBlocks = <<>>
    BY <2>1 DEF SessionInv, OneAtATime
  <2>3. Len(authBlocks) = 1
    <3>1. Len(authBlocks) \in Nat /\ Len(authBlocks) # 0
      BY QueuesTyped
    <3> QED
      BY <2>2, <3>1
  <2> QED
    BY <2>2, <2>3
<1>2. Tail(authBlocks) \in Seq(BlockType) /\ Len(Tail(authBlocks)) = 0
  BY <1>1, QueuesTyped, TailType
<1>3. requests' = <<>> /\ Len(authBlocks') = 0 /\ front' # "home"
  BY <1>1, <1>2 DEF StayHere
<1>4. OneAtATime'
  <2>1. Len(requests') = 0
    BY <1>3
  <2> QED
    BY <1>3, <2>1 DEF OneAtATime
<1> QED
  BY <1>3, <1>4 DEF SessionInv, SessionIsCurrent

LEMMA OtherSessions ==
    ASSUME TypeInv, SessionInv,
           \/ UNCHANGED <<authVars, single, home>> /\ (front' = front \/ front' # "home")
           \/ FetchAnswered
           \/ SignOut
           \/ \E made \in SUBSET Users : Relaunch(made)
    PROVE  SessionInv'
<1> USE DEF SessionInv, OneAtATime, SessionIsCurrent
<1>1. CASE UNCHANGED <<authVars, single, home>> /\ (front' = front \/ front' # "home")
  BY <1>1 DEF authVars
<1>2. CASE FetchAnswered
  <2>1. home'.user = home.user
    <3>1. home \in [user : Someone, rows : Nat]
      BY DEF TypeInv, TypeOK, ScreenTypeOK
    <3>2. home' = [home EXCEPT !.rows = userDocs[home.user]] \/ home' = home
      BY <1>2 DEF FetchAnswered, homeVars
    <3> QED
      BY <3>1, <3>2
  <2> QED
    BY <1>2, <2>1 DEF FetchAnswered, authVars, histVars
<1>3. CASE SignOut
  BY <1>3 DEF SignOut
<1>4. CASE \E made \in SUBSET Users : Relaunch(made)
  BY <1>4 DEF Relaunch
<1> QED
  BY <1>1, <1>2, <1>3, <1>4

LEMMA SessionStep == TypeInv /\ TypeInv' /\ SessionInv /\ [Next]_vars => SessionInv'
<1> SUFFICES ASSUME TypeInv, TypeInv', SessionInv, [Next]_vars PROVE SessionInv'
  OBVIOUS
<1>1. CASE ShowSignUp
  BY <1>1, OtherSessions DEF ShowSignUp, homeVars, histVars
<1>2. CASE DismissSignUp
  BY <1>2, DismissSessions
<1>3. CASE \E u \in Users : TapSignUp(u) \/ TapLogin(u)
  BY <1>3, RequestSessions, KindsDistinct DEF TapSignUp, TapLogin
<1>4. CASE TapAdd \/ (\E i \in DOMAIN adds : AnswerAdd(i))
           \/ (\E r \in 0..(home.rows - 1) : StartTimer(r))
           \/ (\E u \in unsaved : Acknowledge(u) \/ Reject(u))
           \/ (\E t \in timers : TimerEnds(t))
           \/ RunAdd
  BY <1>4, OtherSessions DEF TapAdd, AnswerAdd, StartTimer, Acknowledge, Reject, TimerEnds,
     RunAdd, homeVars, histVars
<1>5. CASE SignOut \/ FetchAnswered \/ \E made \in SUBSET Users : Relaunch(made)
  BY <1>5, OtherSessions
<1>6. CASE Auth
  BY <1>6, AnswerSessions DEF Auth
<1>7. CASE RunSignUp
  BY <1>7, EnterSessions, StaySessions DEF RunSignUp, histVars
<1>8. CASE RunSignIn
  BY <1>8, EnterSessions, StaySessions DEF RunSignIn, histVars
<1>9. CASE UNCHANGED vars
  BY <1>9, OtherSessions DEF vars, homeVars, histVars
<1> QED
  BY <1>1, <1>2, <1>3, <1>4, <1>5, <1>6, <1>7, <1>8, <1>9
     DEF Next, Person, MainQueue, Firestore

LEMMA SessionInvariant == Spec => []SessionInv
<1>1. Init => SessionInv
  <2>1. Len(<<>>) = 0
    OBVIOUS
  <2> QED
    BY <2>1 DEF Init, SessionInv, OneAtATime, SessionIsCurrent
<1>2. TypeInv /\ TypeInv' /\ SessionInv /\ [Next]_vars => SessionInv'
  BY SessionStep
<1> QED
  BY <1>1, <1>2, TypeInvariant, PTL DEF Spec

(* With one sign up or login at a time the home screen in front is that of the
   user signed in, for any users, lost or late answers and relaunches
   (loginTapped, signUpTapped, authenticateUser). *)
THEOREM SessionsAreCurrent == Spec => []SessionIsCurrent
<1>1. SessionInv => SessionIsCurrent
  BY DEF SessionInv
<1> QED
  BY <1>1, SessionInvariant, PTL

----------------------------------------------------------------------------
\* Documents

UserHasAccount == currentUser \in accounts \cup {NoUser}

DocumentInv == EveryAccountHasADocument /\ UserHasAccount

(* The block that will write the document of user u. *)
Writes(block, u) == block.kind = "signUp" /\ block.user = u /\ block.ok

Documented(u) ==
    u \in DOMAIN userDocs \/ \E k \in 1..Len(authBlocks) : Writes(authBlocks[k], u)

LEMMA DocumentedMeans ==
    ASSUME TypeInv
    PROVE  EveryAccountHasADocument <=> (sound => \A u \in accounts : Documented(u))
<1>1. DOMAIN authBlocks = 1..Len(authBlocks)
  BY QueuesTyped
<1> QED
  BY <1>1 DEF EveryAccountHasADocument, Documented, Writes

LEMMA AnswerDocuments ==
    ASSUME TypeInv, TypeInv', DocumentInv, NEW i \in DOMAIN requests,
           AuthSucceeds(i) \/ AuthFails(i) \/ AnswerLost(i)
    PROVE  DocumentInv'
<1>1. PICK ok \in BOOLEAN : Answered(i, ok) /\ (AuthSucceeds(i) => ok)
  BY DEF AuthSucceeds, AuthFails, AnswerLost
<1>2. /\ Len(authBlocks') = Len(authBlocks) + 1
      /\ \A k \in 1..Len(authBlocks) : authBlocks'[k] = authBlocks[k]
      /\ authBlocks'[Len(authBlocks) + 1] =
            [kind |-> requests[i].kind, user |-> requests[i].user, ok |-> ok,
             inWindow |-> requests[i].inWindow]
  BY <1>1, AnsweredType
<1>3. Len(authBlocks) \in Nat /\ 1..Len(authBlocks') = 1..(Len(authBlocks) + 1)
  BY <1>2, QueuesTyped
<1>4. userDocs' = userDocs
  BY DEF AuthSucceeds, AuthFails, AnswerLost, storeVars
<1>5. \A u : Documented(u) => Documented(u)'
  <2> SUFFICES ASSUME NEW u, Documented(u) PROVE Documented(u)'
    OBVIOUS
  <2>1. CASE u \in DOMAIN userDocs
    BY <1>4, <2>1 DEF Documented
  <2>2. CASE \E k \in 1..Len(authBlocks) : Writes(authBlocks[k], u)
    <3>1. PICK k \in 1..Len(authBlocks) : Writes(authBlocks[k], u)
      BY <2>2
    <3>2. k \in 1..Len(authBlocks') /\ authBlocks'[k] = authBlocks[k]
      BY <1>2, <1>3
    <3> QED
      BY <3>1, <3>2 DEF Documented
  <2> QED
    BY <2>1, <2>2 DEF Documented
<1>6. ASSUME sound', NEW u \in accounts' PROVE Documented(u)'
  <2>1. CASE u \in accounts
    <3>1. sound
      BY <1>6 DEF AuthSucceeds, AuthFails, AnswerLost, histVars
    <3> QED
      BY <1>5, <2>1, <3>1, DocumentedMeans DEF DocumentInv
  <2>2. CASE u \notin accounts
    <3>1. AuthSucceeds(i) /\ u = requests[i].user /\ requests[i].kind = "signUp"
      BY <1>6, <2>2 DEF AuthSucceeds, AuthFails, AnswerLost
    <3>2. Writes(authBlocks'[Len(authBlocks) + 1], u)
      BY <1>1, <1>2, <3>1 DEF Writes
    <3>3. Len(authBlocks) + 1 \in 1..Len(authBlocks')
      BY <1>3
    <3> QED
      BY <3>2, <3>3 DEF Documented
  <2> QED
    BY <2>1, <2>2
<1>7. UserHasAccount'
  BY DEF DocumentInv, UserHasAccount, AuthSucceeds, AuthFails, AnswerLost, Becomes
<1>8. EveryAccountHasADocument'
  <2>1. (sound => \A u \in accounts : Documented(u))'
    BY <1>6
  <2> QED
    BY <2>1, DocumentedMeans, PTL
<1> QED
  BY <1>7, <1>8 DEF DocumentInv

(* A step after which every user that was documented still is. *)
LEMMA KeepDocuments ==
    ASSUME TypeInv', TypeInv, DocumentInv, sound' => sound, accounts' = accounts,
           currentUser' \in {currentUser, NoUser},
           sound' => \A u \in accounts : Documented(u) => Documented(u)'
    PROVE  DocumentInv'
<1>1. UserHasAccount'
  BY DEF DocumentInv, UserHasAccount
<1>2. sound' => \A u \in accounts' : Documented(u)'
  BY DocumentedMeans DEF DocumentInv
<1>3. EveryAccountHasADocument'
  <2>1. (sound => \A u \in accounts : Documented(u))'
    BY <1>2
  <2> QED
    BY <2>1, DocumentedMeans, PTL
<1> QED
  BY <1>1, <1>3 DEF DocumentInv

LEMMA OtherDocuments ==
    ASSUME TypeInv, TypeInv', DocumentInv, UNCHANGED <<accounts, authBlocks>>,
           DOMAIN userDocs' = DOMAIN userDocs \/ ~sound',
           currentUser' \in {currentUser, NoUser}, sound' => sound
    PROVE  DocumentInv'
<1>1. sound' => \A u \in accounts : Documented(u) => Documented(u)'
  BY DEF Documented
<1> QED
  BY <1>1, KeepDocuments

LEMMA DismissDocuments ==
    ASSUME TypeInv, TypeInv', DocumentInv, DismissSignUp
    PROVE  DocumentInv'
<1>1. /\ Len(authBlocks') = Len(authBlocks)
      /\ \A k \in 1..Len(authBlocks) : /\ authBlocks'[k].kind = authBlocks[k].kind
                                       /\ authBlocks'[k].user = authBlocks[k].user
                                       /\ authBlocks'[k].ok = authBlocks[k].ok
  BY QueuesTyped, OffscreenBlocks DEF DismissSignUp
<1>2. userDocs' = userDocs
  BY DEF DismissSignUp, storeVars
<1>3. \A u \in accounts : Documented(u) => Documented(u)'
  BY <1>1, <1>2 DEF Documented, Writes
<1> QED
  BY <1>3, KeepDocuments DEF DismissSignUp, histVars

(* A block that runs: the others stay, and the one that ran is not needed. *)
LEMMA RunDocuments ==
    ASSUME TypeInv, TypeInv', DocumentInv, authBlocks # <<>>,
           authBlocks' \in {Tail(authBlocks),
                            Offscreen(Tail(authBlocks), {"signUp", "signIn"})},
           DOMAIN userDocs \subseteq DOMAIN userDocs',
           \A u \in accounts : Writes(Head(authBlocks), u) => u \in DOMAIN userDocs',
           UNCHANGED <<accounts, currentUser, sound>>
    PROVE  DocumentInv'
<1>1. /\ Tail(authBlocks) \in Seq(BlockType) /\ Len(Tail(authBlocks)) = Len(authBlocks) - 1
      /\ \A k \in 1..Len(Tail(authBlocks)) : Tail(authBlocks)[k] = authBlocks[k + 1]
      /\ Head(authBlocks) = authBlocks[1]
  BY QueuesTyped, TailType
<1>2. /\ Len(authBlocks') = Len(Tail(authBlocks))
      /\ \A k \in 1..Len(Tail(authBlocks)) :
            /\ authBlocks'[k].kind = Tail(authBlocks)[k].kind
            /\ authBlocks'[k].user = Tail(authBlocks)[k].user
            /\ authBlocks'[k].ok = Tail(authBlocks)[k].ok
  <2>1. CASE authBlocks' = Tail(authBlocks)
    BY <2>1
  <2>2. CASE authBlocks' = Offscreen(Tail(authBlocks), {"signUp", "signIn"})
    BY <1>1, <2>2, OffscreenBlocks
  <2> QED
    BY <2>1, <2>2
<1>3. ASSUME NEW u \in accounts, Documented(u) PROVE Documented(u)'
  <2>1. CASE u \in DOMAIN userDocs
    BY <2>1 DEF Documented
  <2>2. CASE \E k \in 1..Len(authBlocks) : Writes(authBlocks[k], u)
    <3>1. PICK k \in 1..Len(authBlocks) : Writes(authBlocks[k], u)
      BY <2>2
    <3>2. CASE k = 1
      BY <1>1, <3>1, <3>2 DEF Documented
    <3>3. CASE k # 1
      <4>1. k - 1 \in 1..Len(Tail(authBlocks)) /\ (k - 1) + 1 = k
        BY <1>1, <3>3, QueuesTyped
      <4>2. Tail(authBlocks)[k - 1] = authBlocks[k]
        BY <1>1, <4>1
      <4>3. Writes(authBlocks'[k - 1], u) /\ k - 1 \in 1..Len(authBlocks')
        BY <1>2, <3>1, <4>1, <4>2 DEF Writes
      <4> QED
        BY <4>3 DEF Documented
    <3> QED
      BY <3>2, <3>3
  <2> QED
    BY <1>3, <2>1, <2>2 DEF Documented
<1> QED
  BY <1>3, KeepDocuments

LEMMA RunSignUpDocuments ==
    ASSUME TypeInv, TypeInv', DocumentInv, RunSignUp
    PROVE  DocumentInv'
<1> DEFINE block == Head(authBlocks)
<1>1. /\ authBlocks # <<>>
      /\ UNCHANGED <<accounts, currentUser, sound>>
      /\ IF block.ok
         THEN /\ userDocs' = NewDocument(block)
              /\ IF Transition(block) THEN EnterHome ELSE StayHere
         ELSE StayHere /\ UNCHANGED <<userDocs, unsaved>>
  BY DEF RunSignUp, histVars
<1>2. authBlocks' \in {Tail(authBlocks),
                       Offscreen(Tail(authBlocks), {"signUp", "signIn"})}
  BY <1>1 DEF EnterHome, StayHere
<1>3. /\ DOMAIN userDocs \subseteq DOMAIN userDocs'
      /\ block.ok => block.user \in DOMAIN userDocs'
  BY <1>1 DEF NewDocument
<1>4. \A u \in accounts : Writes(block, u) => u \in DOMAIN userDocs'
  BY <1>3 DEF Writes
<1> QED
  BY <1>1, <1>2, <1>3, <1>4, RunDocuments

LEMMA RunSignInDocuments ==
    ASSUME TypeInv, TypeInv', DocumentInv, RunSignIn
    PROVE  DocumentInv'
<1> DEFINE block == Head(authBlocks)
<1>1. /\ authBlocks # <<>> /\ block.kind = "signIn"
      /\ UNCHANGED <<accounts, currentUser, sound, userDocs>>
      /\ EnterHome \/ StayHere
  BY DEF RunSignIn, histVars, storeVars
<1>2. authBlocks' \in {Tail(authBlocks),
                       Offscreen(Tail(authBlocks), {"signUp", "signIn"})}
  BY <1>1 DEF EnterHome, StayHere
<1>3. \A u \in accounts : Writes(block, u) => u \in DOMAIN userDocs'
  BY <1>1 DEF Writes
<1> QED
  BY <1>1, <1>2, <1>3, RunDocuments

(* The process may end only between sign ups (sound): then no block was
   needed. *)
LEMMA RelaunchDocuments ==
    ASSUME TypeInv, TypeInv', DocumentInv, NEW made \in SUBSET Users, Relaunch(made)
    PROVE  DocumentInv'
<1>1. ASSUME sound', NEW u \in accounts' PROVE Documented(u)'
  <2>1. /\ sound /\ accounts' = accounts /\ userDocs' = userDocs
        /\ \A k \in DOMAIN authBlocks : ~(authBlocks[k].kind = "signUp" /\ authBlocks[k].ok)
    BY <1>1 DEF Relaunch, storeVars
  <2>2. DOMAIN authBlocks = 1..Len(authBlocks)
    BY QueuesTyped
  <2>3. Documented(u)
    BY <1>1, <2>1, DocumentedMeans DEF DocumentInv
  <2> QED
    BY <2>1, <2>2, <2>3 DEF Documented, Writes
<1>2. EveryAccountHasADocument'
  <2>1. (sound => \A u \in accounts : Documented(u))'
    BY <1>1
  <2> QED
    BY <2>1, DocumentedMeans, PTL
<1>3. UserHasAccount'
  BY DEF DocumentInv, UserHasAccount, Relaunch
<1> QED
  BY <1>2, <1>3 DEF DocumentInv

LEMMA DocumentStep == TypeInv /\ TypeInv' /\ DocumentInv /\ [Next]_vars => DocumentInv'
<1> SUFFICES ASSUME TypeInv, TypeInv', DocumentInv, [Next]_vars PROVE DocumentInv'
  OBVIOUS
<1> DEFINE Kept == /\ accounts' = accounts /\ authBlocks' = authBlocks
                   /\ DOMAIN userDocs' = DOMAIN userDocs
                   /\ currentUser' \in {currentUser, NoUser} /\ (sound' => sound)
<1>0. Kept => DocumentInv'
  BY OtherDocuments
<1>1. CASE ShowSignUp \/ (\E u \in Users : TapSignUp(u) \/ TapLogin(u))
  <2>1. ASSUME ShowSignUp PROVE Kept
    BY <2>1 DEF ShowSignUp, authVars, storeVars, histVars
  <2>2. ASSUME NEW u \in Users, TapSignUp(u) \/ TapLogin(u) PROVE Kept
    BY <2>2 DEF TapSignUp, TapLogin, Request, storeVars
  <2>3. Kept
    BY <1>1, <2>1, <2>2
  <2> QED
    BY <1>0, <2>3
<1>2. CASE DismissSignUp
  BY <1>2, DismissDocuments
<1>3. CASE TapAdd \/ (\E i \in DOMAIN adds : AnswerAdd(i))
           \/ (\E r \in 0..(home.rows - 1) : StartTimer(r))
           \/ (\E t \in timers : TimerEnds(t))
           \/ FetchAnswered \/ SignOut
  <2>1. ASSUME TapAdd PROVE Kept
    BY <2>1 DEF TapAdd, authVars, storeVars, histVars
  <2>2. ASSUME NEW i \in DOMAIN adds, AnswerAdd(i) PROVE Kept
    BY <2>2 DEF AnswerAdd, authVars, storeVars, histVars
  <2>3. ASSUME NEW r \in 0..(home.rows - 1), StartTimer(r) PROVE Kept
    BY <2>3 DEF StartTimer, authVars, storeVars, histVars
  <2>4. ASSUME NEW t \in timers, TimerEnds(t) PROVE Kept
    BY <2>4 DEF TimerEnds, authVars, histVars
  <2>5. ASSUME FetchAnswered PROVE Kept
    BY <2>5, Zenon DEF FetchAnswered, authVars, storeVars, histVars
  <2>6. ASSUME SignOut PROVE Kept
    BY <2>6 DEF SignOut, Becomes, storeVars
  <2> QED
    BY <1>0, <1>3, <2>1, <2>2, <2>3, <2>4, <2>5, <2>6
<1>4. CASE RunAdd
  <2>1. DOMAIN userDocs' = DOMAIN userDocs
    BY <1>4 DEF RunAdd
  <2> QED
    BY <1>4, <2>1, OtherDocuments DEF RunAdd, authVars, histVars
<1>5. CASE \E u \in unsaved : Acknowledge(u) \/ Reject(u)
  BY <1>5, OtherDocuments DEF Acknowledge, Reject, authVars, histVars
<1>6. CASE Auth
  BY <1>6, AnswerDocuments DEF Auth
<1>7. CASE RunSignUp \/ RunSignIn
  BY <1>7, RunSignUpDocuments, RunSignInDocuments
<1>8. CASE \E made \in SUBSET Users : Relaunch(made)
  BY <1>8, RelaunchDocuments
<1>9. CASE UNCHANGED vars
  BY <1>9, OtherDocuments DEF vars, authVars, storeVars, histVars
<1> QED
  BY <1>1, <1>2, <1>3, <1>4, <1>5, <1>6, <1>7, <1>8, <1>9
     DEF Next, Person, MainQueue, Firestore

LEMMA DocumentInvariant == Spec => []DocumentInv
<1>1. Init => DocumentInv
  BY DEF Init, DocumentInv, EveryAccountHasADocument, UserHasAccount
<1>2. TypeInv /\ TypeInv' /\ DocumentInv /\ [Next]_vars => DocumentInv'
  BY DocumentStep
<1> QED
  BY <1>1, <1>2, TypeInvariant, PTL DEF Spec

(* Between createUser and the block of signUpTapped an account has no document,
   but the block is kept, whatever screen it finds: as long as no sign up is
   cut off, lost or refused, every account has a document or will. *)
THEOREM AccountsHaveDocuments == Spec => []EveryAccountHasADocument
<1>1. DocumentInv => EveryAccountHasADocument
  BY DEF DocumentInv
<1> QED
  BY <1>1, DocumentInvariant, PTL

----------------------------------------------------------------------------
\* Owners

(* Whoever leaves with nothing under way (calm) takes no call along: every add
   and timer is of the user signed in. *)
CallsAreOwn ==
    /\ \A k \in 1..Len(adds) : adds[k].by = currentUser
    /\ \A k \in 1..Len(addBlocks) : addBlocks[k].add.by = currentUser
    /\ \A t \in timers : t.by = currentUser

OwnInv == HabitsAreOwn /\ (calm /\ single => CallsAreOwn)

LEMMA CallsTyped ==
    ASSUME TypeInv
    PROVE  /\ adds \in Seq(AddType)
           /\ addBlocks \in Seq([add : AddType, number : Nat \cup {Missing}])
           /\ Len(adds) \in Nat /\ Len(addBlocks) \in Nat
<1>1. /\ adds \in Seq(AddType)
      /\ addBlocks \in Seq([add : AddType, number : Nat \cup {Missing}])
  BY DEF TypeInv, TypeOK, CallTypeOK
<1> QED
  BY <1>1

LEMMA OtherOwners ==
    ASSUME OwnInv, UNCHANGED <<habits, callVars, currentUser>>, calm' => calm, single' => single
    PROVE  OwnInv'
BY DEF OwnInv, HabitsAreOwn, CallsAreOwn, callVars

(* The user changes, or the process ends: nothing is under way. *)
LEMMA QuietOwners ==
    ASSUME OwnInv, TypeInv, UNCHANGED habits, calm' => calm, single' => single,
           calm' => adds' = <<>> /\ addBlocks' = <<>> /\ timers' = {}
    PROVE  OwnInv'
<1>1. Len(<<>>) = 0
  OBVIOUS
<1>2. calm' => CallsAreOwn'
  BY <1>1 DEF CallsAreOwn
<1> QED
  BY <1>2 DEF OwnInv, HabitsAreOwn

LEMMA UserChanges ==
    ASSUME OwnInv, TypeInv, NEW u, Becomes(u), UNCHANGED <<habits, callVars, single>>
    PROVE  OwnInv'
<1>1. CASE u = currentUser
  BY <1>1, OtherOwners DEF Becomes
<1>2. CASE u # currentUser
  <2>1. calm' => calm /\ Quiet
    BY <1>2 DEF Becomes
  <2>2. calm' => adds' = <<>> /\ addBlocks' = <<>> /\ timers' = {}
    BY <2>1 DEF Quiet, callVars
  <2> QED
    BY <2>1, <2>2, QuietOwners
<1> QED
  BY <1>1, <1>2

LEMMA TapAddOwners ==
    ASSUME TypeInv, SessionInv, OwnInv, TapAdd
    PROVE  OwnInv'
<1> SUFFICES ASSUME calm, single PROVE CallsAreOwn'
  BY DEF OwnInv, HabitsAreOwn, TapAdd, storeVars, histVars
<1> DEFINE add == [ref |-> currentUser, by |-> home.user]
<1>1. add.by = currentUser /\ add \in AddType
  <2>1. front = "home" /\ home.user = currentUser
    BY DEF TapAdd, SessionInv, SessionIsCurrent
  <2>2. currentUser \in Users
    BY <2>1 DEF TypeInv, TypeOK, AuthTypeOK, ScreenTypeOK, Someone
  <2> QED
    BY <2>1, <2>2 DEF AddType
<1>2. adds' = Append(adds, add) /\ UNCHANGED <<addBlocks, timers, currentUser>>
  BY DEF TapAdd, authVars
<1> HIDE DEF add
<1>3. /\ Len(adds') = Len(adds) + 1 /\ adds'[Len(adds) + 1] = add
      /\ \A k \in 1..Len(adds) : adds'[k] = adds[k]
  BY <1>1, <1>2, AppendType, CallsTyped
<1>4. \A k \in 1..Len(adds') : k \in 1..Len(adds) \/ k = Len(adds) + 1
  BY <1>3, CallsTyped
<1>5. CallsAreOwn
  BY DEF OwnInv
<1>6. \A k \in 1..Len(adds') : adds'[k].by = currentUser'
  BY <1>1, <1>2, <1>3, <1>4, <1>5 DEF CallsAreOwn
<1> QED
  BY <1>2, <1>5, <1>6 DEF CallsAreOwn

LEMMA AnswerAddOwners ==
    ASSUME TypeInv, OwnInv, NEW i \in DOMAIN adds, AnswerAdd(i)
    PROVE  OwnInv'
<1> SUFFICES ASSUME calm, single PROVE CallsAreOwn'
  BY DEF OwnInv, HabitsAreOwn, AnswerAdd, storeVars, histVars
<1> DEFINE T     == [add : AddType, number : Nat \cup {Missing}]
           block == [add |-> adds[i],
                     number |-> IF adds[i].ref \in DOMAIN userDocs
                                THEN userDocs[adds[i].ref] ELSE Missing]
<1>1. i \in 1..Len(adds) /\ adds[i] \in AddType
  BY CallsTyped, ElementOfSeq
<1>2. block \in T /\ block.add = adds[i]
  BY <1>1 DEF TypeInv, TypeOK, StoreTypeOK
<1>3. /\ addBlocks' = Append(addBlocks, block) /\ adds' = RemoveAt(adds, i)
      /\ UNCHANGED <<timers, currentUser>>
  BY DEF AnswerAdd, authVars
<1>4. addBlocks \in Seq(T)
  BY CallsTyped
<1> HIDE DEF block, T
<1>5. /\ Len(addBlocks') = Len(addBlocks) + 1 /\ addBlocks'[Len(addBlocks) + 1] = block
      /\ \A k \in 1..Len(addBlocks) : addBlocks'[k] = addBlocks[k]
  BY <1>2, <1>3, <1>4, AppendType
<1>6. \A k \in 1..Len(addBlocks') : k \in 1..Len(addBlocks) \/ k = Len(addBlocks) + 1
  BY <1>5, CallsTyped
<1>7. \A k \in 1..Len(adds') : \E j \in 1..Len(adds) : adds'[k] = adds[j]
  <2>1. adds \in Seq(AddType)
    BY CallsTyped
  <2>2. \A k \in 1..Len(RemoveAt(adds, i)) :
           \E j \in 1..Len(adds) : RemoveAt(adds, i)[k] = adds[j]
    BY <1>1, <2>1, RemoveAtType
  <2> QED
    BY <1>3, <2>2
<1>8. CallsAreOwn
  BY DEF OwnInv
<1>9. \A k \in 1..Len(adds') : adds'[k].by = currentUser'
  BY <1>3, <1>7, <1>8 DEF CallsAreOwn
<1>10. \A k \in 1..Len(addBlocks') : addBlocks'[k].add.by = currentUser'
  BY <1>1, <1>2, <1>3, <1>5, <1>6, <1>8 DEF CallsAreOwn
<1> QED
  BY <1>3, <1>8, <1>9, <1>10 DEF CallsAreOwn

LEMMA TimerOwners ==
    ASSUME TypeInv, SessionInv, OwnInv,
           NEW r \in 0..(home.rows - 1), StartTimer(r)
    PROVE  OwnInv'
<1> SUFFICES ASSUME calm, single PROVE CallsAreOwn'
  BY DEF OwnInv, HabitsAreOwn, StartTimer, storeVars, histVars
<1>1. home.user = currentUser
  BY DEF StartTimer, SessionInv, SessionIsCurrent
<1>2. CallsAreOwn
  BY DEF OwnInv
<1> QED
  BY <1>1, <1>2 DEF CallsAreOwn, StartTimer, authVars

(* The habits of the user signed in change, and only by a call of theirs. *)
LEMMA RunAddOwners ==
    ASSUME TypeInv, OwnInv, RunAdd
    PROVE  OwnInv'
<1> DEFINE add == Head(addBlocks).add
           n   == Head(addBlocks).number
<1>1. UNCHANGED <<currentUser, adds, timers, calm, single>> /\ addBlocks' = Tail(addBlocks)
  BY DEF RunAdd, authVars, histVars
<1>2. /\ Head(addBlocks) = addBlocks[1] /\ 1 \in 1..Len(addBlocks)
      /\ \A k \in 1..Len(Tail(addBlocks)) :
            k + 1 \in 1..Len(addBlocks) /\ Tail(addBlocks)[k] = addBlocks[k + 1]
  <2>1. addBlocks # <<>>
    BY DEF RunAdd
  <2> QED
    BY <2>1, CallsTyped, TailType
<1>3. CallsAreOwn => CallsAreOwn'
  BY <1>1, <1>2 DEF CallsAreOwn
<1>4. CallsAreOwn => add.by = currentUser
  BY <1>2 DEF CallsAreOwn
<1>5. \/ UNCHANGED habits
      \/ /\ currentUser # NoUser
         /\ habits' = [habits EXCEPT ![currentUser] =
                          [m \in DOMAIN @ \cup {n} |-> IF m = n THEN {add.by} ELSE @[m]]]
  BY DEF RunAdd
<1> HIDE DEF add, n
<1>6. ASSUME calm, single, HabitsAreOwn, NEW u \in Users, NEW m \in DOMAIN habits'[u]
      PROVE  habits'[u][m] = {u}
  <2>1. add.by = currentUser
    BY <1>4, <1>6 DEF OwnInv
  <2>2. \A v \in Users : \A k \in DOMAIN habits[v] : habits[v][k] = {v}
    BY <1>6 DEF HabitsAreOwn
  <2>3. CASE UNCHANGED habits \/ u # currentUser
    <3>1. habits'[u] = habits[u]
      <4>1. DOMAIN habits = Users
        BY DEF TypeInv, TypeOK, StoreTypeOK
      <4>2. CASE UNCHANGED habits
        BY <4>2
      <4>3. CASE ~UNCHANGED habits
        BY <1>5, <2>3, <4>1, <4>3
      <4> QED
        BY <4>2, <4>3
    <3> QED
      BY <1>6, <2>2, <3>1
  <2>4. CASE ~UNCHANGED habits /\ u = currentUser
    <3>1. habits'[u] = [k \in DOMAIN habits[u] \cup {n} |->
                           IF k = n THEN {add.by} ELSE habits[u][k]]
      <4>1. DOMAIN habits = Users /\ currentUser \in Users
        BY <2>4 DEF TypeInv, TypeOK, StoreTypeOK
      <4>2. habits' = [habits EXCEPT ![currentUser] =
                          [k \in DOMAIN @ \cup {n} |-> IF k = n THEN {add.by} ELSE @[k]]]
        BY <1>5, <2>4
      <4> QED
        BY <2>4, <4>1, <4>2
    <3>2. m \in DOMAIN habits[u] \cup {n}
      BY <1>6, <3>1
    <3> QED
      BY <2>1, <2>2, <2>4, <3>1, <3>2
  <2> QED
    BY <2>3, <2>4
<1> QED
  BY <1>1, <1>3, <1>6 DEF OwnInv, HabitsAreOwn

LEMMA TimerEndsOwners ==
    ASSUME TypeInv, OwnInv, NEW t \in timers, TimerEnds(t)
    PROVE  OwnInv'
<1>1. UNCHANGED <<currentUser, adds, addBlocks, calm, single>> /\ timers' \subseteq timers
  BY DEF TimerEnds, authVars, histVars
<1>2. CallsAreOwn => CallsAreOwn' /\ t.by = currentUser
  BY <1>1 DEF CallsAreOwn
<1>3. \/ UNCHANGED habits
      \/ /\ currentUser \in Users /\ t.row \in DOMAIN habits[currentUser]
         /\ habits' = [habits EXCEPT ![currentUser][t.row] = @ \cup {t.by}]
  BY DEF TimerEnds, TypeInv, TypeOK, AuthTypeOK, Someone
<1>4. ASSUME calm, single, HabitsAreOwn, NEW u \in Users, NEW m \in DOMAIN habits'[u]
      PROVE  habits'[u][m] = {u}
  <2>1. t.by = currentUser
    BY <1>2, <1>4 DEF OwnInv
  <2>2. \A v \in Users : \A k \in DOMAIN habits[v] : habits[v][k] = {v}
    BY <1>4 DEF HabitsAreOwn
  <2>3. CASE UNCHANGED habits
    BY <1>4, <2>2, <2>3
  <2>4. CASE ~UNCHANGED habits
    <3>1. DOMAIN habits = Users
      BY DEF TypeInv, TypeOK, StoreTypeOK
    <3>2. CASE u # currentUser
      <4>1. habits'[u] = habits[u]
        BY <1>3, <2>4, <3>1, <3>2
      <4> QED
        BY <1>4, <2>2, <4>1
    <3>3. CASE u = currentUser
      <4>1. habits'[u] = [habits[u] EXCEPT ![t.row] = @ \cup {t.by}]
        BY <1>3, <2>4, <3>1, <3>3
      <4>2. m \in DOMAIN habits[u]
        BY <1>4, <4>1
      <4>3. habits[u][m] = {u}
        BY <2>2, <4>2
      <4>4. habits'[u][m] \in {habits[u][m], habits[u][m] \cup {t.by}}
        BY <4>1, <4>2
      <4> QED
        BY <2>1, <3>3, <4>3, <4>4
    <3> QED
      BY <3>2, <3>3
  <2> QED
    BY <2>3, <2>4
<1> QED
  BY <1>1, <1>2, <1>4 DEF OwnInv, HabitsAreOwn

LEMMA OwnStep == TypeInv /\ SessionInv /\ OwnInv /\ [Next]_vars => OwnInv'
<1> SUFFICES ASSUME TypeInv, SessionInv, OwnInv, [Next]_vars PROVE OwnInv'
  OBVIOUS
<1> DEFINE Kept == /\ UNCHANGED <<habits, callVars, currentUser>>
                   /\ (calm' => calm) /\ (single' => single)
<1>0. Kept => OwnInv'
  BY OtherOwners
<1>1. ASSUME ShowSignUp \/ DismissSignUp PROVE Kept
  BY <1>1 DEF ShowSignUp, DismissSignUp, authVars, storeVars, histVars
<1>2. ASSUME NEW u \in Users, TapSignUp(u) \/ TapLogin(u) PROVE Kept
  <2>1. UNCHANGED <<habits, callVars, currentUser, calm>>
    BY <1>2 DEF TapSignUp, TapLogin, Request, storeVars
  <2>2. single' => single
    BY <1>2 DEF TapSignUp, TapLogin, Request
  <2> QED
    BY <2>1, <2>2
<1>3. ASSUME RunSignUp \/ RunSignIn PROVE Kept
  BY <1>3 DEF RunSignUp, RunSignIn, storeVars, histVars
<1>4. ASSUME FetchAnswered PROVE Kept
  BY <1>4, Zenon DEF FetchAnswered, authVars, storeVars, histVars
<1>5. ASSUME NEW u \in unsaved, Acknowledge(u) \/ Reject(u) PROVE Kept
  BY <1>5 DEF Acknowledge, Reject, authVars, histVars
<1>6. ASSUME UNCHANGED vars PROVE Kept
  BY <1>6 DEF vars, authVars, storeVars, histVars
<1>7. ASSUME NEW i \in DOMAIN requests, AuthSucceeds(i) PROVE OwnInv'
  BY <1>7, UserChanges DEF AuthSucceeds, storeVars
<1>8. ASSUME NEW i \in DOMAIN requests, AuthFails(i) \/ AnswerLost(i) PROVE Kept
  <2>1. UNCHANGED <<habits, callVars, currentUser, calm, single>>
    BY <1>8 DEF AuthFails, AnswerLost, storeVars, histVars
  <2> QED
    BY <2>1
<1>9. ASSUME SignOut PROVE OwnInv'
  BY <1>9, UserChanges DEF SignOut, storeVars
<1>10. ASSUME NEW made \in SUBSET Users, Relaunch(made) PROVE OwnInv'
  BY <1>10, QuietOwners DEF Relaunch, storeVars
<1>11. ASSUME TapAdd \/ (\E i \in DOMAIN adds : AnswerAdd(i))
              \/ \E r \in 0..(home.rows - 1) : StartTimer(r)
       PROVE  OwnInv'
  BY <1>11, TapAddOwners, AnswerAddOwners, TimerOwners
<1>12. ASSUME RunAdd \/ \E t \in timers : TimerEnds(t) PROVE OwnInv'
  BY <1>12, RunAddOwners, TimerEndsOwners
<1> HIDE DEF Kept
<1> QED
  BY <1>0, <1>1, <1>2, <1>3, <1>4, <1>5, <1>6, <1>7, <1>8, <1>9, <1>10, <1>11, <1>12
     DEF Next, Person, Auth, MainQueue, Firestore

LEMMA OwnInvariant == Spec => []OwnInv
<1>1. Init => OwnInv
  BY DEF Init, OwnInv, HabitsAreOwn, CallsAreOwn
<1>2. TypeInv /\ SessionInv /\ OwnInv /\ [Next]_vars => OwnInv'
  BY OwnStep
<1> QED
  BY <1>1, <1>2, TypeInvariant, SessionInvariant, PTL DEF Spec

(* Users who make one request at a time and leave with nothing under way never
   write to each other's habits, although no write says whose it is: every
   block and every timer asks for the user signed in when it runs. *)
THEOREM HabitsAreOwned == Spec => []HabitsAreOwn
<1>1. OwnInv => HabitsAreOwn
  BY DEF OwnInv
<1> QED
  BY <1>1, OwnInvariant, PTL

----------------------------------------------------------------------------
\* Traps

Safe == calm /\ single /\ sound

(* The counter never runs ahead of the habit documents. *)
DocsAreWhole == \A u \in DOMAIN userDocs : Counted(u) \subseteq DOMAIN habits[u]

(* The user of the home screen in front, and of its fetch, has a document. *)
ScreenHasADocument ==
    /\ front = "home" => currentUser \in DOMAIN userDocs
    /\ fetching => home.user = currentUser /\ currentUser \in DOMAIN userDocs

BlockIsWhole(block) ==
    /\ block.add.ref = currentUser /\ currentUser \in DOMAIN userDocs
    /\ block.number \in Nat
    /\ 0..(block.number - 1) \subseteq DOMAIN habits[currentUser]

(* And so has that of every add. *)
AddsHaveADocument ==
    /\ \A k \in 1..Len(adds) : adds[k].ref = currentUser /\ currentUser \in DOMAIN userDocs
    /\ \A k \in 1..Len(addBlocks) : BlockIsWhole(addBlocks[k])

TrapInv ==
    Safe => app = "running" /\ DocsAreWhole /\ ScreenHasADocument /\ AddsHaveADocument

Inv == TypeInv /\ SessionInv /\ DocumentInv /\ OwnInv

LEMMA OtherTraps ==
    ASSUME TrapInv, Safe' => Safe,
           UNCHANGED <<userDocs, habits, front, homeVars, adds, addBlocks, currentUser, app>>
    PROVE  TrapInv'
BY DEF TrapInv, DocsAreWhole, Counted, ScreenHasADocument, AddsHaveADocument, BlockIsWhole,
       homeVars

LEMMA SmallSteps ==
    ASSUME TrapInv, [Next]_vars,
           \/ ShowSignUp \/ DismissSignUp
           \/ \E u \in Users : TapSignUp(u) \/ TapLogin(u)
           \/ \E i \in DOMAIN requests : AuthFails(i) \/ AnswerLost(i)
           \/ \E r \in 0..(home.rows - 1) : StartTimer(r)
           \/ \E u \in unsaved : Acknowledge(u) \/ Reject(u)
           \/ UNCHANGED vars
    PROVE  TrapInv'
<1> DEFINE Kept == UNCHANGED <<userDocs, habits, front, homeVars, adds, addBlocks,
                               currentUser, app>>
<1>0. Kept /\ (Safe' => Safe) => TrapInv'
  BY OtherTraps
<1>1. ASSUME ShowSignUp \/ DismissSignUp PROVE TrapInv'
  <2>1. /\ UNCHANGED <<userDocs, habits, homeVars, adds, addBlocks, currentUser, app,
                       calm, single, sound>>
        /\ front # "home" /\ front' # "home"
    BY <1>1 DEF ShowSignUp, DismissSignUp, authVars, storeVars, callVars, histVars
  <2> QED
    BY <2>1 DEF TrapInv, Safe, DocsAreWhole, Counted, ScreenHasADocument,
       AddsHaveADocument, BlockIsWhole, homeVars
<1>2. ASSUME NEW u \in Users, TapSignUp(u) \/ TapLogin(u) PROVE TrapInv'
  <2>1. Kept /\ UNCHANGED <<calm, sound>>
    BY <1>2 DEF TapSignUp, TapLogin, Request, storeVars, callVars
  <2>2. single' => single
    BY <1>2 DEF TapSignUp, TapLogin, Request
  <2> QED
    BY <1>0, <2>1, <2>2 DEF Safe
<1>3. ASSUME NEW i \in DOMAIN requests, AuthFails(i) PROVE TrapInv'
  <2>1. Kept /\ UNCHANGED <<calm, single, sound>>
    BY <1>3 DEF AuthFails, storeVars, callVars, histVars
  <2> QED
    BY <1>0, <2>1 DEF Safe
<1>4. ASSUME NEW i \in DOMAIN requests, AnswerLost(i) PROVE TrapInv'
  BY <1>4 DEF AnswerLost, TrapInv, Safe
<1>5. ASSUME NEW r \in 0..(home.rows - 1), StartTimer(r) PROVE TrapInv'
  <2>1. Kept /\ UNCHANGED <<calm, single, sound>>
    BY <1>5 DEF StartTimer, authVars, storeVars, histVars
  <2> QED
    BY <1>0, <2>1 DEF Safe
<1>6. ASSUME NEW u \in unsaved, Acknowledge(u) PROVE TrapInv'
  <2>1. Kept /\ UNCHANGED <<calm, single, sound>>
    BY <1>6 DEF Acknowledge, authVars, callVars, histVars
  <2> QED
    BY <1>0, <2>1 DEF Safe
<1>7. ASSUME NEW u \in unsaved, Reject(u) PROVE TrapInv'
  BY <1>7 DEF Reject, TrapInv, Safe
<1>8. ASSUME UNCHANGED vars PROVE TrapInv'
  <2>1. Kept /\ UNCHANGED <<calm, single, sound>>
    BY <1>8 DEF vars, authVars, storeVars, callVars, histVars
  <2> QED
    BY <1>0, <2>1 DEF Safe
<1> QED
  BY <1>1, <1>2, <1>3, <1>4, <1>5, <1>6, <1>7, <1>8

LEMMA NoAdds ==
    /\ adds = <<>> /\ addBlocks = <<>> => AddsHaveADocument
    /\ adds' = <<>> /\ addBlocks' = <<>> => AddsHaveADocument'
<1>1. Len(<<>>) = 0
  OBVIOUS
<1> QED
  BY <1>1 DEF AddsHaveADocument

(* A user who comes or goes finds nothing under way. *)
LEMMA UserTraps ==
    ASSUME TypeInv, TrapInv, NEW u, Becomes(u), UNCHANGED <<storeVars, homeVars, callVars>>,
           app' = app, single' = single, sound' = sound, Safe' => front' # "home"
    PROVE  TrapInv'
<1> SUFFICES ASSUME Safe' PROVE TrapInv'
  BY DEF TrapInv
<1>1. Safe
  BY DEF Safe, Becomes
<1>2. CASE u = currentUser
  BY <1>1, <1>2 DEF TrapInv, DocsAreWhole, Counted, ScreenHasADocument, AddsHaveADocument,
     BlockIsWhole, homeVars, storeVars, callVars, Becomes
<1>3. CASE u # currentUser
  <2>1. Quiet
    BY <1>3 DEF Safe, Becomes
  <2>2. app' = "running" /\ DocsAreWhole'
    BY <1>1 DEF TrapInv, DocsAreWhole, Counted, storeVars
  <2>3. ScreenHasADocument'
    BY <2>1 DEF Quiet, ScreenHasADocument, homeVars
  <2>4. adds' = <<>> /\ addBlocks' = <<>>
    BY <2>1 DEF Quiet, callVars
  <2> QED
    BY <2>2, <2>3, <2>4, NoAdds DEF TrapInv
<1> QED
  BY <1>2, <1>3

LEMMA AuthTraps ==
    ASSUME Inv, TrapInv, NEW i \in DOMAIN requests, AuthSucceeds(i)
    PROVE  TrapInv'
<1>1. /\ Becomes(requests[i].user) /\ UNCHANGED <<storeVars, homeVars, callVars>>
      /\ app' = app /\ single' = single /\ sound' = sound /\ front' = front
  BY DEF AuthSucceeds
<1>2. Safe' => front' # "home"
  <2>1. requests # <<>>
    BY DEF Inv, TypeInv, TypeOK, AuthTypeOK
  <2> QED
    BY <1>1, <2>1 DEF Inv, SessionInv, OneAtATime, Safe
<1> QED
  BY <1>1, <1>2, UserTraps DEF Inv

LEMMA SignOutTraps ==
    ASSUME Inv, TrapInv, SignOut
    PROVE  TrapInv'
<1>1. /\ Becomes(NoUser) /\ UNCHANGED <<storeVars, homeVars, callVars>>
      /\ app' = app /\ single' = single /\ sound' = sound /\ front' # "home"
  BY DEF SignOut
<1> QED
  BY <1>1, UserTraps DEF Inv

(* The user of a login has a document: no block of a sign up is left. *)
LEMMA SignedInHasADocument ==
    ASSUME Inv, Safe, currentUser # NoUser,
           \A k \in 1..Len(authBlocks) : ~Writes(authBlocks[k], currentUser)
    PROVE  currentUser \in DOMAIN userDocs
<1>1. currentUser \in accounts
  BY DEF Inv, DocumentInv, UserHasAccount
<1>2. Documented(currentUser)
  BY <1>1, DocumentedMeans DEF Inv, DocumentInv, Safe
<1> QED
  BY <1>2 DEF Documented

LEMMA RunSignUpTraps ==
    ASSUME Inv, TrapInv, RunSignUp
    PROVE  TrapInv'
<1> SUFFICES ASSUME Safe' PROVE TrapInv'
  BY DEF TrapInv
<1> DEFINE block == Head(authBlocks)
<1>1. /\ UNCHANGED <<currentUser, habits, adds, addBlocks, app, calm, single, sound>>
      /\ userDocs' = userDocs \/ userDocs' = NewDocument(block)
      /\ authBlocks # <<>>
  BY DEF RunSignUp, callVars, histVars
<1>2. /\ Safe /\ app = "running" /\ DocsAreWhole /\ ScreenHasADocument /\ AddsHaveADocument
  BY <1>1 DEF Safe, TrapInv
<1>3. /\ DOMAIN userDocs \subseteq DOMAIN userDocs'
      /\ \A u \in DOMAIN userDocs' :
            userDocs'[u] = 0 \/ (u \in DOMAIN userDocs /\ userDocs'[u] = userDocs[u])
  BY <1>1 DEF NewDocument
<1>4. DocsAreWhole'
  <2> SUFFICES ASSUME NEW u \in DOMAIN userDocs' PROVE Counted(u)' \subseteq DOMAIN habits'[u]
    BY DEF DocsAreWhole
  <2>1. CASE userDocs'[u] = 0
    BY <2>1 DEF Counted
  <2>2. CASE u \in DOMAIN userDocs /\ userDocs'[u] = userDocs[u]
    BY <1>1, <1>2, <2>2 DEF Counted, DocsAreWhole
  <2> QED
    BY <1>3, <2>1, <2>2
<1>5. ScreenHasADocument'
  <2>1. CASE UNCHANGED <<front, home, fetching>>
    BY <1>1, <1>2, <1>3, <2>1 DEF ScreenHasADocument
  <2>2. CASE ~UNCHANGED <<front, home, fetching>>
    <3>1. block.ok /\ userDocs' = NewDocument(block) /\ home'.user = currentUser
      BY <2>2 DEF RunSignUp, StayHere, homeVars, EnterHome
    <3>2. block.user = currentUser
      <4>1. 1 \in 1..Len(authBlocks) /\ block = authBlocks[1]
        BY <1>1, QueuesTyped, TailType DEF Inv
      <4> QED
        BY <1>2, <3>1, <4>1 DEF Inv, SessionInv, OneAtATime, Safe
    <3>3. currentUser \in DOMAIN userDocs'
      BY <3>1, <3>2 DEF NewDocument
    <3> QED
      BY <1>1, <3>1, <3>3 DEF ScreenHasADocument
  <2> QED
    BY <2>1, <2>2
<1>6. AddsHaveADocument'
  BY <1>1, <1>2, <1>3 DEF AddsHaveADocument, BlockIsWhole
<1> QED
  BY <1>1, <1>2, <1>4, <1>5, <1>6 DEF TrapInv

LEMMA RunSignInTraps ==
    ASSUME Inv, TrapInv, RunSignIn
    PROVE  TrapInv'
<1> SUFFICES ASSUME Safe' PROVE TrapInv'
  BY DEF TrapInv
<1> DEFINE block == Head(authBlocks)
<1>1. /\ UNCHANGED <<currentUser, userDocs, habits, adds, addBlocks, app, calm, single, sound>>
      /\ authBlocks # <<>> /\ block.kind = "signIn"
  BY DEF RunSignIn, callVars, storeVars, histVars
<1>2. /\ Safe /\ app = "running" /\ DocsAreWhole /\ ScreenHasADocument /\ AddsHaveADocument
  BY <1>1 DEF Safe, TrapInv
<1>3. ScreenHasADocument'
  <2>1. CASE UNCHANGED <<front, home, fetching>>
    BY <1>1, <1>2, <2>1 DEF ScreenHasADocument
  <2>2. CASE ~UNCHANGED <<front, home, fetching>>
    <3>1. block.ok /\ block.inWindow /\ home'.user = currentUser
      BY <2>2 DEF RunSignIn, StayHere, homeVars, EnterHome
    <3>2. currentUser # NoUser
      BY <1>1, <3>1, HeadType DEF Inv
    <3>3. \A k \in 1..Len(authBlocks) : authBlocks[k] = block
      <4>1. Len(authBlocks) \in Nat /\ block = authBlocks[1]
        BY <1>1, QueuesTyped, TailType DEF Inv
      <4>2. Len(authBlocks) <= 1
        BY <1>2 DEF Inv, SessionInv, OneAtATime, Safe
      <4>3. \A k \in 1..Len(authBlocks) : k = 1
        BY <4>1, <4>2
      <4> QED
        BY <4>1, <4>3
    <3>4. \A k \in 1..Len(authBlocks) : ~Writes(authBlocks[k], currentUser)
      BY <1>1, <3>3 DEF Writes
    <3>5. currentUser \in DOMAIN userDocs
      BY <1>2, <3>2, <3>4, SignedInHasADocument
    <3> QED
      BY <1>1, <3>1, <3>5 DEF ScreenHasADocument
  <2> QED
    BY <2>1, <2>2
<1>4. DocsAreWhole' /\ AddsHaveADocument'
  BY <1>1, <1>2 DEF DocsAreWhole, Counted, AddsHaveADocument, BlockIsWhole
<1> QED
  BY <1>1, <1>2, <1>3, <1>4 DEF TrapInv

LEMMA FetchTraps ==
    ASSUME Inv, TrapInv, FetchAnswered
    PROVE  TrapInv'
<1> SUFFICES ASSUME Safe' PROVE TrapInv'
  BY DEF TrapInv
<1>1. /\ UNCHANGED <<currentUser, userDocs, habits, adds, addBlocks, front,
                     calm, single, sound>>
      /\ fetching
  BY Zenon DEF FetchAnswered, authVars, storeVars, callVars, histVars
<1>2. /\ Safe /\ app = "running" /\ DocsAreWhole /\ ScreenHasADocument /\ AddsHaveADocument
  BY <1>1 DEF Safe, TrapInv
<1>3. home.user \in DOMAIN userDocs /\ Counted(home.user) \subseteq DOMAIN habits[home.user]
  BY <1>1, <1>2 DEF ScreenHasADocument, DocsAreWhole
<1>4. app' = app /\ fetching' = FALSE
  BY <1>3 DEF FetchAnswered
<1>5. ScreenHasADocument'
  BY <1>1, <1>2, <1>4 DEF ScreenHasADocument
<1>6. DocsAreWhole' /\ AddsHaveADocument'
  BY <1>1, <1>2 DEF DocsAreWhole, Counted, AddsHaveADocument, BlockIsWhole
<1> QED
  BY <1>2, <1>4, <1>5, <1>6 DEF TrapInv

LEMMA TapAddTraps ==
    ASSUME Inv, TrapInv, TapAdd
    PROVE  TrapInv'
<1> SUFFICES ASSUME Safe' PROVE TrapInv'
  BY DEF TrapInv
<1>1. /\ UNCHANGED <<currentUser, userDocs, habits, addBlocks, front, home, fetching, app,
                     calm, single, sound>>
      /\ front = "home"
  BY DEF TapAdd, authVars, storeVars, homeVars, histVars
<1>2. /\ Safe /\ app = "running" /\ DocsAreWhole /\ ScreenHasADocument /\ AddsHaveADocument
  BY <1>1 DEF Safe, TrapInv
<1>3. currentUser \in DOMAIN userDocs
  BY <1>1, <1>2 DEF ScreenHasADocument
<1> DEFINE add == [ref |-> currentUser, by |-> home.user]
<1>4. add \in AddType /\ add.ref = currentUser
  BY <1>1 DEF Inv, TypeInv, TypeOK, AuthTypeOK, ScreenTypeOK, Someone, AddType
<1>5. adds' = Append(adds, add)
  BY DEF TapAdd
<1> HIDE DEF add
<1>6. /\ Len(adds') = Len(adds) + 1 /\ adds'[Len(adds) + 1] = add
      /\ \A k \in 1..Len(adds) : adds'[k] = adds[k]
  BY <1>4, <1>5, AppendType, CallsTyped DEF Inv
<1>7. \A k \in 1..Len(adds') : k \in 1..Len(adds) \/ k = Len(adds) + 1
  BY <1>6, CallsTyped DEF Inv
<1>8. \A k \in 1..Len(adds') : adds'[k].ref = currentUser' /\ currentUser' \in DOMAIN userDocs'
  BY <1>1, <1>2, <1>3, <1>4, <1>6, <1>7 DEF AddsHaveADocument
<1>9. AddsHaveADocument'
  BY <1>1, <1>2, <1>8 DEF AddsHaveADocument, BlockIsWhole
<1>10. DocsAreWhole' /\ ScreenHasADocument'
  BY <1>1, <1>2 DEF DocsAreWhole, Counted, ScreenHasADocument
<1> QED
  BY <1>1, <1>2, <1>9, <1>10 DEF TrapInv

LEMMA AnswerAddTraps ==
    ASSUME Inv, TrapInv, NEW i \in DOMAIN adds, AnswerAdd(i)
    PROVE  TrapInv'
<1> SUFFICES ASSUME Safe' PROVE TrapInv'
  BY DEF TrapInv
<1>1. UNCHANGED <<currentUser, userDocs, habits, front, home, fetching, app,
                  calm, single, sound>>
  BY DEF AnswerAdd, authVars, storeVars, homeVars, histVars
<1>2. /\ Safe /\ app = "running" /\ DocsAreWhole /\ ScreenHasADocument /\ AddsHaveADocument
  BY <1>1 DEF Safe, TrapInv
<1> DEFINE T     == [add : AddType, number : Nat \cup {Missing}]
           block == [add |-> adds[i],
                     number |-> IF adds[i].ref \in DOMAIN userDocs
                                THEN userDocs[adds[i].ref] ELSE Missing]
<1>3. adds \in Seq(AddType) /\ i \in 1..Len(adds) /\ adds[i] \in AddType
  BY CallsTyped, ElementOfSeq DEF Inv
<1>4. adds[i].ref = currentUser /\ currentUser \in DOMAIN userDocs
  BY <1>2, <1>3 DEF AddsHaveADocument
<1>5. userDocs[currentUser] \in Nat
  BY <1>4 DEF Inv, TypeInv, TypeOK, StoreTypeOK
<1>6. block \in T /\ BlockIsWhole(block)
  <2>1. block.number = userDocs[currentUser] /\ block.add = adds[i] /\ block \in T
    BY <1>3, <1>4, <1>5
  <2>2. 0..(userDocs[currentUser] - 1) \subseteq DOMAIN habits[currentUser]
    BY <1>2, <1>4 DEF DocsAreWhole, Counted
  <2> HIDE DEF block
  <2> QED
    BY <1>4, <1>5, <2>1, <2>2 DEF BlockIsWhole
<1>7. addBlocks' = Append(addBlocks, block) /\ adds' = RemoveAt(adds, i)
  BY DEF AnswerAdd
<1>8. addBlocks \in Seq(T)
  BY CallsTyped DEF Inv
<1> HIDE DEF block, T
<1>9. /\ Len(addBlocks') = Len(addBlocks) + 1 /\ addBlocks'[Len(addBlocks) + 1] = block
      /\ \A k \in 1..Len(addBlocks) : addBlocks'[k] = addBlocks[k]
  BY <1>6, <1>7, <1>8, AppendType
<1>10. \A k \in 1..Len(addBlocks') : k \in 1..Len(addBlocks) \/ k = Len(addBlocks) + 1
  BY <1>9, CallsTyped DEF Inv
<1>11. \A k \in 1..Len(adds') : \E j \in 1..Len(adds) : adds'[k] = adds[j]
  BY <1>3, <1>7, RemoveAtType
<1>12. \A k \in 1..Len(addBlocks') : BlockIsWhole(addBlocks'[k])
  BY <1>2, <1>6, <1>9, <1>10 DEF AddsHaveADocument
<1>13. AddsHaveADocument'
  BY <1>1, <1>2, <1>11, <1>12 DEF AddsHaveADocument, BlockIsWhole
<1>14. DocsAreWhole' /\ ScreenHasADocument'
  BY <1>1, <1>2 DEF DocsAreWhole, Counted, ScreenHasADocument
<1> QED
  BY <1>1, <1>2, <1>13, <1>14 DEF TrapInv

(* The number that an add read has its habit before the counter passes it. *)
LEMMA RunAddTraps ==
    ASSUME Inv, TrapInv, RunAdd
    PROVE  TrapInv'
<1> SUFFICES ASSUME Safe' PROVE TrapInv'
  BY DEF TrapInv
<1> DEFINE add == Head(addBlocks).add
           n   == Head(addBlocks).number
<1>1. /\ UNCHANGED <<currentUser, front, home, adds, calm, single, sound>>
      /\ addBlocks' = Tail(addBlocks) /\ addBlocks # <<>>
  BY DEF RunAdd, authVars, histVars
<1>2. /\ Safe /\ app = "running" /\ DocsAreWhole /\ ScreenHasADocument /\ AddsHaveADocument
  BY <1>1 DEF Safe, TrapInv
<1>3. /\ Head(addBlocks) = addBlocks[1] /\ 1 \in 1..Len(addBlocks)
      /\ \A k \in 1..Len(Tail(addBlocks)) :
            k + 1 \in 1..Len(addBlocks) /\ Tail(addBlocks)[k] = addBlocks[k + 1]
  BY <1>1, CallsTyped, TailType DEF Inv
<1>4. /\ add.ref = currentUser /\ currentUser \in DOMAIN userDocs /\ n \in Nat
      /\ 0..(n - 1) \subseteq DOMAIN habits[currentUser]
  BY <1>2, <1>3 DEF AddsHaveADocument, BlockIsWhole
<1>5. /\ currentUser \in Users /\ DOMAIN habits = Users /\ currentUser # NoUser
      /\ DOMAIN userDocs \subseteq Users
  BY <1>4, NoUserAssumption DEF Inv, TypeInv, TypeOK, StoreTypeOK
<1>6. n # Missing
  BY <1>4 DEF Missing
<1>7. /\ habits' = [habits EXCEPT ![currentUser] =
                       [m \in DOMAIN @ \cup {n} |-> IF m = n THEN {add.by} ELSE @[m]]]
      /\ userDocs' = [userDocs EXCEPT ![currentUser] = CounterAfter(n)]
      /\ fetching' = (fetching \/ add.by = home.user)
      /\ app' = app
  BY <1>4, <1>5, <1>6 DEF RunAdd
<1>8. add.by = currentUser
  BY <1>2, <1>3 DEF Inv, OwnInv, CallsAreOwn, Safe
<1> HIDE DEF add, n
<1>9. /\ DOMAIN userDocs' = DOMAIN userDocs
      /\ userDocs'[currentUser] = n + 1
      /\ \A u \in DOMAIN userDocs : u # currentUser => userDocs'[u] = userDocs[u]
  BY <1>4, <1>7 DEF CounterAfter
<1>10. /\ DOMAIN habits'[currentUser] = DOMAIN habits[currentUser] \cup {n}
       /\ \A u \in Users : u # currentUser => habits'[u] = habits[u]
  BY <1>5, <1>7
<1>11. DocsAreWhole'
  <2> SUFFICES ASSUME NEW u \in DOMAIN userDocs' PROVE Counted(u)' \subseteq DOMAIN habits'[u]
    BY DEF DocsAreWhole
  <2>1. CASE u = currentUser
    <3>1. \A k \in 0..((n + 1) - 1) : k \in 0..(n - 1) \/ k = n
      BY <1>4
    <3>2. 0..((n + 1) - 1) \subseteq DOMAIN habits'[currentUser]
      BY <1>4, <1>10, <3>1
    <3> QED
      BY <1>9, <2>1, <3>2 DEF Counted
  <2>2. CASE u # currentUser
    BY <1>2, <1>5, <1>9, <1>10, <2>2 DEF Counted, DocsAreWhole
  <2> QED
    BY <2>1, <2>2
<1>12. ScreenHasADocument'
  <2>1. front' = "home" => currentUser' \in DOMAIN userDocs'
    BY <1>1, <1>4, <1>9
  <2>2. fetching' => fetching \/ add.by = home.user
    BY <1>7
  <2>3. fetching' => home'.user = currentUser' /\ currentUser' \in DOMAIN userDocs'
    BY <1>1, <1>2, <1>4, <1>8, <1>9, <2>2 DEF ScreenHasADocument
  <2> QED
    BY <2>1, <2>3 DEF ScreenHasADocument
<1>13. AddsHaveADocument'
  <2>1. \A k \in 1..Len(addBlocks') : BlockIsWhole(addBlocks[k + 1])
    BY <1>1, <1>2, <1>3 DEF AddsHaveADocument
  <2>2. ASSUME NEW k \in 1..Len(addBlocks')
        PROVE  /\ addBlocks'[k].add.ref = currentUser' /\ currentUser' \in DOMAIN userDocs'
               /\ addBlocks'[k].number \in Nat
               /\ 0..(addBlocks'[k].number - 1) \subseteq DOMAIN habits'[currentUser']
    <3>1. addBlocks'[k] = addBlocks[k + 1]
      BY <1>1, <1>3
    <3> QED
      BY <1>1, <1>9, <1>10, <2>1, <3>1 DEF BlockIsWhole
  <2>3. \A k \in 1..Len(adds') : adds'[k].ref = currentUser' /\ currentUser' \in DOMAIN userDocs'
    BY <1>1, <1>2, <1>9 DEF AddsHaveADocument
  <2> QED
    BY <2>2, <2>3 DEF AddsHaveADocument, BlockIsWhole
<1> QED
  BY <1>2, <1>7, <1>11, <1>12, <1>13 DEF TrapInv

LEMMA TimerTraps ==
    ASSUME Inv, TrapInv, NEW t \in timers, TimerEnds(t)
    PROVE  TrapInv'
<1> SUFFICES ASSUME Safe' PROVE TrapInv'
  BY DEF TrapInv
<1>1. UNCHANGED <<currentUser, userDocs, front, home, fetching, adds, addBlocks,
                  calm, single, sound>>
  BY DEF TimerEnds, authVars, homeVars, histVars
<1>2. /\ Safe /\ app = "running" /\ DocsAreWhole /\ ScreenHasADocument /\ AddsHaveADocument
  BY <1>1 DEF Safe, TrapInv
<1>3. currentUser \in Users
  <2>1. t.by = currentUser
    BY <1>2 DEF Inv, OwnInv, CallsAreOwn, Safe
  <2> QED
    BY <2>1 DEF Inv, TypeInv, TypeOK, CallTypeOK
<1>4. /\ app' = app
      /\ \/ habits' = habits
         \/ /\ t.row \in DOMAIN habits[currentUser]
            /\ habits' = [habits EXCEPT ![currentUser][t.row] = @ \cup {t.by}]
  BY <1>3, NoUserAssumption DEF TimerEnds
<1>5. \A u \in Users : DOMAIN habits'[u] = DOMAIN habits[u]
  <2>1. DOMAIN habits = Users
    BY DEF Inv, TypeInv, TypeOK, StoreTypeOK
  <2> QED
    BY <1>3, <1>4, <2>1
<1>6. DOMAIN userDocs \subseteq Users
  BY DEF Inv, TypeInv, TypeOK, StoreTypeOK
<1>7. DocsAreWhole' /\ ScreenHasADocument'
  BY <1>1, <1>2, <1>5, <1>6 DEF DocsAreWhole, Counted, ScreenHasADocument
<1>8. AddsHaveADocument'
  BY <1>1, <1>2, <1>3, <1>5 DEF AddsHaveADocument, BlockIsWhole
<1> QED
  BY <1>2, <1>4, <1>7, <1>8 DEF TrapInv

LEMMA RelaunchTraps ==
    ASSUME Inv, TrapInv, NEW made \in SUBSET Users, Relaunch(made)
    PROVE  TrapInv'
<1> SUFFICES ASSUME Safe' PROVE TrapInv'
  BY DEF TrapInv
<1>1. /\ UNCHANGED <<currentUser, userDocs, habits, calm, single>>
      /\ sound /\ app' = "running" /\ adds' = <<>> /\ addBlocks' = <<>>
      /\ front' = LaunchFront /\ home'.user = currentUser
      /\ fetching' = (currentUser # NoUser)
      /\ \A k \in DOMAIN authBlocks : ~(authBlocks[k].kind = "signUp" /\ authBlocks[k].ok)
  BY DEF Relaunch, storeVars, Safe
<1>2. Safe /\ DocsAreWhole
  BY <1>1 DEF Safe, TrapInv
<1>3. currentUser # NoUser => currentUser \in DOMAIN userDocs
  <2>1. DOMAIN authBlocks = 1..Len(authBlocks)
    BY QueuesTyped DEF Inv
  <2>2. \A k \in 1..Len(authBlocks) : ~Writes(authBlocks[k], currentUser)
    BY <1>1, <2>1 DEF Writes
  <2> QED
    BY <1>2, <2>2, SignedInHasADocument
<1>4. ScreenHasADocument'
  BY <1>1, <1>3 DEF ScreenHasADocument, LaunchFront
<1>5. DocsAreWhole'
  BY <1>1, <1>2 DEF DocsAreWhole, Counted
<1> QED
  BY <1>1, <1>4, <1>5, NoAdds DEF TrapInv

LEMMA TrapStep == Inv /\ TrapInv /\ [Next]_vars => TrapInv'
<1> SUFFICES ASSUME Inv, TrapInv, [Next]_vars PROVE TrapInv'
  OBVIOUS
<1>1. CASE \/ ShowSignUp \/ DismissSignUp
           \/ \E u \in Users : TapSignUp(u) \/ TapLogin(u)
           \/ \E i \in DOMAIN requests : AuthFails(i) \/ AnswerLost(i)
           \/ \E r \in 0..(home.rows - 1) : StartTimer(r)
           \/ \E u \in unsaved : Acknowledge(u) \/ Reject(u)
           \/ UNCHANGED vars
  BY <1>1, SmallSteps
<1>2. CASE \E i \in DOMAIN requests : AuthSucceeds(i)
  BY <1>2, AuthTraps
<1>3. CASE SignOut \/ TapAdd \/ \E i \in DOMAIN adds : AnswerAdd(i)
  BY <1>3, SignOutTraps, TapAddTraps, AnswerAddTraps
<1>4. CASE RunSignUp \/ RunSignIn \/ RunAdd \/ FetchAnswered
  BY <1>4, RunSignUpTraps, RunSignInTraps, RunAddTraps, FetchTraps
<1>5. CASE \E t \in timers : TimerEnds(t)
  BY <1>5, TimerTraps
<1>6. CASE \E made \in SUBSET Users : Relaunch(made)
  BY <1>6, RelaunchTraps
<1> QED
  BY <1>1, <1>2, <1>3, <1>4, <1>5, <1>6 DEF Next, Person, Auth, MainQueue, Firestore

LEMMA TrapInvariant == Spec => []TrapInv
<1>1. Init => TrapInv
  <2> SUFFICES ASSUME Init PROVE TrapInv
    OBVIOUS
  <2>1. /\ app = "running" /\ DOMAIN userDocs = {} /\ front = "login" /\ ~fetching
        /\ adds = <<>> /\ addBlocks = <<>>
    BY DEF Init
  <2>2. DocsAreWhole /\ ScreenHasADocument
    BY <2>1 DEF DocsAreWhole, ScreenHasADocument
  <2> QED
    BY <2>1, <2>2, NoAdds DEF TrapInv
<1>2. Inv /\ TrapInv /\ [Next]_vars => TrapInv'
  BY TrapStep
<1> QED
  BY <1>1, <1>2, TypeInvariant, SessionInvariant, DocumentInvariant, OwnInvariant, PTL
     DEF Spec, Inv

(* No forced cast and no currentUser! traps for users who do one thing at a time
   (calm, single), as long as no sign up is cut off, lost or refused (sound). *)
THEOREM NothingTraps == Spec => []NoTrap
<1>1. TrapInv => NoTrap
  BY DEF TrapInv, NoTrap, Safe
<1> QED
  BY <1>1, TrapInvariant, PTL
============================================================================
