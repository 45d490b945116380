--------------------------- MODULE SessionLifeProofs ---------------------------
(***************************************************************************)
(* Theorems about the browser's side of SessionLife, for any number of      *)
(* joins.                                                                   *)
(***************************************************************************)
EXTENDS SessionLife, TLAPS

RoomType ==
  /\ page \in {"mounted", "unmounted", "closed"}
  /\ room \in Joins \cup {None} /\ parent \in Joins \cup {None}
  /\ guard \in BOOLEAN /\ joined \in BOOLEAN /\ joining \in BOOLEAN
  /\ stage \in [Joins -> Awaiting \cup {"unused", "over"}]
  /\ link \in [Joins -> {"none", "up", "leaving", "down"}]

Active(j) == stage[j] \in Awaiting

(* A join under way is the only one, has the Join button and, unless the    *)
(* connection has dropped, roomRef; before it has connected it has no link. *)
JoinInv(j) ==
  /\ Active(j) =>
       /\ ~joined /\ page # "closed"
       /\ page = "mounted" => joining /\ room \in {j, None}
       /\ \A i \in Joins : Active(i) => i = j
  /\ stage[j] \in {"fetching", "connecting"} =>
       link[j] = "none" /\ (page = "mounted" => room = j)
  /\ stage[j] = "unused" => link[j] = "none"

(* A page that neither shows a session nor joins one holds nothing.         *)
PageInv ==
  /\ page = "mounted" /\ ~joined /\ ~joining => room = None /\ ~guard
  /\ joined => page = "mounted" /\ ~joining /\ room # None /\ parent = room
  /\ parent # None => joined

RoomInv == RoomType /\ PageInv /\ NoRoomLeaks /\ \A j \in Joins : JoinInv(j)

-----------------------------------------------------------------------------
LEMMA NoneIsNoJoin == None \notin Joins
BY JoinsAssumption DEF Joins

LEMMA BrowserInitInv == BrowserInit => RoomInv
BY DEF BrowserInit, RoomInv, RoomType, PageInv, NoRoomLeaks, JoinInv, Active, Awaiting

(* The button                                                               *)
LEMMA JoinStep ==
  ASSUME RoomInv, NEW j \in Joins, Join(j)
  PROVE  RoomInv'
<1>1. /\ page = "mounted" /\ page' = page /\ ~joined /\ ~joining /\ room = None /\ parent = None
      /\ guard' = TRUE /\ joining' = TRUE /\ room' = j
      /\ stage' = [stage EXCEPT ![j] = "fetching"]
      /\ UNCHANGED <<joined, parent, link>> /\ stage[j] = "unused"
  BY DEF Join, Enter, RoomInv, PageInv
<1>2. \A i \in Joins : ~Active(i) /\ link[i] # "up" /\ link[j] = "none"
  BY <1>1, NoneIsNoJoin DEF RoomInv, JoinInv, NoRoomLeaks
<1>3. RoomType'  BY <1>1 DEF RoomInv, RoomType, Awaiting
<1>4. PageInv'  BY <1>1 DEF PageInv
<1>5. NoRoomLeaks'  BY <1>1, <1>2 DEF NoRoomLeaks
<1>6. \A i \in Joins : JoinInv(i)'
  BY <1>1, <1>2 DEF RoomInv, RoomType, JoinInv, Active, Awaiting
<1>7. QED  BY <1>3, <1>4, <1>5, <1>6 DEF RoomInv

(* The end of a join that gives up: roomRef is let go.                      *)
LEMMA ThrowStep ==
  ASSUME RoomInv, NEW j \in Joins, Active(j), Throws(j)
  PROVE  RoomInv'
<1>1. /\ room' = None /\ parent' = None /\ joining' = FALSE /\ guard' = FALSE
      /\ stage' = [stage EXCEPT ![j] = "over"]
      /\ link' = [i \in Joins |-> IF i = room /\ link[i] = "up" THEN "leaving" ELSE link[i]]
      /\ page' = page /\ joined' = joined /\ ~joined
  BY NoneIsNoJoin DEF Throws, Finally, Enter, Disconnects, PublishRoomToParent, RoomInv, JoinInv,
                      RoomType
<1>2. RoomType'  BY <1>1 DEF RoomInv, RoomType
<1>3. PageInv'  BY <1>1 DEF PageInv
<1>4. NoRoomLeaks'  BY <1>1 DEF RoomInv, NoRoomLeaks
<1>5. ASSUME NEW i \in Joins PROVE JoinInv(i)'
  <2>1. ~Active(i)'  BY <1>1 DEF RoomInv, RoomType, JoinInv, Active, Awaiting
  <2>2. stage'[i] = "unused" => stage[i] = "unused"  BY <1>1 DEF RoomInv, RoomType
  <2>3. QED  BY <1>1, <2>1, <2>2 DEF RoomInv, JoinInv, Active, Awaiting
<1>6. QED  BY <1>2, <1>3, <1>4, <1>5 DEF RoomInv

LEMMA AwaitSteps ==
  ASSUME RoomInv, NEW j \in Joins,
         (\E ok \in BOOLEAN : TokenFetched(j, ok)) \/ Connected(j) \/ ConnectFails(j)
           \/ AudioStarted(j) \/ MicOn(j) \/ MicFails(j)
  PROVE  RoomInv'
<1>1. Active(j) /\ page' = page
  BY DEF TokenFetched, Connected, ConnectFails, AudioStarted, MicOn, MicFails, Throws,
         Active, Awaiting
<1>2. CASE Throws(j)  BY <1>1, <1>2, ThrowStep
<1>3. CASE ~StillMounted /\ Finally(j) /\ UNCHANGED <<room, joined, parent>>
           /\ (link' = link \/ link' = [link EXCEPT ![j] = "leaving"])
  <2>1. /\ joining' = FALSE /\ guard' \in BOOLEAN /\ page # "mounted"
        /\ stage' = [stage EXCEPT ![j] = "over"]
    BY <1>3 DEF Finally, Enter, StillMounted, RoomInv, RoomType
  <2>2. RoomType'  BY <1>1, <1>3, <2>1 DEF RoomInv, RoomType
  <2>3. PageInv'  BY <1>1, <1>3, <2>1 DEF RoomInv, PageInv
  <2>4. NoRoomLeaks'  BY <1>1, <1>3, <2>1 DEF RoomInv, RoomType, NoRoomLeaks
  <2>5. ASSUME NEW i \in Joins PROVE JoinInv(i)'
    <3>1. ~Active(i)'  BY <1>1, <2>1 DEF RoomInv, RoomType, JoinInv, Active, Awaiting
    <3>2. stage'[i] = "unused" => stage[i] = "unused" /\ link'[i] = link[i]
      BY <1>1, <1>3, <2>1 DEF RoomInv, RoomType, Active, Awaiting
    <3>3. QED  BY <1>3, <3>1, <3>2 DEF RoomInv, JoinInv, Active, Awaiting
  <2>6. QED  BY <2>2, <2>3, <2>4, <2>5 DEF RoomInv
<1>4. CASE /\ \/ stage[j] = "fetching" /\ Enter(j, "connecting") /\ link' = link
              \/ stage[j] = "connecting" /\ Enter(j, "starting") /\ page = "mounted"
                   /\ link' = [link EXCEPT ![j] = "up"]
              \/ stage[j] = "starting" /\ Enter(j, "asking") /\ link' = link
           /\ UNCHANGED refs
  <2>1. UNCHANGED <<page, room, guard, joined, joining, parent>>  BY <1>1, <1>4 DEF refs
  <2>2. RoomType'  BY <1>4, <2>1 DEF RoomInv, RoomType, Enter, Awaiting
  <2>3. PageInv'  BY <2>1 DEF RoomInv, PageInv
  <2>4. NoRoomLeaks'
    BY <1>4, <2>1 DEF RoomInv, RoomType, NoRoomLeaks, JoinInv
  <2>5. \A i \in Joins : Active(i)' => i = j
    BY <1>1, <1>4 DEF RoomInv, RoomType, JoinInv, Active, Awaiting, Enter
  <2>6. JoinInv(j)'
    BY <1>1, <1>4, <2>1, <2>5 DEF RoomInv, RoomType, JoinInv, Active, Awaiting, Enter
  <2>7. ASSUME NEW i \in Joins \ {j} PROVE JoinInv(i)'
    <3>1. stage'[i] = stage[i] /\ link'[i] = link[i] /\ ~Active(i)'
      BY <1>4, <2>5 DEF RoomInv, RoomType, Enter
    <3>2. QED  BY <2>1, <3>1 DEF RoomInv, JoinInv, Active, Awaiting
  <2>8. QED  BY <2>2, <2>3, <2>4, <2>6, <2>7 DEF RoomInv
<1>5. CASE MicOn(j)
  <2>1. page = "mounted" /\ room = j
    BY <1>5 DEF MicOn, RoomInv, NoRoomLeaks
  <2>2. /\ joined' = TRUE /\ parent' = j /\ joining' = FALSE /\ guard' \in BOOLEAN
        /\ UNCHANGED <<page, room, link>> /\ stage' = [stage EXCEPT ![j] = "over"]
    BY <1>5 DEF MicOn, PublishRoomToParent, Finally, Enter, RoomInv, RoomType
  <2>3. RoomType' /\ PageInv' /\ NoRoomLeaks'
    BY <2>1, <2>2, NoneIsNoJoin DEF RoomInv, RoomType, PageInv, NoRoomLeaks
  <2>4. ASSUME NEW i \in Joins PROVE JoinInv(i)'
    <3>1. ~Active(i)'  BY <1>1, <2>2 DEF RoomInv, RoomType, JoinInv, Active, Awaiting
    <3>2. stage'[i] = "unused" => stage[i] = "unused"  BY <2>2 DEF RoomInv, RoomType
    <3>3. QED  BY <2>2, <3>1, <3>2 DEF RoomInv, JoinInv, Active, Awaiting
  <2>5. QED  BY <2>3, <2>4 DEF RoomInv
<1>6. QED
  BY <1>1, <1>2, <1>3, <1>4, <1>5
  DEF TokenFetched, Connected, ConnectFails, AudioStarted, MicFails, StillMounted

(* The room's Disconnected event                                            *)
LEMMA DropStep ==
  ASSUME RoomInv, NEW j \in Joins, Drops(j)
  PROVE  RoomInv'
<1>1. /\ link' = [link EXCEPT ![j] = "down"] /\ link[j] \in {"up", "leaving"}
      /\ UNCHANGED <<page, stage, joining>>
      /\ \/ /\ page = "mounted" /\ room = j
            /\ room' = None /\ parent' = None /\ joined' = FALSE /\ guard' = FALSE
         \/ /\ ~(page = "mounted" /\ room = j)
            /\ UNCHANGED <<room, parent, joined, guard>>
  BY DEF Drops, OnDisconnected, PublishRoomToParent, ResetJoinedState, refs
<1>2. RoomType'  BY <1>1 DEF RoomInv, RoomType
<1>3. PageInv'  BY <1>1 DEF RoomInv, PageInv
<1>4. NoRoomLeaks'  BY <1>1 DEF RoomInv, RoomType, NoRoomLeaks
<1>5. ASSUME NEW i \in Joins PROVE JoinInv(i)'
  <2>1. stage[j] \notin {"fetching", "connecting", "unused"}
    BY <1>1 DEF RoomInv, JoinInv
  <2>2. CASE i = j
    BY <1>1, <2>1, <2>2 DEF RoomInv, RoomType, JoinInv, Active
  <2>3. CASE i # j
    <3>1. stage'[i] = stage[i] /\ link'[i] = link[i]  BY <1>1, <2>3 DEF RoomInv, RoomType
    <3>2. stage[i] \in {"fetching", "connecting"} /\ page = "mounted" => room # j
      BY <2>3 DEF RoomInv, JoinInv
    <3>3. QED  BY <1>1, <3>1, <3>2 DEF RoomInv, JoinInv, Active, Awaiting
  <2>4. QED  BY <2>2, <2>3
<1>6. QED  BY <1>2, <1>3, <1>4, <1>5 DEF RoomInv

(* leave() and the unmount: the room is disconnected and let go.            *)
LEMMA LetGoStep ==
  ASSUME RoomInv, Leave \/ Unmount
  PROVE  RoomInv'
<1>1. /\ page = "mounted" /\ room' = None /\ parent' = None /\ joined' = FALSE
      /\ link' = [i \in Joins |-> IF i = room /\ link[i] = "up" THEN "leaving" ELSE link[i]]
      /\ UNCHANGED <<stage, joining>>
      /\ \/ joined /\ guard' = FALSE /\ page' = page
         \/ guard' = guard /\ page' = "unmounted"
  BY DEF Leave, Unmount, Disconnects, PublishRoomToParent, ResetJoinedState
<1>2. RoomType'  BY <1>1 DEF RoomInv, RoomType
<1>3. PageInv'  BY <1>1 DEF PageInv
<1>4. NoRoomLeaks'  BY <1>1 DEF RoomInv, NoRoomLeaks
<1>5. ASSUME NEW i \in Joins PROVE JoinInv(i)'
  BY <1>1 DEF RoomInv, JoinInv, Active, Awaiting
<1>6. QED  BY <1>2, <1>3, <1>4, <1>5 DEF RoomInv

(* The tab closes.                                                          *)
LEMMA UnloadStep ==
  ASSUME RoomInv, Unload
  PROVE  RoomInv'
<1>1. /\ page' = "closed" /\ room' = None /\ parent' = None /\ joined' = FALSE
      /\ stage' = [j \in Joins |-> "over"]
      /\ link' = [j \in Joins |-> IF link[j] = "none" THEN "none" ELSE "down"]
      /\ UNCHANGED <<guard, joining>>
  BY DEF Unload
<1>2. RoomType'  BY <1>1 DEF RoomInv, RoomType
<1>3. PageInv' /\ NoRoomLeaks'  BY <1>1 DEF PageInv, NoRoomLeaks
<1>4. \A i \in Joins : JoinInv(i)'  BY <1>1 DEF JoinInv, Active, Awaiting
<1>5. QED  BY <1>2, <1>3, <1>4 DEF RoomInv

LEMMA IdleStep ==
  ASSUME RoomInv, UNCHANGED <<page, refs, stage, link>>
  PROVE  RoomInv'
BY DEF refs, RoomInv, RoomType, PageInv, NoRoomLeaks, JoinInv, Active

-----------------------------------------------------------------------------
LEMMA RoomNextInv == RoomInv /\ [Next]_vars => RoomInv'
<1> SUFFICES ASSUME RoomInv, [Next]_vars PROVE RoomInv'  OBVIOUS
<1>1. CASE BrowserStep
  <2>1. ASSUME NEW j \in Joins,
               Join(j) \/ JoinSteps(j) \/ MicOn(j) \/ MicFails(j) \/ Drops(j)
        PROVE  RoomInv'
    BY <2>1, JoinStep, AwaitSteps, DropStep DEF JoinSteps, Fetches
  <2>2. CASE Leave \/ Unmount  BY <2>2, LetGoStep
  <2>3. CASE AuthChanges  BY <2>3, IdleStep DEF AuthChanges
  <2>4. QED  BY <1>1, <2>1, <2>2, <2>3 DEF BrowserStep
<1>2. CASE TabCloses  BY <1>2, UnloadStep DEF TabCloses
<1>3. CASE UNCHANGED browser  BY <1>3, IdleStep DEF browser
<1>4. QED
  BY <1>1, <1>2, <1>3
  DEF Next, Alone, EndArrives, WorkerDispatched, WorkerStep, WorkerHears, RoomCloses,
      AgentDrops, vars

(* The refs, the component's state and the SDK's connections agree, however *)
(* join(), leave(), Disconnected and the unmount interleave.                *)
THEOREM RoomInvariant == Spec => []RoomInv
<1>1. Init => RoomInv  BY BrowserInitInv DEF Init
<1>2. QED  BY <1>1, RoomNextInv, PTL DEF Spec

(* The Join button that a candidate sees works (session-room.tsx:271-274,   *)
(* :321-326).                                                               *)
THEOREM ButtonNeverDead == Spec => []JoinButtonWorks
<1>1. RoomInv => JoinButtonWorks  BY DEF RoomInv, PageInv, JoinButtonWorks
<1>2. QED  BY <1>1, RoomInvariant, PTL

(* No room stays connected that the component does not hold                 *)
(* (session-room.tsx:285-293, :389-391).                                    *)
THEOREM NoOrphanRoom == Spec => []NoRoomLeaks
<1>1. RoomInv => NoRoomLeaks  BY DEF RoomInv
<1>2. QED  BY <1>1, RoomInvariant, PTL

(* The canvas has the room of the session shown, and no other               *)
(* (session-shell.tsx:14-19).                                               *)
THEOREM CanvasFollows == Spec => []CanvasHasTheRoom
<1>1. RoomInv => CanvasHasTheRoom  BY DEF RoomInv, PageInv, CanvasHasTheRoom
<1>2. QED  BY <1>1, RoomInvariant, PTL
=============================================================================
