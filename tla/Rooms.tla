---------------------------------- MODULE Rooms ----------------------------------
(***************************************************************************)
(* The event gateway: sockets, the rooms they join, the limit on what they *)
(* send, and the chat messages that are stored and pushed to the rooms.    *)
(*                                                                         *)
(* The gateway serves one namespace, so the checks of handleConnection     *)
(* that are meant for two others never run.  One chat session and one      *)
(* order address stand for all; the messages are the user's.  A client     *)
(* that reconnects starts with no room.  The process may stop: the sockets *)
(* close and the messages stay.                                            *)
(***************************************************************************)
EXTENDS Slots

CONSTANTS
  Sockets,
  Messages,
  POINTS       \* events a socket may send in a window (30 in 10 seconds)

VARIABLES
  connected,
  adminSockets,
  rooms,       \* rooms[x]: the sockets in room x
  used,        \* used[s]: points taken in the window, up to POINTS + 1
  limited,     \* sockets that got the rateLimit event since they connected
  stored,      \* chat messages in the table
  unread,      \* those that are not marked as read
  got,         \* got[s]: messages loaded by or pushed to s since it connected
  ready        \* sockets that were in a room of the chat when they loaded it

socketVars == <<connected, adminSockets, rooms, used, limited>>
chatVars == <<stored, unread, got, ready>>
vars == <<socketVars, chatVars, slotVars>>

RoomNames == {"admin-room", "order", "chat", "admin-chat-room"}
NoRooms == [x \in RoomNames |-> {}]

Init ==
  /\ connected = {} /\ adminSockets = {} /\ rooms = NoRooms
  /\ used = [s \in Sockets |-> 0] /\ limited = {}
  /\ stored = {} /\ unread = {}
  /\ got = [s \in Sockets |-> {}] /\ ready = {}
  /\ AllIdle

Chatting == rooms["chat"] \cup rooms["admin-chat-room"]

-----------------------------------------------------------------------------
(* Sockets *)

HandleConnection(s) ==
  /\ Open
  /\ s \notin connected
  /\ connected' = connected \cup {s}
  /\ used' = [used EXCEPT ![s] = 0]
  /\ UNCHANGED <<adminSockets, rooms, limited, chatVars, slotVars>>

HandleDisconnect(s) ==
  /\ Open
  /\ s \in connected
  /\ connected' = connected \ {s}
  /\ rooms' = [x \in RoomNames |-> rooms[x] \ {s}]
  /\ limited' = limited \ {s}
  /\ got' = [got EXCEPT ![s] = {}]
  /\ ready' = ready \ {s}
  /\ adminSockets' = adminSockets \ {s}
  /\ UNCHANGED <<used, stored, unread, slotVars>>

(* checkRateLimit, the start of the four events: what: the socket; room *)
CheckRateLimit(r, s, room) ==
  /\ Admit(r)
  /\ s \in connected
  /\ IF used[s] < POINTS
     THEN /\ used' = [used EXCEPT ![s] = @ + 1]
          /\ Go(r, "joining", [what |-> s, room |-> room])
          /\ UNCHANGED limited
     ELSE /\ limited' = limited \cup {s}
          /\ Leave(r)
          /\ UNCHANGED used
  /\ UNCHANGED <<connected, adminSockets, rooms, chatVars>>

(* socket.join does nothing on a socket that is closed. *)
Enter(r, room) ==
  LET s == job[r].what
  IN  /\ At(r, "joining")
      /\ job[r].room = room
      /\ rooms' = IF s \in connected THEN [rooms EXCEPT ![room] = @ \cup {s}] ELSE rooms
      /\ Leave(r)
      /\ UNCHANGED <<connected, used, limited, chatVars>>

JoinAdmin(r) ==
  /\ Enter(r, "admin-room")
  /\ adminSockets' = adminSockets \cup {job[r].what}

JoinOrderTracking(r) == Enter(r, "order") /\ UNCHANGED adminSockets
JoinChat(r) == Enter(r, "chat") /\ UNCHANGED adminSockets
JoinAdminChat(r) == Enter(r, "admin-chat-room") /\ UNCHANGED adminSockets

(* The window of the limiter is over. *)
Refill(s) ==
  /\ Open
  /\ used[s] > 0
  /\ used' = [used EXCEPT ![s] = 0]
  /\ UNCHANGED <<connected, adminSockets, rooms, limited, chatVars, slotVars>>

-----------------------------------------------------------------------------
(* The chat *)

SendMessage(r, m) ==
  /\ Admit(r)
  /\ m \notin stored
  /\ stored' = stored \cup {m}
  /\ unread' = unread \cup {m}
  /\ Go(r, "pushing", m)
  /\ UNCHANGED <<socketVars, got, ready>>

Deliver(m, ss) ==
  got' = [s \in Sockets |-> IF s \in ss THEN got[s] \cup {m} ELSE got[s]]

(* Mutant: the room of the administrators is left out. *)
PushToSession(r) ==
  /\ At(r, "pushing")
  /\ Deliver(job[r], rooms["chat"])
  /\ Leave(r)
  /\ UNCHANGED <<socketVars, stored, unread, ready>>

(* notifyNewChatMessage *)
Push(r) ==
  /\ At(r, "pushing")
  /\ Deliver(job[r], Chatting)
  /\ Leave(r)
  /\ UNCHANGED <<socketVars, stored, unread, ready>>

(* A client reads the session, over HTTP and beside its socket. *)
GetMessages(s) ==
  /\ Open
  /\ s \in connected
  /\ got' = [got EXCEPT ![s] = @ \cup stored]
  /\ ready' = IF s \in Chatting THEN ready \cup {s} ELSE ready
  /\ UNCHANGED <<socketVars, stored, unread, slotVars>>

(* Asked for by a client that follows the session. *)
MarkRead(s) ==
  /\ Open
  /\ s \in ready
  /\ unread' = {}
  /\ UNCHANGED <<socketVars, stored, got, ready, slotVars>>

Restart ==
  /\ MayFail
  /\ connected' = {} /\ adminSockets' = {} /\ rooms' = NoRooms
  /\ used' = [s \in Sockets |-> 0] /\ limited' = {}
  /\ got' = [s \in Sockets |-> {}] /\ ready' = {}
  /\ pc' = [r \in Requests |-> "idle"]
  /\ job' = [r \in Requests |-> None]
  /\ UNCHANGED <<stored, unread>>

Handlers(r) ==
  \/ \E s \in Sockets, room \in RoomNames : CheckRateLimit(r, s, room)
  \/ JoinAdmin(r) \/ JoinOrderTracking(r) \/ JoinChat(r) \/ JoinAdminChat(r)
  \/ \E m \in Messages : SendMessage(r, m)
  \/ Push(r)

Next ==
  \/ \E r \in Requests : Handlers(r)
  \/ \E s \in Sockets : \/ HandleConnection(s) \/ HandleDisconnect(s) \/ Refill(s)
                        \/ GetMessages(s) \/ MarkRead(s)
  \/ Restart

Spec == Init /\ [][Next]_vars

-----------------------------------------------------------------------------
(* Properties *)

TypeOK ==
  /\ connected \in SUBSET Sockets /\ adminSockets \in SUBSET Sockets
  /\ rooms \in [RoomNames -> SUBSET connected]
  /\ used \in [Sockets -> 0..POINTS] /\ limited \in SUBSET connected
  /\ stored \in SUBSET Messages /\ unread \in SUBSET stored
  /\ got \in [Sockets -> SUBSET stored] /\ ready \in SUBSET connected
  /\ pc \in [Requests -> {"idle", "joining", "pushing"}]

(* A client that joins the chat before it loads the session misses nothing:
   a message is stored before it is pushed, so each one was loaded, or was
   pushed to the room, or is still to be pushed by the handler that stored it.
   A restart between the two closes the socket that would have missed it. *)
NothingIsMissed ==
  \A s \in ready, m \in stored :
    m \in got[s] \/ \E r \in Requests : At(r, "pushing") /\ job[r] = m

(* docs/rate-limiting.md: a connection that sends too much receives an event
   and is disconnected. *)
OverLimitIsClosed == Quiet => limited = {}
=============================================================================
