------------------------------ MODULE AdminClient ------------------------------
(***************************************************************************)
(* The Admin Network of a running OpenTTD server and the client of it      *)
(* (openttd/client.py, openttd/protocol.py): one connection at a time, on  *)
(* which a client asks one thing after the other.                          *)
(*                                                                         *)
(* A name is of a subject: "server", which the client learns only when it  *)
(* is welcomed, or "company".  A packet is [type, value].  Cash, loans,    *)
(* vehicles and stations travel with the name and the date and are         *)
(* abstracted; so is whatever makes a packet unreadable: reading it        *)
(* raises, and any await may raise (see Raises of OpenTTDAdapter).         *)
(***************************************************************************)
EXTENDS Naturals, Sequences

CONSTANTS
    None,
    Names,
    FirstName,      \* of the server and of the company, at first
    MaxEvents       \* bound on what happens to the game besides the writes

ASSUME AdminAssumption ==
    /\ FirstName \in Names /\ None \notin Names
    /\ MaxEvents \in Nat

VARIABLES
    game,       \* [up, number, events, date, names, newest]
    carried,    \* history: the names the game has had since the last write was sent
    wire,       \* the connection: [alive, asked, sent, heard], or None
    late,       \* names written to connections that were closed before they were handled
    client      \* what the client was welcomed with: [number, server], or None

adminVars == <<game, carried, wire, late, client>>

Subjects == {"server", "company"}

Welcome == [number : 1..(MaxEvents + 1), server : Names]

(* What the client asks: to join, the polls of one state, one write. *)
Polls == <<"info", "date", "economy", "stats">>

Request(type, name) == [type |-> type, name |-> name]

PacketTypes == {"protocol", "welcome", "newgame", "shutdown", "rcon", "rcon_end"}
               \cup {Polls[i] : i \in DOMAIN Polls}

Packet == [type : PacketTypes, value : {None} \cup Names \cup 0..MaxEvents \cup Welcome]

Plain(type) == [type |-> type, value |-> None]

Greeting(g) == [ type |-> "welcome",
                 value |-> [number |-> g.number, server |-> g.names["server"]] ]

InitAdmin ==
    /\ game = [ up |-> TRUE, number |-> 1, events |-> 0, date |-> 0,
                names |-> [s \in Subjects |-> FirstName], newest |-> FALSE ]
    /\ carried = {}
    /\ wire = None
    /\ late = {}
    /\ client = None

--------------------------------------------------------------------------------
(* The server. *)

Carry(g) == {<<s, g.names[s]>> : s \in Subjects}

(* The game becomes g, and has had g's names. *)
Becomes(g) == game' = g /\ carried' = carried \cup Carry(g)

Deliver(packets) == IF wire = None THEN None ELSE [wire EXCEPT !.sent = @ \o packets]

(* Something happens that leaves the game g. *)
Event(g) ==
    /\ game.events < MaxEvents
    /\ Becomes([g EXCEPT !.events = game.events + 1])

(* Somebody gives a name, a day passes, or another program asks the         *)
(* GameScript for a snapshot, so that this client's is no longer its newest. *)
Play ==
    /\ game.up
    /\ \/ \E s \in Subjects : \E n \in Names \ {game.names[s]} :
             Event([game EXCEPT !.names[s] = n])
       \/ Event([game EXCEPT !.date = @ + 1])
       \/ game.newest /\ Event([game EXCEPT !.newest = FALSE])
    /\ UNCHANGED <<wire, late, client>>

(* A new game, or a save from before, on the connections there are. *)
Replace ==
    /\ game.up
    /\ \E number \in {game.number, game.number + 1}, n \in Names :
          LET g == [game EXCEPT !.number = number, !.date = 0,
                                !.names["company"] = n, !.newest = FALSE]
          IN Event(g) /\ wire' = Deliver(<<Plain("newgame"), Greeting(g)>>)
    /\ UNCHANGED <<late, client>>

(* The server goes down, saying so or not, and comes up with a game and the *)
(* name of its configuration file.                                           *)
Down ==
    /\ game.up
    /\ Event([game EXCEPT !.up = FALSE])
    /\ \E last \in {<<>>, <<Plain("shutdown")>>} :
          wire' = IF wire = None THEN None
                  ELSE [wire EXCEPT !.alive = FALSE, !.asked = None, !.sent = @ \o last]
    /\ late' = {}
    /\ UNCHANGED client

Up ==
    /\ ~game.up
    /\ \E number \in {game.number, game.number + 1}, names \in [Subjects -> Names] :
          Event([ game EXCEPT !.up = TRUE, !.number = number, !.date = 0,
                              !.names = names, !.newest = FALSE ])
    /\ UNCHANGED <<wire, late, client>>

(* What was written before a connection was closed may still be carried out. *)
LateWrite ==
    /\ game.up
    /\ \E n \in late :
          /\ Becomes([game EXCEPT !.names["server"] = n])
          /\ late' = late \ {n}
    /\ UNCHANGED <<wire, client>>

(* The server may refuse what the console is told: it prints why and ends. *)
Serve ==
    /\ wire # None /\ wire.alive /\ wire.asked # None
    /\ LET q == wire.asked
           Says(packets) == wire' = [wire EXCEPT !.asked = None, !.sent = @ \o packets]
       IN \/ /\ q.type = "join"
             /\ Says(<<Plain("protocol"), Greeting(game)>>)
             /\ UNCHANGED <<game, carried>>
          \/ /\ q.type \in {Polls[i] : i \in DOMAIN Polls}
             /\ Says(<<[ type |-> q.type,
                         value |-> CASE q.type = "info" -> game.names["company"]
                                     [] q.type = "date" -> game.date
                                     [] OTHER -> None ]>>)
             /\ UNCHANGED <<game, carried>>
          \/ /\ q.type = "rcon"
             /\ Says(<<Plain("rcon"), Plain("rcon_end")>>)
             /\ \/ Becomes([game EXCEPT !.names["server"] = q.name])
                \/ UNCHANGED <<game, carried>>
    /\ UNCHANGED <<late, client>>

--------------------------------------------------------------------------------
(* The client.  These say what becomes of the connection and of what the   *)
(* client was welcomed with; the adapter's actions say when.               *)

Opened == [alive |-> TRUE, asked |-> Request("join", None), sent |-> <<>>, heard |-> FALSE]

Connects ==
    /\ wire = None /\ game.up
    /\ wire' = Opened
    /\ UNCHANGED <<game, carried, late, client>>

(* QUIT follows what was written before. *)
Unhandled ==
    IF wire = None \/ ~wire.alive THEN {} ELSE {n \in Names : wire.asked = Request("rcon", n)}

Closes ==
    /\ wire' = None
    /\ client' = None
    /\ late' = late \cup Unhandled
    /\ UNCHANGED <<game, carried>>

Asks(q) ==
    /\ wire' = [wire EXCEPT !.asked = q]
    /\ UNCHANGED <<late, client>>

(* _receive_matching: packets of other types are dropped; a shutdown raises. *)
Fatal == {"shutdown"}

Arrived == wire # None /\ wire.sent # <<>>

Reads(type) ==
    /\ Arrived /\ Head(wire.sent).type = type
    /\ wire' = [wire EXCEPT !.sent = Tail(@)]

Drops(type) ==
    /\ Arrived /\ Head(wire.sent).type \notin {type} \cup Fatal
    /\ wire' = [wire EXCEPT !.sent = Tail(@)]
    /\ UNCHANGED <<game, carried, late, client>>

================================================================================
