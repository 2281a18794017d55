------------------------------ MODULE Gateway ------------------------------
(***************************************************************************)
(* The VXI-11 build of the gateway: the main loop of main.cpp, which calls *)
(* in turn the port mapper (rpc_bind_server.cpp), the VXI-11 server        *)
(* (vxi_server.cpp), the web server and the rest of the user interface,    *)
(* all on one thread; the peers on the network; and the instruments.       *)
(*                                                                         *)
(* One step of the loop is one handler.  Between two of them, and between  *)
(* the execution of a request and the reply, the peers and the instruments *)
(* do what they like.                                                      *)
(***************************************************************************)
EXTENDS WebInteractive, Sequences

CONSTANTS
    NSlots,        \* MAX_VXI_CLIENTS
    Requests,      \* the VXI-11 requests the clients make
    WebRequests,   \* the web requests
    BindRequests,  \* what is asked of the port mapper
    StoredEoi,     \* cfg.eoi and cfg.eos as the EEPROM holds them
    StoredEos,
    Disturbances,  \* which of AllDisturbances happen
    MaxPipeline,   \* bound: requests of one client not yet read
    MaxBacklog     \* bound: connections not yet accepted

VARIABLES
    bus,        \* the GPIB bus: gpibBus and the instruments
    conn,       \* the sockets behind clients[]
    inbox,      \* per socket, the requests that have arrived
    addresses,  \* addresses[]
    buffer,     \* the request in vxi_read_buffer, as far as it may be looked at again
    pc, turn,   \* where the main loop is; the slot it serves
    reply,      \* the reply about to be sent to slot turn
    backlog,    \* connections waiting for accept()
    bindReq, bindReply,  \* per transport, the port mapper's pending request; the reply just sent
    webReq,     \* the web request pending, if any
    link        \* history: the address of the link each client has created

vars == <<bus, conn, inbox, addresses, buffer, pc, turn, reply, backlog,
          bindReq, bindReply, webReq, link>>

Slots == 1..NSlots
Operations == {"create_link", "destroy_link", "read", "write", "readstb",
               "devclear", "other_program", "other_procedure"}
RequestTypes == [op : Operations, nr : Int, len : 0..1024, blank : 0..1024, end : BOOLEAN]
WebRequestTypes == [op : {"fnd", "send", "read", "query", "page"}, addr : Int, len : Nat]
BindRequestTypes == {"GET_PORT", "other_program", "other_procedure"}
Transports == {"udp", "tcp"}
AllDisturbances == {"reset", "cut", "power", "ip_change", "reboot"}

ASSUME NSlotsAssumption == NSlots \in Nat \ {0}
ASSUME RequestsAssumption == Requests \subseteq {r \in RequestTypes : r.blank <= r.len}
ASSUME WebRequestsAssumption == WebRequests \subseteq WebRequestTypes
ASSUME BindRequestsAssumption == BindRequests \subseteq BindRequestTypes
ASSUME StoredAssumption == StoredEoi \in BOOLEAN /\ StoredEos \in 0..3
ASSUME DisturbancesAssumption == Disturbances \subseteq AllDisturbances
ASSUME BoundsAssumption == MaxPipeline \in Nat /\ MaxBacklog \in Nat

(* What vxi_read_buffer holds before the first request; the length of a    *)
(* request whose rest does not follow.                                     *)
Zeros == [op |-> "other_program", nr |-> 0, len |-> 0, blank |-> 0, end |-> FALSE]
Part == [Zeros EXCEPT !.op = "part"]
Arrivals == Requests \cup {Part}
Buffered == Requests \cup {Zeros}

NoLink == 255
NoWebRequest == [op |-> "none", addr |-> 0, len |-> 0]
VXI11_PORT == 9010
NoBindReply == [rc |-> "none", port |-> 0]

Errors == {"NO_ERROR", "IO_TIMEOUT", "NOT_ACCESSIBLE", "PARAMETER_ERROR",
           "PROC_UNAVAIL", "PROG_UNAVAIL"}

(* size is what the reply says was taken; more, that the message goes on   *)
(* (a read stopped by its limit, a write without the END flag).            *)
Reply(op, error, size, more, t) ==
    [op |-> op, error |-> error, size |-> size, more |-> more, data |-> t]
NoReply == Reply("none", "NO_ERROR", 0, FALSE, NoTransfer)
Replies == [op : Operations \cup {"none"}, error : Errors, size : 0..1024,
            more : BOOLEAN, data : Transfers]
BindReplies == [rc : {"none", "SUCCESS", "PROG_UNAVAIL", "PROC_UNAVAIL", "GARBAGE_ARGS"},
                port : {0, VXI11_PORT}]

TypeOK ==
    /\ bus \in Buses
    /\ conn \in [Slots -> {"free", "open", "closing", "reset"}]
    /\ inbox \in [Slots -> Seq(Arrivals)]
    /\ addresses \in [Slots -> Addresses]
    /\ buffer \in Buffered
    /\ pc \in {"bind", "reap", "accept", "serve", "answer", "web", "ui"}
    /\ turn \in Slots
    /\ reply \in Replies
    /\ backlog \in 0..MaxBacklog
    /\ bindReq \in [Transports -> BindRequests \cup {"none"}]
    /\ bindReply \in BindReplies
    /\ webReq \in WebRequests \cup {NoWebRequest}
    /\ link \in [Slots -> Addresses \cup {NoLink}]

-----------------------------------------------------------------------------
(* setup()                                                                 *)

Init ==
    /\ \E on \in SUBSET Instruments :
          /\ "power" \in Disturbances \/ on = Instruments
          /\ bus = BootBus(on, StoredEoi, StoredEos)
    /\ conn = [s \in Slots |-> "free"]
    /\ inbox = [s \in Slots |-> <<>>]
    /\ addresses = [s \in Slots |-> 0]
    /\ buffer = Zeros
    /\ pc = "bind" /\ turn = 1 /\ reply = NoReply
    /\ backlog = 0
    /\ bindReq = [t \in Transports |-> "none"] /\ bindReply = NoBindReply
    /\ webReq = NoWebRequest
    /\ link = [s \in Slots |-> NoLink]

-----------------------------------------------------------------------------
(* Slots.                                                                  *)

Free(s) == conn[s] = "free"
have_free_connections == \E s \in Slots : Free(s)
FirstFree(s) == Free(s) /\ \A q \in 1..(s - 1) : ~Free(q)

(* clients[s].stop() for the slots in S: what had arrived is lost; the     *)
(* entry of addresses[] stays.                                             *)
Stop(S) ==
    /\ conn' = [s \in Slots |-> IF s \in S THEN "free" ELSE conn[s]]
    /\ inbox' = [s \in Slots |-> IF s \in S THEN <<>> ELSE inbox[s]]
    /\ link' = [s \in Slots |-> IF s \in S THEN NoLink ELSE link[s]]

(* EthernetClient::connected(): a peer that has closed still counts as     *)
(* connected while bytes it sent are unread.                               *)
Connected(s) == conn[s] = "open" \/ (conn[s] = "closing" /\ inbox[s] # <<>>)

-----------------------------------------------------------------------------
(* rpc_bind_server.loop()                                                  *)

allocate == IF have_free_connections THEN VXI11_PORT ELSE 0

process_request(r) ==
    CASE r = "other_program"   -> [rc |-> "PROG_UNAVAIL", port |-> 0]
      [] r = "other_procedure" -> [rc |-> "PROC_UNAVAIL", port |-> 0]
      [] OTHER -> [rc |-> IF allocate = 0 THEN "GARBAGE_ARGS" ELSE "SUCCESS",
                   port |-> allocate]

(* A variant that looks at TCP first.                                      *)
NextBindTcpFirst == IF bindReq["tcp"] # "none" THEN "tcp" ELSE "udp"

(* A request on UDP goes first; TCP is looked at only when there is none.  *)
NextBind == IF bindReq["udp"] # "none" THEN "udp" ELSE "tcp"

(* A variant that does not wait for a free connection.                     *)
BindAlways ==
    /\ pc = "bind"
    /\ pc' = "reap"
    /\ bindReply' = IF bindReq[NextBind] = "none" THEN NoBindReply
                    ELSE process_request(bindReq[NextBind])
    /\ bindReq' = [bindReq EXCEPT ![NextBind] = "none"]
    /\ UNCHANGED <<bus, conn, inbox, addresses, buffer, turn, reply, backlog, webReq, link>>

Bind ==
    /\ pc = "bind"
    /\ pc' = "reap"
    /\ IF have_free_connections /\ bindReq[NextBind] # "none"
       THEN /\ bindReply' = process_request(bindReq[NextBind])
            /\ bindReq' = [bindReq EXCEPT ![NextBind] = "none"]
       ELSE bindReply' = NoBindReply /\ UNCHANGED bindReq
    /\ UNCHANGED <<bus, conn, inbox, addresses, buffer, turn, reply, backlog, webReq, link>>

-----------------------------------------------------------------------------
(* vxi_server.loop(): close the connections that are gone, accept one,     *)
(* serve each slot once.                                                   *)

Reap ==
    /\ pc = "reap"
    /\ pc' = "accept"
    /\ Stop({s \in Slots : ~Free(s) /\ ~Connected(s)})
    /\ bindReply' = NoBindReply
    /\ UNCHANGED <<bus, addresses, buffer, turn, reply, backlog, bindReq, webReq>>

(* The new client takes slot s.  addresses[] keeps what the slot's         *)
(* previous client has put there.                                          *)
AcceptInto(s) ==
    /\ conn' = [conn EXCEPT ![s] = "open"]
    /\ inbox' = [inbox EXCEPT ![s] = <<>>]
    /\ link' = [link EXCEPT ![s] = NoLink]
    /\ backlog' = backlog - 1

(* A variant that takes the first slot when none is free.                  *)
AcceptAlways ==
    /\ pc = "accept"
    /\ pc' = "serve" /\ turn' = 1
    /\ \/ \E s \in Slots :
             /\ backlog > 0
             /\ FirstFree(s) \/ (~have_free_connections /\ s = 1)
             /\ AcceptInto(s)
       \/ backlog = 0 /\ UNCHANGED <<conn, inbox, link, backlog>>
    /\ UNCHANGED <<bus, addresses, buffer, reply, bindReq, bindReply, webReq>>

(* Only when a slot is free is accept() called.                            *)
Accept ==
    /\ pc = "accept"
    /\ pc' = "serve" /\ turn' = 1
    /\ \/ \E s \in Slots : backlog > 0 /\ FirstFree(s) /\ AcceptInto(s)
       \/ /\ ~have_free_connections \/ backlog = 0
          /\ UNCHANGED <<conn, inbox, link, backlog>>
    /\ UNCHANGED <<bus, addresses, buffer, reply, bindReq, bindReply, webReq>>

(* A variant in which serving a request ends the pass over the slots.      *)
AdvanceBreak ==
    /\ turn' = IF pc = "serve" /\ turn < NSlots THEN turn + 1 ELSE 1
    /\ pc' = IF pc = "serve" /\ turn < NSlots THEN "serve" ELSE "web"

(* On to the next slot, and after the last one out of the server.          *)
Advance ==
    /\ turn' = IF turn < NSlots THEN turn + 1 ELSE 1
    /\ pc' = IF turn < NSlots THEN "serve" ELSE "web"

Skip ==
    /\ pc = "serve"
    /\ Free(turn) \/ inbox[turn] = <<>>
    /\ Advance
    /\ UNCHANGED <<bus, conn, inbox, addresses, buffer, reply, backlog, bindReq, bindReply, webReq, link>>

(* What handle_packet executes.  A body that does not come within a second *)
(* leaves the previous request in the buffer, of whichever client it was.  *)
request == IF Head(inbox[turn]) = Part THEN buffer ELSE Head(inbox[turn])

(* get_vxi_packet has found a request of the given kind for slot turn.     *)
Takes(op) ==
    /\ pc = "serve"
    /\ ~Free(turn)
    /\ inbox[turn] # <<>>
    /\ request.op = op
    /\ inbox' = [inbox EXCEPT ![turn] = Tail(@)]
    /\ buffer' = IF "cut" \in Disturbances THEN request ELSE buffer
    /\ pc' = "answer"
    /\ UNCHANGED <<conn, turn, backlog, bindReq, bindReply, webReq>>

(* A variant without the range check.                                      *)
create_linkAnyAddress ==
    /\ Takes("create_link")
    /\ addresses' = [addresses EXCEPT ![turn] = request.nr]
    /\ link' = [link EXCEPT ![turn] = request.nr]
    /\ reply' = Reply("create_link", "NO_ERROR", 0, FALSE, NoTransfer)
    /\ UNCHANGED bus

create_link ==
    /\ Takes("create_link")
    /\ LET nr == request.nr IN
       IF nr \in Addresses
       THEN /\ addresses' = [addresses EXCEPT ![turn] = nr]
            /\ link' = [link EXCEPT ![turn] = nr]
            /\ reply' = Reply("create_link", "NO_ERROR", 0, FALSE, NoTransfer)
       ELSE /\ reply' = Reply("create_link", "PARAMETER_ERROR", 0, FALSE, NoTransfer)
            /\ UNCHANGED <<addresses, link>>
    /\ UNCHANGED bus

destroy_link ==
    /\ Takes("destroy_link")
    /\ reply' = Reply("destroy_link", "NO_ERROR", 0, FALSE, NoTransfer)
    /\ UNCHANGED <<bus, addresses, link>>

ErrorOf(rv) == CASE rv = "SRS_TIMEOUT" -> "IO_TIMEOUT"
                 [] rv = "SRS_ERROR"   -> "NOT_ACCESSIBLE"
                 [] OTHER              -> "NO_ERROR"

(* The link id of the request is not looked at: the address is the slot's. *)
read ==
    /\ Takes("read")
    /\ \E o \in ScpiRead(bus, addresses[turn]) :
          /\ bus' = o.bus
          /\ reply' = Reply("read", ErrorOf(o.rv), 0, o.rv = "SRS_MAXSIZE", o.data)
    /\ UNCHANGED <<addresses, link>>

(* White space at the end of a complete message is not sent; the reply's   *)
(* size counts it.                                                         *)
write ==
    /\ Takes("write")
    /\ LET r == request
           wlen == IF r.end THEN r.len - r.blank ELSE r.len
       IN  \E o \in ScpiWrite(bus, addresses[turn], wlen, r.end) :
              /\ bus' = o.bus
              /\ reply' = Reply("write", ErrorOf(o.rv), r.len, ~r.end, o.data)
    /\ UNCHANGED <<addresses, link>>

readstb ==
    /\ Takes("readstb")
    /\ reply' = Reply("readstb",
                      IF ScpiHasStatus(addresses[turn]) THEN "NO_ERROR" ELSE "PROC_UNAVAIL",
                      0, FALSE, NoTransfer)
    /\ UNCHANGED <<bus, addresses, link>>

(* The stop reason itself goes out as the error code: SRS_ERROR is 5,      *)
(* which is PARAMETER_ERROR.                                               *)
devclear ==
    /\ Takes("devclear")
    /\ \E o \in ScpiDevClear(bus, addresses[turn]) :
          /\ bus' = o.bus
          /\ reply' = Reply("devclear",
                            IF o.rv = "SRS_ERROR" THEN "PARAMETER_ERROR" ELSE "NO_ERROR",
                            0, FALSE, o.data)
    /\ UNCHANGED <<addresses, link>>

Unavailable ==
    /\ \/ /\ Takes("other_program")
          /\ reply' = Reply("other_program", "PROG_UNAVAIL", 0, FALSE, NoTransfer)
       \/ /\ Takes("other_procedure")
          /\ reply' = Reply("other_procedure", "PROC_UNAVAIL", 0, FALSE, NoTransfer)
    /\ UNCHANGED <<bus, addresses, link>>

handle_packet == \/ create_link \/ destroy_link \/ read \/ write
                 \/ readstb \/ devclear \/ Unavailable

(* send_vxi_packet waits until the socket can take bytes, which a socket   *)
(* that was reset never can; a destroyed link is closed after the reply.   *)
Answer ==
    /\ pc = "answer"
    /\ conn[turn] # "reset"
    /\ IF reply.op = "destroy_link" THEN Stop({turn}) ELSE UNCHANGED <<conn, inbox, link>>
    /\ reply' = NoReply
    /\ Advance
    /\ UNCHANGED <<bus, addresses, buffer, backlog, bindReq, bindReply, webReq>>

-----------------------------------------------------------------------------
(* loop_serial_ui_and_led()                                                *)

Web ==
    /\ pc = "web"
    /\ pc' = "ui"
    /\ IF webReq = NoWebRequest
       THEN UNCHANGED <<buffer, bus, webReq>>
       ELSE bus' \in handleRequest(bus, webReq) /\ webReq' = NoWebRequest
    /\ UNCHANGED <<conn, inbox, addresses, buffer, turn, reply, backlog, bindReq, bindReply, link>>

(* When the IP address has changed, killClients() closes every connection, *)
(* whatever its client was in the middle of.                               *)
Ui ==
    /\ pc = "ui"
    /\ pc' = "bind"
    /\ \/ UNCHANGED <<conn, inbox, link>>
       \/ "ip_change" \in Disturbances /\ Stop({s \in Slots : ~Free(s)})
    /\ UNCHANGED <<bus, addresses, buffer, turn, reply, backlog, bindReq, bindReply, webReq>>

Loop == Bind \/ Reap \/ Accept \/ Skip \/ handle_packet \/ Answer \/ Web \/ Ui

-----------------------------------------------------------------------------
(* The peers, the instruments, the power supply.                           *)

Connect ==
    /\ backlog < MaxBacklog
    /\ backlog' = backlog + 1
    /\ UNCHANGED <<bus, conn, inbox, addresses, buffer, pc, turn, reply, bindReq, bindReply, webReq, link>>

Request(s) ==
    /\ conn[s] = "open"
    /\ Len(inbox[s]) < MaxPipeline
    /\ \E r \in Requests : inbox' = [inbox EXCEPT ![s] = Append(@, r)]
    /\ UNCHANGED <<bus, conn, addresses, buffer, pc, turn, reply, backlog, bindReq, bindReply, webReq, link>>

PeerCloses(s) ==
    /\ \/ conn[s] = "open" /\ conn' = [conn EXCEPT ![s] = "closing"]
       \/ /\ "reset" \in Disturbances
          /\ conn[s] \in {"open", "closing"}
          /\ conn' = [conn EXCEPT ![s] = "reset"]
    /\ UNCHANGED <<bus, inbox, addresses, buffer, pc, turn, reply, backlog, bindReq, bindReply, webReq, link>>

(* A client that goes away in the middle of a request.                     *)
GoesAway(s) ==
    /\ "cut" \in Disturbances
    /\ conn[s] = "open"
    /\ Len(inbox[s]) < MaxPipeline
    /\ conn' = [conn EXCEPT ![s] = "closing"]
    /\ inbox' = [inbox EXCEPT ![s] = Append(@, Part)]
    /\ UNCHANGED <<bus, addresses, buffer, pc, turn, reply, backlog, bindReq, bindReply, webReq, link>>

AskPort(t) ==
    /\ bindReq[t] = "none"
    /\ \E r \in BindRequests : bindReq' = [bindReq EXCEPT ![t] = r]
    /\ UNCHANGED <<bus, conn, inbox, addresses, buffer, pc, turn, reply, backlog, bindReply, webReq, link>>

AskWeb ==
    /\ webReq = NoWebRequest
    /\ webReq' \in WebRequests
    /\ UNCHANGED <<bus, conn, inbox, addresses, buffer, pc, turn, reply, backlog, bindReq, bindReply, link>>

SwitchInstrument(i) ==
    /\ "power" \in Disturbances
    /\ bus' = IF i \in bus.powered THEN PowerOff(bus, i) ELSE PowerOn(bus, i)
    /\ UNCHANGED <<conn, inbox, addresses, buffer, pc, turn, reply, backlog, bindReq, bindReply, webReq, link>>

Reboot ==
    /\ "reboot" \in Disturbances
    /\ bus' = BootBus(bus.powered, StoredEoi, StoredEos)
    /\ Stop(Slots)
    /\ addresses' = [s \in Slots |-> 0]
    /\ buffer' = Zeros
    /\ pc' = "bind" /\ turn' = 1 /\ reply' = NoReply
    /\ backlog' = 0
    /\ bindReq' = [t \in Transports |-> "none"] /\ bindReply' = NoBindReply
    /\ webReq' = NoWebRequest

Environment ==
    \/ Connect \/ AskWeb \/ Reboot
    \/ \E s \in Slots : Request(s) \/ PeerCloses(s) \/ GoesAway(s)
    \/ \E t \in Transports : AskPort(t)
    \/ \E i \in Instruments : SwitchInstrument(i)

Next == Loop \/ Environment

(* The loop is not preempted and no handler waits for another: only a send *)
(* to a socket that was reset never returns, and that step is not enabled. *)
Spec == Init /\ [][Next]_vars /\ WF_vars(Loop)

-----------------------------------------------------------------------------
(* Properties.                                                             *)

(* While cfg.paddr remembers an address, no instrument at another address  *)
(* is listening or talking: this is what lets SCPI_handler::addressDevice  *)
(* skip the addressing.  It holds whatever times out in between, as long   *)
(* as only the VXI-11 server uses the bus.                                 *)
ExclusiveAddressing ==
    bus.paddr # NoDevice => bus.listeners \cup bus.talkers \subseteq {bus.paddr}

(* A client that has created a link reaches the instrument of its own link *)
(* and no other: no write or clear of it is heard elsewhere and no read    *)
(* brings it another instrument's data, however requests of several        *)
(* clients, time-outs, power failures and disconnections interleave.       *)
RoutedToLink ==
    pc = "answer" /\ link[turn] # NoLink =>
        reply.data.to \cup reply.data.from \subseteq {Target(link[turn])}

(* The part of RoutedToLink that the interactive web page leaves standing: *)
(* without handshake faults a read is answered by the link's instrument or *)
(* not at all, whatever web requests came in between.                      *)
ReadFromOwnInstrument ==
    pc = "answer" /\ link[turn] # NoLink =>
        reply.data.from \subseteq {Target(link[turn])}

(* The cached address is true: the instrument in cfg.paddr, if it is on,   *)
(* is addressed, and in the direction the controller believes.  (No        *)
(* time-outs, no power failures, no web requests.)                         *)
CacheCoherent ==
    bus.paddr \in bus.powered =>
        CASE bus.deviceAddressed = "TOLISTEN" -> bus.paddr \in bus.listeners
          [] bus.deviceAddressed = "TOTALK"   -> bus.paddr \in bus.talkers
          [] OTHER                            -> FALSE

(* A message cut into several write requests is one message on the bus:    *)
(* nothing marks an end after the first parts, and the configured end      *)
(* characters (and EOI) follow the last one.                               *)
MessageEnded ==
    pc = "answer" /\ reply.op = "write" /\ reply.data.n > 0 =>
        IF reply.more
        THEN reply.data.ends = {} /\ ~reply.data.eoi
        ELSE reply.data.ends = EndsOf(StoredEos) /\ reply.data.eoi = StoredEoi

(* A port mapper reply that reports success carries the VXI-11 port, and a *)
(* GET_PORT request is never answered with an error: requests wait until   *)
(* a connection is free ("should not allow the port returned to be zero"). *)
PortNeverZero == bindReply.rc \notin {"none", "PROG_UNAVAIL", "PROC_UNAVAIL"}
                     => bindReply = [rc |-> "SUCCESS", port |-> VXI11_PORT]

(* A port mapper request is answered unless every slot is taken; one over  *)
(* TCP may have to wait until nothing more arrives over UDP.               *)
PortMapperAnswers ==
    /\ bindReq["udp"] # "none" ~> bindReq["udp"] = "none" \/ ~have_free_connections
    /\ <>[](bindReq["udp"] = "none") =>
          (bindReq["tcp"] # "none" ~> bindReq["tcp"] = "none" \/ ~have_free_connections)

Isolated(s) ==
    conn[s] \in {"open", "closing"} =>
        LET mine == turn = s /\ (pc = "answer" \/ pc = "serve")
            destroyed == mine /\ reply.op = "destroy_link"
        IN  /\ conn[s] = "open" /\ conn'[s] = "free" => destroyed
            /\ inbox'[s] = <<>> => \/ Len(inbox[s]) <= 1 /\ (inbox[s] = <<>> \/ mine)
                                   \/ destroyed
            /\ conn'[s] # "free" => \/ inbox'[s] = inbox[s]
                                    \/ mine /\ inbox[s] # <<>> /\ inbox'[s] = Tail(inbox[s])
                                    \/ \E r \in Requests : inbox'[s] = Append(inbox[s], r)
            /\ link'[s] # link[s] /\ conn'[s] # "free" =>
                    /\ mine /\ inbox[s] # <<>> /\ Head(inbox[s]).op = "create_link"
                    /\ link'[s] = addresses'[s]
            /\ addresses'[s] # addresses[s] => link'[s] # link[s] \/ link[s] = NoLink

(* What happens on one connection does not touch another's: a connection   *)
(* whose peer stays is closed only by its own destroy_link, even when all  *)
(* slots are taken and more clients knock; its requests are taken in order *)
(* and its link changes by its own create_link only.  (No reboots, changes *)
(* of the IP address and requests that are cut off.)                       *)
SlotIsolation == [][\A s \in Slots : Isolated(s)]_vars

(* A request that has arrived is taken and answered, unless its connection *)
(* is closed first: no client starves behind the requests of another.      *)
RequestsAnswered ==
    \A s \in Slots : inbox[s] # <<>> ~> (pc = "answer" /\ turn = s) \/ Free(s)

(* The gateway is a VxiService: a session per occupied slot, and what was  *)
(* served is what the reply about to be sent is for.                       *)
Service == INSTANCE VxiService WITH
    session <- [s \in Slots |-> IF Free(s) THEN 256 ELSE link[s]],
    served <- IF pc = "answer"
              THEN [slot |-> turn, to |-> reply.data.to, from |-> reply.data.from]
              ELSE [slot |-> 0, to |-> {}, from |-> {}]

(* Every behaviour of the gateway, on a faulty bus too, is one of the      *)
(* service promised to the clients.                                        *)
ImplementsService == Service!Spec

-----------------------------------------------------------------------------
(* Claims of the sources that the code does not meet.                      *)

(* NO_ERROR, "No error = success", and "Both VXI-11 and prologix support   *)
(* large replies and large commands and requests": the bytes of a write so *)
(* answered went to the link's instrument, when it is on, all of them.     *)
NoErrorMeansSent ==
    pc = "answer" /\ reply.op = "write" /\ reply.error = "NO_ERROR" /\ reply.size > 0
      /\ link[turn] # NoLink /\ Target(link[turn]) \in bus.powered =>
        reply.data.to = {Target(link[turn])} /\ reply.data.n = reply.size

(* "primary address is not used": a primary address that stays in cfg.paddr*)
(* stands for an addressed device, since the next VXI-11 request takes it  *)
(* for one.  True as long as no web request uses the bus, false after one. *)
CachedMeansAddressed == bus.paddr # NoDevice => bus.deviceAddressed # "TONONE"

(* "read the entire packet, blocking if needed": what an instrument gets,  *)
(* or gives, on behalf of a connection was asked for on that connection.   *)
ServedAsAsked ==
    [][pc = "serve" /\ pc' = "answer" =>
        reply'.data = NoTransfer \/ Head(inbox[turn]).op = reply'.op]_vars
=============================================================================
