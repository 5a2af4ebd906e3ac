------------------------------- MODULE Client -------------------------------
(***************************************************************************)
(* The client library (client/nvecdclient.cpp), the command line tool      *)
(* (cli/nvecd-cli.cpp) and the response framing they share                 *)
(* (client/protocol_transport.h), against a server on one connection.      *)
(*                                                                         *)
(* The protocol has no length prefix and no request id: the client sends   *)
(* one line and decides from the command it sent, its own idea of the      *)
(* connection's DEBUG mode and the lines it has received where the answer  *)
(* ends.  A round trip holds round_trip_mutex_, so the threads of a        *)
(* process take turns; what may happen inside one is a partial receive, a  *)
(* receive time-out (SO_RCVTIMEO) racing a late answer, and a close by the *)
(* server.  A line is a record: the request it answers, its kind and, for  *)
(* a counted header, the count.                                            *)
(***************************************************************************)
EXTENDS Naturals, Sequences

CONSTANTS
  CommandKinds,   \* kinds of command the callers issue
  MaxCommands,    \* bound: commands sent
  MaxItems,       \* bound: items of a counted or END-terminated answer
  MaxSessions,    \* bound: connections opened
  RetryCount      \* config_.retry_count of the command line tool

Nothing == [n |-> 0, kind |-> "none"]
DebugFields == 1

(* Commands whose answer the client can delimit *)
FramedKinds == {"one", "sim", "info", "get", "show", "debugOn", "debugOff"}

(* Commands the server accepts and whose answer the client delimits wrongly: *)
(* DUMP INFO <path>, and INFO, CACHE STATS or DUMP STATUS with other spacing *)
(* or further words (dumpinfo); CONFIG VERIFY of a file that breaks the      *)
(* schema (verify); GET of a variable that is empty (getempty); DEBUG ON and *)
(* DEBUG OFF with other spacing (debugOnLoose, debugOffLoose).               *)
MisframedKinds == {"dumpinfo", "verify", "getempty", "debugOnLoose", "debugOffLoose"}

AllKinds == FramedKinds \cup MisframedKinds

ASSUME ClientAssumption ==
  /\ CommandKinds \subseteq AllKinds
  /\ MaxCommands \in Nat /\ MaxItems \in Nat /\ MaxSessions \in Nat /\ RetryCount \in Nat

VARIABLES
  sock,             \* sock_ >= 0
  response_buffer,  \* response_buffer_: lines received and not yet returned
  debug_mode,       \* debug_mode_
  command,          \* the command of the round trip under way: [n, kind]
  answer,           \* what the last round trip returned: the lines
  attempts,         \* attempts of the connect loop under way
  sent,             \* commands sent so far
  sessions,         \* connections opened so far
  listening,        \* the server accepts connections
  serverOpen,             \* the server's end of the connection is open
  serverDebug,        \* ConnectionContext::debug_mode
  inbox,            \* the command the server has not answered yet
  wire,             \* lines sent by the server, not yet received
  response          \* ghost: the whole answer to the last command served

clientVars == <<sock, response_buffer, debug_mode, command, answer, attempts,
                sent, sessions, listening, serverOpen, serverDebug, inbox, wire, response>>

(***************************************************************************)
(* The server's answers                                                    *)
(***************************************************************************)

Line(n, kind, count) == [of |-> n, kind |-> kind, count |-> count]
Lines(n, kind, k) == [i \in 1 .. k |-> Line(n, kind, 0)]

(* GET and SHOW VARIABLES answer with a bulk string: a header and a payload *)
Bulk(n) == <<Line(n, "bulk", 0), Line(n, "text", 0)>>

(* NormalizeResponse strips the line breaks an answer ends with and adds one: *)
(* of an empty bulk string only the header is left                           *)
NormalizeEmptyBulk(n) == <<Line(n, "bulk", 0)>>

(* the block FormatSimDebugBlock appends to an answer of SIM and SIMV *)
FormatSimDebugBlock(n) == <<Line(n, "debug", DebugFields)>> \o Lines(n, "text", DebugFields)

FormatSimResponse(n, k, debug) ==
  <<Line(n, "results", k)>> \o Lines(n, "text", k)
    \o (IF debug THEN FormatSimDebugBlock(n) ELSE <<>>)

HandleShowVariables(n, k) ==
  <<Line(n, "array", k)>> \o [i \in 1 .. 2 * k |-> Bulk(n)[IF i % 2 = 1 THEN 1 ELSE 2]]

(* INFO, CONFIG, CACHE STATS, DUMP STATUS, and DUMP INFO alike *)
EndTerminated(n, k) == <<Line(n, "text", 0)>> \o Lines(n, "text", k) \o <<Line(n, "end", 0)>>

HandleDumpInfo(n, k) == EndTerminated(n, k)

FormatError(n) == <<Line(n, "error", 0)>>

(* a file that breaks the schema is refused with an error of several lines *)
HandleConfigVerify(n, k) == {EndTerminated(n, k), FormatError(n) \o Lines(n, "text", k)}

Answers(c, debug) ==
  {FormatError(c.n)} \cup
  CASE c.kind = "sim" -> {FormatSimResponse(c.n, k, debug) : k \in 0 .. MaxItems}
    [] c.kind = "info" -> {EndTerminated(c.n, k) : k \in 0 .. MaxItems}
    [] c.kind = "dumpinfo" -> {HandleDumpInfo(c.n, k) : k \in 0 .. MaxItems}
    [] c.kind = "verify" -> UNION {HandleConfigVerify(c.n, k) : k \in 0 .. MaxItems}
    [] c.kind = "get" -> {Bulk(c.n)}
    [] c.kind = "getempty" -> {NormalizeEmptyBulk(c.n)}
    [] c.kind = "show" -> {HandleShowVariables(c.n, k) : k \in 0 .. MaxItems}
    [] OTHER -> {<<Line(c.n, "text", 0)>>}

(* HandleDebugOn and HandleDebugOff change the connection's mode; the words  *)
(* of a command may be any number of spaces apart                            *)
HandleDebug(c, r) ==
  CASE r = FormatError(c.n) -> serverDebug
    [] r # FormatError(c.n) /\ c.kind \in {"debugOn", "debugOnLoose"} -> TRUE
    [] r # FormatError(c.n) /\ c.kind \in {"debugOff", "debugOffLoose"} -> FALSE
    [] OTHER -> serverDebug

(***************************************************************************)
(* Framing: the number of lines of a complete answer, 0 while incomplete    *)
(***************************************************************************)

(* All but CONFIG are compared as a whole with one text: DUMP INFO takes a   *)
(* path, and the framing knows only the text "DUMP INFO"                     *)
FrameForCommand(c) ==
  [end_terminated |-> c.kind \in {"info", "verify"},
   debug_similarity |-> debug_mode /\ c.kind = "sim"]

Complete(buffer, k) == IF k <= Len(buffer) THEN k ELSE 0

(* the elements of an array are bulk strings, of two lines each *)
CompleteValueLength(buffer) ==
  CASE buffer[1].kind = "bulk" -> Complete(buffer, 2)
    [] buffer[1].kind = "array" -> Complete(buffer, 1 + 2 * buffer[1].count)
    [] OTHER -> 1

EndLength(buffer) ==
  LET ends == {i \in 2 .. Len(buffer) : buffer[i].kind = "end"}
  IN IF ends = {} THEN 0 ELSE CHOOSE i \in ends : \A j \in ends : i <= j

ResultsLength(buffer, debug) ==
  LET header == buffer[1].count + 2   \* where the debug block begins
  IN CASE ~debug -> Complete(buffer, header - 1)
       [] debug /\ Len(buffer) < header -> 0
       [] OTHER -> IF buffer[header].kind # "debug" THEN header
                   ELSE Complete(buffer, header + buffer[header].count)

CompleteResponseLength(buffer, frame) ==
  CASE buffer = <<>> -> 0
    [] buffer # <<>> /\ frame.end_terminated /\ buffer[1].kind # "error" -> EndLength(buffer)
    [] OTHER -> IF buffer[1].kind = "results" THEN ResultsLength(buffer, frame.debug_similarity)
                ELSE CompleteValueLength(buffer)

(***************************************************************************)
(* Connecting and disconnecting                                            *)
(***************************************************************************)

ClientInit ==
  /\ sock = FALSE /\ response_buffer = <<>> /\ debug_mode = FALSE
  /\ command = Nothing /\ answer = <<>> /\ attempts = 0
  /\ sent = 0 /\ sessions = 0
  /\ listening = FALSE
  /\ serverOpen = FALSE /\ serverDebug = FALSE
  /\ inbox = Nothing /\ wire = <<>> /\ response = <<>>

(* A connection with a fresh ConnectionContext at the server *)
Connect ==
  /\ ~sock /\ listening /\ sessions < MaxSessions
  /\ sock' = TRUE /\ attempts' = 0 /\ sessions' = sessions + 1
  /\ serverOpen' = TRUE /\ serverDebug' = FALSE
  /\ UNCHANGED <<response_buffer, debug_mode, command, answer, sent, listening,
                 inbox, wire, response>>

(* Mutant: the command line tool never gives up. *)
RetriesForever ==
  /\ ~sock /\ ~listening
  /\ attempts' = attempts + 1
  /\ UNCHANGED <<sock, response_buffer, debug_mode, command, answer, sent, sessions,
                 listening, serverOpen, serverDebug, inbox, wire, response>>

(* ECONNREFUSED: the command line tool waits and tries again, up to its count *)
ConnectRefused ==
  /\ ~sock /\ ~listening /\ attempts <= RetryCount
  /\ attempts' = attempts + 1
  /\ UNCHANGED <<sock, response_buffer, debug_mode, command, answer, sent, sessions,
                 listening, serverOpen, serverDebug, inbox, wire, response>>

(* Mutant: lines of the old connection stay in the buffer. *)
DisconnectKeepsBuffer ==
  /\ sock' = FALSE /\ debug_mode' = FALSE
  /\ serverOpen' = FALSE /\ inbox' = Nothing /\ wire' = <<>>
  /\ UNCHANGED <<sent, sessions, listening, serverDebug, response, response_buffer, attempts>>

(* What closing the descriptor leaves: nothing of the old session can arrive *)
DisconnectUnlocked ==
  /\ sock' = FALSE /\ response_buffer' = <<>> /\ debug_mode' = FALSE
  /\ serverOpen' = FALSE /\ inbox' = Nothing /\ wire' = <<>>
  /\ UNCHANGED <<sent, sessions, listening, serverDebug, response, attempts>>

Disconnect ==
  /\ sock /\ command = Nothing
  /\ DisconnectUnlocked
  /\ UNCHANGED <<command, answer>>

(***************************************************************************)
(* SendCommand: one round trip                                             *)
(***************************************************************************)

(* SendAll succeeds: it is the server's close, if any, that recv reports *)
SendCommand(kind) ==
  /\ sock /\ command = Nothing /\ sent < MaxCommands
  /\ sent' = sent + 1
  /\ command' = [n |-> sent + 1, kind |-> kind]
  /\ inbox' = IF serverOpen THEN command' ELSE Nothing
  /\ answer' = <<>>
  /\ UNCHANGED <<sock, response_buffer, debug_mode, attempts, sessions, listening,
                 serverOpen, serverDebug, wire, response>>

(* SendAll fails on a connection the server has closed *)
SendFails ==
  /\ sock /\ command = Nothing /\ ~serverOpen
  /\ DisconnectUnlocked
  /\ answer' = <<>>
  /\ UNCHANGED command

Length == CompleteResponseLength(response_buffer, FrameForCommand(command))

(* The mode follows the exact text DEBUG ON or DEBUG OFF of the command and  *)
(* the absence of an error prefix, in the tool as in the library             *)
DebugAfter(reply) ==
  IF reply[1].kind = "error" \/ command.kind \notin {"debugOn", "debugOff"} THEN debug_mode
  ELSE command.kind = "debugOn"

Return ==
  /\ command # Nothing /\ Length > 0
  /\ LET reply == SubSeq(response_buffer, 1, Length)
     IN /\ answer' = reply
        /\ response_buffer' = SubSeq(response_buffer, Length + 1, Len(response_buffer))
        /\ debug_mode' = DebugAfter(reply)
  /\ command' = Nothing
  /\ UNCHANGED <<sock, attempts, sent, sessions, listening, serverOpen, serverDebug, inbox, wire, response>>

(* recv delivers any part of what the server has sent *)
ReceiveRetryingEintr ==
  /\ command # Nothing /\ Length = 0
  /\ \E k \in 1 .. Len(wire) :
       /\ response_buffer' = response_buffer \o SubSeq(wire, 1, k)
       /\ wire' = SubSeq(wire, k + 1, Len(wire))
  /\ UNCHANGED <<sock, debug_mode, command, answer, attempts, sent, sessions, listening,
                 serverOpen, serverDebug, inbox, response>>

(* recv times out while the rest of the answer is late, or finds the close *)
ReceiveFails ==
  /\ command # Nothing /\ Length = 0
  /\ DisconnectUnlocked
  /\ command' = Nothing
  /\ UNCHANGED answer

(***************************************************************************)
(* The server                                                              *)
(***************************************************************************)

Answer ==
  /\ inbox # Nothing /\ serverOpen
  /\ \E r \in Answers(inbox, serverDebug) :
       /\ wire' = wire \o r
       /\ response' = r
       /\ serverDebug' = HandleDebug(inbox, r)
  /\ inbox' = Nothing
  /\ UNCHANGED <<sock, response_buffer, debug_mode, command, answer, attempts, sent,
                 sessions, listening, serverOpen>>

(* An idle time-out or a stop: what was sent is still received *)
ServerCloses ==
  /\ serverOpen
  /\ serverOpen' = FALSE /\ inbox' = Nothing
  /\ UNCHANGED <<sock, response_buffer, debug_mode, command, answer, attempts, sent,
                 sessions, listening, serverDebug, wire, response>>

ServerReady ==
  /\ ~listening /\ listening' = TRUE
  /\ UNCHANGED <<sock, response_buffer, debug_mode, command, answer, attempts, sent,
                 sessions, serverOpen, serverDebug, inbox, wire, response>>

ClientNext ==
  \/ Connect \/ ConnectRefused \/ Disconnect
  \/ \E kind \in CommandKinds : SendCommand(kind)
  \/ SendFails \/ ReceiveRetryingEintr \/ Return \/ ReceiveFails
  \/ Answer \/ ServerCloses \/ ServerReady

ClientSpec == ClientInit /\ [][ClientNext]_clientVars

-----------------------------------------------------------------------------

AnyLine == [of : 1 .. MaxCommands, count : 0 .. MaxItems + DebugFields,
            kind : {"text", "bulk", "array", "results", "debug", "end", "error"}]

IsLines(s) == \A i \in DOMAIN s : s[i] \in AnyLine

(* The variables keep their shape. *)
ClientTypeOK ==
  /\ {sock, debug_mode, listening, serverOpen, serverDebug} \subseteq BOOLEAN
  /\ \A s \in {response_buffer, answer, wire, response} : IsLines(s)
  /\ \A c \in {command, inbox} :
       c = Nothing \/ c \in [n : 1 .. MaxCommands, kind : CommandKinds]
  /\ attempts \in 0 .. RetryCount + 1
  /\ sent \in 0 .. MaxCommands /\ sessions \in 0 .. MaxSessions

(* What a round trip returns is the whole answer to its own command: no     *)
(* line of an earlier answer that came after a time-out, of an earlier      *)
(* connection, of an earlier answer's end or of a debug block taken for the *)
(* next answer.                                                             *)
ReturnsTheAnswer ==
  answer # <<>> /\ command = Nothing => answer = response /\ answer[1].of = sent

(* The client never waits for more than the server sends: once the whole    *)
(* answer is in its buffer the framing reports it complete, so a receive    *)
(* can only time out on a server that is late.                              *)
WaitsForNoMore ==
  command # Nothing /\ serverOpen /\ inbox = Nothing /\ wire = <<>> => Length > 0

(* Both, for the commands whose answers the client can delimit: SendCommand *)
(* returns what the server said to this command, and returns it as soon as  *)
(* all of it has arrived.                                                   *)
AnswersTheCommand == ReturnsTheAnswer /\ WaitsForNoMore
=============================================================================
