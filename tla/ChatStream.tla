----------------------------- MODULE ChatStream -----------------------------
(***************************************************************************)
(* The chat panel of a workspace and the gateway it talks to.  A message   *)
(* is sent with the conversation shown; the gateway keeps a row for the    *)
(* answer, relays its tokens and closes the row when the answer ended or   *)
(* the browser is gone.  The panel shows the answer as it arrives, while   *)
(* an older conversation may be opened, whose messages are then fetched.   *)
(*                                                                         *)
(* Grain.  Messages are numbered in the order they are sent, and stand for *)
(* the answer to them.  A conversation has the number of its first one.    *)
(* An answer is as many tokens as it has so far.  The bubbles of a panel   *)
(* are a set: their turns order them, and of one turn there is at most one *)
(* that was fetched and one that was sent here.  Titles, models, citations *)
(* and credits are left out.  A fetch of messages is one step.             *)
(***************************************************************************)
EXTENDS Naturals, Sequences

CONSTANTS
  Turns,      \* how many messages are sent
  Tokens,     \* how long answers are, at most
  ChatFaults  \* how many connections break

ASSUME ChatAssumption == Turns \in Nat /\ Tokens \in Nat /\ ChatFaults \in Nat

None == 0
Turn == 1..Turns

VARIABLES
  turns,         \* messages sent
  served,        \* status of the answer to each on the server
  conv,          \* the conversation of each; None when it starts one
  said,          \* tokens the gateway relayed for it
  link,          \* the connection of the last message
  wire,          \* events on it
  streaming,     \* the state of that name
  halted,       \* whether abort() was called on the last controller
  terminal,      \* whether the last answer ended or failed
  current,       \* whether currentId is the id of the row by now
  bubbles,       \* the answers of "messages"
  conversation,  \* conversationId
  chosen,        \* selectId
  hydrated,      \* hydratedRef
  history,       \* messages the query cache has of a conversation
  chatFaults     \* connections that broke

serverAnswers == <<turns, served, conv, said>>
streamVars == <<link, wire, streaming, halted, terminal, current>>
panelVars == <<bubbles, conversation, chosen, hydrated>>
chatVars == <<serverAnswers, streamVars, panelVars, history, chatFaults>>

Ends == {"complete", "error", "aborted"}
Status == {"streaming"} \cup Ends
(* Of a fetched conversation, or put there by send().  A fetched answer    *)
(* gets the tokens still under way as well, which it may already have.     *)
Bubble == [turn : Turn, row : BOOLEAN, fetched : BOOLEAN, status : Status, content : 0..(2 * Tokens)]
NoHistory == [of |-> None, rows |-> {}]

ChatTypeOK ==
  /\ turns \in 0..Turns /\ chatFaults \in 0..ChatFaults
  /\ served \in [Turn -> Status \cup {"none", "asked", "refused"}]
  /\ conv \in [Turn -> 0..Turns] /\ said \in [Turn -> 0..Tokens]
  /\ link \in {"open", "closed", "broken"} /\ Len(wire) <= Tokens + 3
  /\ {streaming, halted, terminal, current} \subseteq BOOLEAN
  /\ wire \in Seq({"start", "token"} \cup Ends) /\ bubbles \subseteq Bubble
  /\ {conversation, chosen, hydrated} \subseteq 0..Turns
  /\ history \in [Turn -> [of : 0..Turns, rows : SUBSET Bubble]]
  /\ \A c \in Turn : history[c].of \in {None, c}

ChatInit ==
  /\ turns = 0 /\ chatFaults = 0
  /\ served = [t \in Turn |-> "none"]
  /\ conv = [t \in Turn |-> None] /\ said = [t \in Turn |-> 0]
  /\ streaming = FALSE /\ link = "closed" /\ wire = <<>>
  /\ halted = FALSE /\ terminal = FALSE /\ current = FALSE
  /\ bubbles = {} /\ conversation = None /\ chosen = None /\ hydrated = None
  /\ history = [c \in Turn |-> NoHistory]

(***************************************************************************)
(* The panel.                                                              *)
(***************************************************************************)
sendMessage ==
  /\ ~streaming /\ turns < Turns
  /\ turns' = turns + 1
  /\ served' = [served EXCEPT ![turns'] = "asked"]
  /\ conv' = [conv EXCEPT ![turns'] = conversation]
  /\ bubbles' = bubbles \cup {[turn |-> turns', row |-> FALSE, fetched |-> FALSE,
                                status |-> "streaming", content |-> 0]}
  /\ link' = "open" /\ wire' = <<>>
  /\ streaming' = TRUE /\ halted' = FALSE /\ terminal' = FALSE /\ current' = FALSE
  /\ UNCHANGED <<said, conversation, chosen, hydrated, history, chatFaults>>

stop ==
  /\ streaming /\ ~halted
  /\ halted' = TRUE /\ wire' = <<>>
  /\ UNCHANGED <<serverAnswers, link, streaming, terminal, current, panelVars, history, chatFaults>>

openNew ==
  /\ hydrated' = None /\ chosen' = None /\ conversation' = None /\ bubbles' = {}
  /\ halted' = (halted \/ streaming) /\ wire' = <<>>
  /\ UNCHANGED <<serverAnswers, link, streaming, terminal, current, history, chatFaults>>

(* The effect that replaces the panel's messages, once for a choice.       *)
hydrate(c, rows) == hydrated' = c /\ conversation' = c /\ bubbles' = rows

MessageRows(c) ==
  {[turn |-> t, row |-> TRUE, fetched |-> TRUE, status |-> served[t],
    content |-> IF served[t] = "streaming" THEN 0 ELSE said[t]] :
     t \in {x \in Turn : conv[x] = c /\ served[x] \in Status}}

(* What the cache has is shown at once; but the effect does not run again  *)
(* for the conversation already chosen, until its messages change.         *)
openConversation(c) ==
  /\ \E t \in Turn : conv[t] = c
  /\ chosen' = c
  /\ IF chosen # c /\ history[c].of = c
       THEN hydrate(c, history[c].rows)
       ELSE hydrated' = None /\ UNCHANGED <<conversation, bubbles>>
  /\ UNCHANGED <<serverAnswers, streamVars, history, chatFaults>>

FetchMessages ==
  LET fetched == [of |-> chosen, rows |-> MessageRows(chosen)]
  IN  /\ chosen # None /\ history[chosen] # fetched
      /\ history' = [history EXCEPT ![chosen] = fetched]
      /\ IF hydrated = chosen THEN UNCHANGED <<hydrated, conversation, bubbles>>
                              ELSE hydrate(chosen, fetched.rows)
      /\ UNCHANGED <<serverAnswers, streamVars, chosen, chatFaults>>

(***************************************************************************)
(* The stream.  It changes the message of currentId, wherever that came    *)
(* from.                                                                   *)
(***************************************************************************)
Current(b) == b.turn = turns /\ b.row = current

patch(status) ==
  {IF Current(b) THEN [b EXCEPT !.status = status] ELSE b : b \in bubbles}

onStart ==
  /\ current' = TRUE /\ conversation' = conv[turns]
  /\ bubbles' = {[b EXCEPT !.row = @ \/ Current(b)] : b \in bubbles}
  /\ UNCHANGED terminal

onToken ==
  /\ bubbles' = {IF Current(b) THEN [b EXCEPT !.content = @ + 1] ELSE b : b \in bubbles}
  /\ UNCHANGED <<current, conversation, terminal>>

(* Whatever ends an answer first does; an aborted one cannot fail.         *)
ends(status) ==
  /\ bubbles' = IF terminal THEN bubbles ELSE patch(status)
  /\ terminal' = TRUE
  /\ UNCHANGED <<current, conversation>>

HearAnswer ==
  /\ streaming /\ ~halted /\ wire # <<>>
  /\ wire' = Tail(wire)
  /\ CASE Head(wire) = "start" -> onStart
       [] Head(wire) = "token" -> onToken
       [] OTHER -> ends(Head(wire))
  /\ UNCHANGED <<serverAnswers, link, streaming, halted, chosen, hydrated, history, chatFaults>>

NoStream ==
  /\ streaming' = FALSE /\ link' = "closed" /\ wire' = <<>>
  /\ halted' = FALSE /\ terminal' = FALSE /\ current' = FALSE

(* Seeded flaw: a connection that closes early leaves its bubble alone.    *)
BadStreamOver ==
  /\ streaming
  /\ halted \/ link = "broken" \/ (link = "closed" /\ wire = <<>>)
  /\ bubbles' = IF halted THEN patch("aborted") ELSE bubbles
  /\ NoStream
  /\ UNCHANGED <<serverAnswers, conversation, chosen, hydrated, history, chatFaults>>

(* The response is over, broken, refused or aborted.                       *)
StreamOver ==
  /\ streaming
  /\ halted \/ link = "broken" \/ (link = "closed" /\ wire = <<>>)
  /\ bubbles' = CASE halted -> patch("aborted")
                  [] ~halted /\ ~terminal -> patch("error")
                  [] OTHER -> bubbles
  /\ NoStream
  /\ UNCHANGED <<serverAnswers, conversation, chosen, hydrated, history, chatFaults>>

LinkBreaks ==
  /\ streaming /\ link = "open" /\ chatFaults < ChatFaults
  /\ link' = "broken" /\ wire' = <<>> /\ chatFaults' = chatFaults + 1
  /\ UNCHANGED <<serverAnswers, streaming, halted, terminal, current, panelVars, history>>

(***************************************************************************)
(* The gateway.  What it sends reaches the panel while that listens.       *)
(***************************************************************************)
Listening(t) == t = turns /\ streaming /\ ~halted /\ link = "open"

Relay(t, events, last) ==
  IF Listening(t)
    THEN wire' = wire \o events /\ link' = IF last THEN "closed" ELSE link
    ELSE UNCHANGED <<wire, link>>

UNCHANGED_BY_GATEWAY == UNCHANGED <<turns, streaming, halted, terminal, current, panelVars, history, chatFaults>>

StartAssistantMessage(t) ==
  /\ served[t] = "asked"
  /\ served' = [served EXCEPT ![t] = "streaming"]
  /\ conv' = [conv EXCEPT ![t] = IF @ = None THEN t ELSE @]
  /\ Relay(t, <<"start">>, FALSE)
  /\ UNCHANGED said /\ UNCHANGED_BY_GATEWAY

(* No stream is free, no model, the browser is gone; or, once there is a   *)
(* conversation for it, no credit is left.                                 *)
RefuseMessage(t) ==
  /\ served[t] = "asked"
  /\ served' = [served EXCEPT ![t] = "refused"]
  /\ conv' \in {conv, [conv EXCEPT ![t] = IF @ = None THEN t ELSE @]}
  /\ Relay(t, <<>>, TRUE)
  /\ UNCHANGED said /\ UNCHANGED_BY_GATEWAY

relayToken(t) ==
  /\ served[t] = "streaming" /\ said[t] < Tokens
  /\ said' = [said EXCEPT ![t] = @ + 1]
  /\ Relay(t, <<"token">>, FALSE)
  /\ UNCHANGED <<served, conv>> /\ UNCHANGED_BY_GATEWAY

(* A gateway may or may not have noticed that the browser is gone.         *)
FinalizeAssistantMessage(t, status) ==
  /\ served[t] = "streaming"
  /\ status = "aborted" => ~Listening(t)
  /\ served' = [served EXCEPT ![t] = status]
  /\ Relay(t, IF status = "error" THEN <<"error", "error">> ELSE <<status>>, TRUE)
  /\ UNCHANGED <<conv, said>> /\ UNCHANGED_BY_GATEWAY

ChatNext ==
  \/ sendMessage \/ stop \/ openNew \/ FetchMessages
  \/ \E c \in Turn : openConversation(c)
  \/ HearAnswer \/ StreamOver \/ LinkBreaks
  \/ \E t \in Turn :
       \/ StartAssistantMessage(t) \/ RefuseMessage(t) \/ relayToken(t)
       \/ \E status \in Ends : FinalizeAssistantMessage(t, status)

(***************************************************************************)
(* An answer that was watched from its start ends as the stream did: none  *)
(* is left spinning once nothing streams, one shown as complete is on the  *)
(* server, and whole, and no bubble shows more than its own answer has.    *)
(***************************************************************************)
AnswersSettle ==
  \A b \in bubbles :
    ~b.fetched =>
      /\ b.status = "streaming" => streaming /\ b.turn = turns
      /\ b.status = "complete" => served[b.turn] = "complete" /\ b.content = said[b.turn]
      /\ b.content <= said[b.turn]
=============================================================================
