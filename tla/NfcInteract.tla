------------------------------ MODULE NfcInteract ------------------------------
(***************************************************************************)
(* One reader front end: the Interact resource, the two queues of each        *)
(* target and the Aliro transaction that runs on them.  A POST announces a     *)
(* target or carries the response to the last command; its answer is the      *)
(* next command.  Devices do not share state, so one is enough.                *)
(*                                                                         *)
(* Each task runs until it awaits.  A task waiting on a queue resumes when it  *)
(* finds there what it waits for; which of several waiting tasks does is left  *)
(* open.  What a command and its response contain is left out: a response is   *)
(* identified by the command it answers, and the transaction may take any of   *)
(* the ways on that some response allows.                                     *)
(***************************************************************************)
EXTENDS Absent

CONSTANTS
    Interaction,        (* bound: targets whose tasks exist at once           *)
    Post                (* bound: POST requests being served at once          *)

ASSUME NfcInteractAssumption ==
    None \notin Interaction \cup Post

VARIABLES
    current,            (* the target of self.devices[device] or None         *)
    handler,            (* the command a handler sends or waits on            *)
    sent,               (* whether that command is through command.put        *)
    command,            (* the command queue of a target                      *)
    response,           (* its response queue                                 *)
    post,               (* the render_post tasks                              *)
    operated,           (* history: the target's transaction succeeded         *)
    awaited,            (* the POST whose answer the reader waits for          *)
    holding,            (* the command the reader is to respond to             *)
    orderly             (* the reader waits for a command before it responds,  *)
                        (* and responds to each command once                   *)

queueVars == <<command, response>>
readerVars == <<awaited, holding>>
interactVars == <<current, handler, sent, queueVars, post, operated, readerVars, orderly>>

Command == {"select", "auth0", "auth1", "step_up_select", "envelope", "notify",
            "control_flow"}
Tag == Interaction \X Command

(* Queue(1) *)
CommandQueue == [item : Command \cup {None}, shut : BOOLEAN]
ResponseQueue == [item : Tag \cup {None}, shut : BOOLEAN]
Open == [item |-> None, shut |-> FALSE]

(* shutdown(True): what the queue held is gone, who waits on it wakes up       *)
Shut_Later(queue) == [queue EXCEPT !.shut = TRUE]
Shut(queue) == [item |-> None, shut |-> TRUE]

Taken_Peek(queue) == queue
Taken(queue) == [queue EXCEPT !.item = None]

IsFull(queue) == queue.item # None
IsGone(queue) == queue.item = None /\ queue.shut

Idle == [state |-> "idle", target |-> None, item |-> None]

NfcInteractTypeOK ==
    /\ current \in Interaction \cup {None}
    /\ handler \in [Interaction -> Command \cup {"new", "done"}]
    /\ sent \in [Interaction -> BOOLEAN]
    /\ command \in [Interaction -> CommandQueue]
    /\ response \in [Interaction -> ResponseQueue]
    /\ post \in [Post -> [state : {"idle", "putting", "getting"},
                          target : Interaction \cup {None},
                          item : Tag \cup {None}]]
    /\ operated \in [Interaction -> BOOLEAN]
    /\ awaited \in Post \cup {None}
    /\ holding \in Tag \cup {None}
    /\ orderly \in BOOLEAN
-----------------------------------------------------------------------------
(* run_aliro, run_step_up and nfc_handler: what may follow the response to a   *)
(* command.  A response that is chained ends the transaction: the await is      *)
(* missing and the coroutine has no data                                      *)
After(c) ==
    CASE c = "select"         -> {"auth0", "control_flow", "done"}
      [] c = "auth0"          -> {"auth1", "control_flow", "done"}
      [] c = "auth1"          -> {"notify", "step_up_select", "envelope", "done"}
      [] c = "step_up_select" -> {"envelope", "control_flow", "done"}
      [] c = "envelope"       -> {"notify", "control_flow", "done"}
      [] OTHER                -> {"done"}

(* "Target gone": only auth1 catches RuntimeError, and sends once more         *)
AfterGone(c) == IF c = "auth1" THEN "control_flow" ELSE "done"

(* Target.__exit__ *)
End_LeavesOpen(i) ==
    /\ handler' = [handler EXCEPT ![i] = "done"]
    /\ sent' = [sent EXCEPT ![i] = FALSE]
    /\ UNCHANGED command
End(i) ==
    /\ handler' = [handler EXCEPT ![i] = "done"]
    /\ sent' = [sent EXCEPT ![i] = FALSE]
    /\ command' = [command EXCEPT ![i] = Shut(@)]

(* Target.transmit up to the first await that blocks *)
Transmit(i, c) ==
    /\ handler' = [handler EXCEPT ![i] = c]
    /\ sent' = [sent EXCEPT ![i] = ~IsFull(command[i])]
    /\ command' = IF IsFull(command[i]) THEN command
                  ELSE [command EXCEPT ![i].item = c]

Continue(i, c) == IF c = "done" THEN End(i) ELSE Transmit(i, c)

(* the handler's first step: without a configuration it ends at once           *)
RunHandler(i) ==
    /\ handler[i] = "new"
    /\ \E c \in {"select", "done"} : Continue(i, c)
    /\ UNCHANGED <<current, response, post, operated, readerVars>>

PutCommand(i) ==
    /\ handler[i] \in Command
    /\ ~sent[i]
    /\ ~IsFull(command[i])
    /\ sent' = [sent EXCEPT ![i] = TRUE]
    /\ command' = [command EXCEPT ![i].item = handler[i]]
    /\ UNCHANGED <<current, handler, response, post, operated, readerVars>>

(* a success operates the bolt before the status is notified                   *)
ReceiveResponse(i) ==
    /\ sent[i]
    /\ IsFull(response[i])
    /\ response' = [response EXCEPT ![i] = Taken(@)]
    /\ \E c \in After(handler[i]) :
          /\ Continue(i, c)
          /\ operated' = [operated EXCEPT ![i] = @ \/ c = "notify"]
    /\ UNCHANGED <<current, post, readerVars>>

LoseTarget(i) ==
    /\ sent[i]
    /\ IsGone(response[i])
    /\ Continue(i, AfterGone(handler[i]))
    /\ UNCHANGED <<current, response, post, operated, readerVars>>
-----------------------------------------------------------------------------
(* the tasks of a target are over and nothing refers to it any more            *)
Unused(i) ==
    /\ i # current
    /\ handler[i] = "done"
    /\ \A p \in Post : post[p].target # i
    /\ holding \notin {i} \X Command

ShutCurrent_Forgotten == response
ShutCurrent == [i \in Interaction |-> IF i = current THEN Shut(response[i])
                                                     ELSE response[i]]

(* render_post with a new target, up to command.get                            *)
AnnounceTarget(p) ==
    /\ post[p] = Idle
    /\ \E i \in Interaction :
          /\ Unused(i)
          /\ current' = i
          /\ response' = [ShutCurrent EXCEPT ![i] = Open]
          /\ command' = [command EXCEPT ![i] = Open]
          /\ handler' = [handler EXCEPT ![i] = "new"]
          /\ operated' = [operated EXCEPT ![i] = FALSE]
          /\ post' = [post EXCEPT ![p] =
                        [state |-> "getting", target |-> i, item |-> None]]
    /\ awaited' = p
    /\ holding' = None
    /\ UNCHANGED sent

(* render_post with a response: answered PRECONDITION_FAILED without a target, *)
(* and waiting while the response queue is full                                *)
PutResponse(p, i, item) ==
    IF IsFull(response[i])
    THEN /\ post' = [post EXCEPT ![p] =
                       [state |-> "putting", target |-> i, item |-> item]]
         /\ UNCHANGED response
    ELSE /\ post' = [post EXCEPT ![p] =
                       [state |-> "getting", target |-> i, item |-> None]]
         /\ response' = [response EXCEPT ![i].item = item]

Respond(p) ==
    /\ post[p] = Idle
    /\ holding # None
    /\ orderly => awaited = None
    /\ IF current = None
       THEN awaited' = None /\ UNCHANGED <<response, post>>
       ELSE awaited' = p /\ PutResponse(p, current, holding)
    /\ holding' = IF orderly \/ current = None THEN None ELSE holding
    /\ UNCHANGED <<current, handler, sent, command, operated>>

(* the answer to p; an orderly reader only looks at the one it waits for        *)
Answer(p, item) ==
    /\ post' = [post EXCEPT ![p] = Idle]
    /\ IF p = awaited \/ ~orderly
       THEN awaited' = None /\ holding' = item
       ELSE UNCHANGED readerVars

(* a render_post whose response.put waited; it raises if the queue was shut    *)
ResumePut(p) ==
    LET i == post[p].target
    IN  /\ post[p].state = "putting"
        /\ ~IsFull(response[i])
        /\ IF response[i].shut
           THEN Answer(p, None) /\ UNCHANGED response
           ELSE PutResponse(p, i, post[p].item) /\ UNCHANGED readerVars
        /\ UNCHANGED <<current, handler, sent, command, operated>>

(* command.get: the answer is a command, or CHANGED when there is no more       *)
GetCommand(p) ==
    LET i == post[p].target
    IN  /\ post[p].state = "getting"
        /\ \/ /\ IsFull(command[i])
              /\ command' = [command EXCEPT ![i] = Taken(@)]
              /\ Answer(p, <<i, command[i].item>>)
           \/ IsGone(command[i]) /\ Answer(p, None) /\ UNCHANGED command
        /\ UNCHANGED <<current, handler, sent, response, operated>>

(* render_delete; the target is not removed when its transaction ends           *)
Delete ==
    /\ current # None
    /\ response' = ShutCurrent
    /\ current' = None
    /\ awaited' = None
    /\ holding' = None
    /\ UNCHANGED <<handler, sent, command, post, operated>>
-----------------------------------------------------------------------------
InteractInit ==
    /\ current = None
    /\ handler = [i \in Interaction |-> "done"]
    /\ sent = [i \in Interaction |-> FALSE]
    /\ command = [i \in Interaction |-> Shut(Open)]
    /\ response = [i \in Interaction |-> Shut(Open)]
    /\ post = [p \in Post |-> Idle]
    /\ operated = [i \in Interaction |-> FALSE]
    /\ awaited = None
    /\ holding = None
    /\ orderly \in BOOLEAN

Handler(i) ==
    /\ RunHandler(i) \/ PutCommand(i) \/ ReceiveResponse(i) \/ LoseTarget(i)
    /\ UNCHANGED orderly

Render(p) == (ResumePut(p) \/ GetCommand(p)) /\ UNCHANGED orderly

ReaderStep ==
    /\ Delete \/ \E p \in Post : AnnounceTarget(p) \/ Respond(p)
    /\ UNCHANGED orderly

InteractNext ==
    \/ \E i \in Interaction : Handler(i)
    \/ \E p \in Post : Render(p)
    \/ ReaderStep

InteractSpec == InteractInit /\ [][InteractNext]_interactVars

(* asyncio resumes every task that is ready; readers need not go on             *)
InteractFairSpec ==
    /\ InteractSpec
    /\ \A i \in Interaction : WF_interactVars(Handler(i))
    /\ \A p \in Post : WF_interactVars(Render(p))
-----------------------------------------------------------------------------
(* With a reader that takes turns, a handler never takes the response to        *)
(* another command, or to another target's, for the response to its own.        *)
ResponseFitsCommand ==
    orderly => \A i \in Interaction :
        IsFull(response[i]) => sent[i] /\ response[i].item = <<i, handler[i]>>

(* With a reader that takes turns, render_post never gets stuck on a queue:      *)
(* every POST is answered, the one of a target that was replaced or removed      *)
(* included.                                                                    *)
PostsAnswered ==
    \A p \in Post :
        orderly /\ post[p].state # "idle" ~> post[p].state = "idle"

(* The transaction of a target that was replaced or removed ends, so tasks and   *)
(* snapshots of credentials do not pile up.                                     *)
ReplacedEnd ==
    \A i \in Interaction :
        i # current /\ handler[i] # "done" ~> handler[i] = "done"

(* One target at a time may operate the bolt, once; a response that came before   *)
(* the next target was announced does not count after it.                        *)
Active == IF current # None /\ handler[current] # "done" THEN current ELSE None

Session == INSTANCE TargetSession WITH active <- Active

OneTargetAtATime == Session!Spec
=============================================================================
