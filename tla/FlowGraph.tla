------------------------------ MODULE FlowGraph ------------------------------
(***************************************************************************)
(* How frames are pulled through a graph of flow-graph nodes: a node pulls *)
(* all its inputs, one after the other, before it processes; a count that  *)
(* the sink raises tells a new pull from one that comes round again by     *)
(* another branch, or by a cycle.  A buffered source is a node without     *)
(* inputs; every node pulls by itself (setDataPulledAutomatically).        *)
(***************************************************************************)
EXTENDS Integers, Sequences

CONSTANTS Graphs,  \* functions from 1 .. the sink to the inputs of each node: nodes, or Open
          Buffer,  \* frames of a port
          Largest, \* frames of a read, or put in a source
          MaxReads

Open == 0
None == -1
Lesser(a, b) == IF a =< b THEN a ELSE b

VARIABLES graph, lastCall, lastFrames, left,
          stack,     \* the calls of pullData that have not returned: [node, count, port, frames]
          answer,    \* what the last one returned
          wanted,    \* framesLeft of read
          processed, \* nodes that processed in this pull
          reads, put, given
vars == <<graph, lastCall, lastFrames, left, stack, answer, wanted, processed, reads, put, given>>

Nodes == DOMAIN graph
TheSink == Len(graph)
Sources == {n \in Nodes : graph[n] = <<>>}
Top == stack[Len(stack)]
Below == SubSeq(stack, 1, Len(stack) - 1)
Inputs == graph[Top.node]
Idle == wanted = 0 /\ stack = <<>>

Init ==
  /\ graph \in Graphs
  /\ lastCall = [n \in Nodes |-> -1] /\ lastFrames = [n \in Nodes |-> 0] /\ left = [n \in Nodes |-> 0]
  /\ stack = <<>> /\ answer = None /\ wanted = 0 /\ processed = {}
  /\ reads = 0 /\ put = 0 /\ given = 0

-----------------------------------------------------------------------------
(* Variant of PullData: the node does not remember the count. *)
PullDataForgotten(node, frames, count) ==
  IF count > lastCall[node]
    THEN /\ stack' = Append(stack, [node |-> node, count |-> count, port |-> 1, frames |-> frames])
         /\ answer' = None
         /\ UNCHANGED lastCall
    ELSE /\ answer' = lastFrames[node]
         /\ UNCHANGED <<lastCall, stack>>

(* FlowGraphNode::pullData up to its ports: a node that has this count, or *)
(* a later one, answers as it did last.                                    *)
PullData(node, frames, count) ==
  IF count > lastCall[node]
    THEN /\ lastCall' = [lastCall EXCEPT ![node] = count]
         /\ stack' = Append(stack, [node |-> node, count |-> count, port |-> 1, frames |-> frames])
         /\ answer' = None
    ELSE /\ answer' = lastFrames[node]
         /\ UNCHANGED <<lastCall, stack>>

(* FlowGraphSink::pullData, in the loop of read.                           *)
SinkPullData ==
  /\ wanted > 0 /\ stack = <<>> /\ answer = None
  /\ PullData(TheSink, wanted, lastCall[TheSink] + 1)
  /\ processed' = {}
  /\ UNCHANGED <<graph, lastFrames, left, wanted, reads, put, given>>

(* The next port is pulled, for what the ports before it left.             *)
InputPullData ==
  /\ stack # <<>> /\ answer = None /\ Top.port =< Len(Inputs)
  /\ LET input == Inputs[Top.port]
         frames == Lesser(Buffer, Top.frames)
     IN  IF input = Open
           THEN answer' = frames /\ UNCHANGED <<lastCall, stack>>
           ELSE PullData(input, frames, Top.count)
  /\ UNCHANGED <<graph, lastFrames, left, wanted, processed, reads, put, given>>

PortPulled ==
  /\ stack # <<>> /\ answer # None
  /\ stack' = Append(Below, [Top EXCEPT !.port = @ + 1, !.frames = answer])
  /\ answer' = None
  /\ UNCHANGED <<graph, lastCall, lastFrames, left, wanted, processed, reads, put, given>>

OnProcess(node, frames) == IF node \in Sources THEN Lesser(frames, left[node]) ELSE frames

Process ==
  /\ stack # <<>> /\ answer = None /\ Top.port > Len(Inputs)
  /\ LET node == Top.node
         frames == IF Top.frames > 0 THEN OnProcess(node, Top.frames) ELSE Top.frames
     IN  /\ left' = IF node \in Sources THEN [left EXCEPT ![node] = @ - frames] ELSE left
         /\ lastFrames' = [lastFrames EXCEPT ![node] = frames]
         /\ processed' = IF Top.frames > 0 THEN processed \cup {node} ELSE processed
         /\ answer' = frames
  /\ stack' = Below
  /\ UNCHANGED <<graph, lastCall, wanted, reads, put, given>>

(* read goes on until it has all, or a pull brings nothing.                *)
SinkPulled ==
  /\ stack = <<>> /\ answer # None
  /\ wanted' = IF answer =< 0 THEN 0 ELSE wanted - answer
  /\ given' = given + answer
  /\ answer' = None
  /\ UNCHANGED <<graph, lastCall, lastFrames, left, stack, processed, reads, put>>

-----------------------------------------------------------------------------
Read ==
  /\ Idle /\ answer = None /\ reads < MaxReads
  /\ wanted' \in 1 .. Largest /\ reads' = reads + 1
  /\ UNCHANGED <<graph, lastCall, lastFrames, left, stack, answer, processed, put, given>>

(* A source that is empty is given the next buffer.                        *)
SetData ==
  /\ Idle /\ answer = None /\ reads < MaxReads
  /\ \E s \in Sources, size \in 1 .. Largest :
       left[s] = 0 /\ left' = [left EXCEPT ![s] = size] /\ put' = put + size
  /\ UNCHANGED <<graph, lastCall, lastFrames, stack, answer, wanted, processed, reads, given>>

(* pullReset from the sink: what a node is asked while it resets its       *)
(* inputs it leaves to itself, so that all that the sink can reach are     *)
(* reset, once round a cycle.                                              *)
WithInputs(s) == \A n \in s : \A i \in DOMAIN graph[n] : graph[n][i] \in s \cup {Open}
Upstream == {n \in Nodes : \A s \in SUBSET Nodes : TheSink \in s /\ WithInputs(s) => n \in s}

PullReset ==
  /\ Idle /\ answer = None /\ reads < MaxReads
  /\ lastCall' = [n \in Nodes |-> IF n \in Upstream THEN -1 ELSE lastCall[n]]
  /\ lastFrames' = [n \in Nodes |-> IF n \in Upstream THEN 0 ELSE lastFrames[n]]
  /\ UNCHANGED <<graph, left, stack, answer, wanted, processed, reads, put, given>>

Next ==
  \/ Read \/ SetData \/ PullReset
  \/ SinkPullData \/ InputPullData \/ PortPulled \/ Process \/ SinkPulled

-----------------------------------------------------------------------------
(* Property.                                                               *)

(* A node without a way back to itself, fed by one source alone.           *)
Simple ==
  /\ \A n \in Nodes : \A i \in DOMAIN graph[n] : graph[n][i] < n /\ graph[n][i] # Open
  /\ Sources = {1}

Calls == DOMAIN stack

(* In one pull no node is asked to process twice, and none while it waits  *)
(* for itself, whatever the graph.  In a simple graph a node processes     *)
(* what each of its inputs made in this pull, no less and no more, and     *)
(* every frame of the source comes out once.                               *)
OncePerPull ==
  /\ \A i, j \in Calls : i # j => stack[i].node # stack[j].node
  /\ \A i \in Calls : stack[i].node \notin processed
  /\ Simple =>
       /\ stack # <<>> /\ answer = None /\ Top.port > Len(Inputs) =>
            \A i \in DOMAIN Inputs :
              lastCall[Inputs[i]] = lastCall[TheSink] /\ lastFrames[Inputs[i]] = Top.frames
       /\ Idle /\ answer = None => put = given + left[1]
=============================================================================
