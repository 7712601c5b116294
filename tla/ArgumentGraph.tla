---------------------------- MODULE ArgumentGraph ----------------------------
(***************************************************************************)
(* An argument graph: argument/graph_store.py, its endpoints in            *)
(* routers/argument.py, the extraction and the critique by a model, and    *)
(* the draft that argument/flatten_graph.py makes of it.                   *)
(*                                                                         *)
(* The store changes the graph in memory and then replaces its file, under *)
(* one lock: the file is a copy of the graph, or of an earlier one when    *)
(* that fails.  Extraction and critique wait for the model without the     *)
(* lock, and the user edits meanwhile.                                     *)
(***************************************************************************)
EXTENDS Naturals, FiniteSets

CONSTANTS
  NodeIds,     \* ids of nodes
  EdgeIds,     \* ids of edges
  NodeTypes,   \* the types of nodes in use, of the six there are
  NoGraph      \* the graph was deleted

VARIABLES
  graph,       \* _cache[gid]: nodes, edges, spans, issues
  extraction,  \* an extraction awaits the model
  critique     \* critiques that await the model: what the rules found

graphVars == <<graph, extraction, critique>>

Missing == "missing"
NoNode  == "nobody"
Unused  == <<>>

AllowedEdges ==
  { <<"supports", "grounds", "claim">>, <<"warrants", "warrant", "claim">>,
    <<"backs", "backing", "warrant">>, <<"qualifies", "qualifier", "claim">>,
    <<"rebuts", "rebuttal", "claim">>, <<"counters", "claim", "rebuttal">>,
    <<"counters", "grounds", "rebuttal">> }
Relations == {a[1] : a \in AllowedEdges}

(* Issues and spans are known by their nodes.                              *)
EmptyGraph == [nodes |-> [n \in NodeIds |-> Missing], edges |-> [e \in EdgeIds |-> Unused],
          spans |-> {}, issues |-> {}]

Present(g) == {n \in NodeIds : g.nodes[n] # Missing}
Edges(g)   == {g.edges[e] : e \in EdgeIds} \ {Unused}
Edge(r, s, t) == [rel |-> r, source |-> s, target |-> t]
Valid(g, e) == e.source # e.target /\ <<e.rel, g.nodes[e.source], g.nodes[e.target]>> \in AllowedEdges

ASSUME GraphAssumption == Missing \notin NodeTypes

GraphInit ==
  /\ graph = EmptyGraph
  /\ extraction = FALSE /\ critique = {}

-----------------------------------------------------------------------------
Edit(g) == graph # NoGraph /\ graph' = (g) /\ UNCHANGED <<extraction, critique>>

UpsertNode == \E n \in NodeIds, t \in NodeTypes : Edit([graph EXCEPT !.nodes[n] = t])

(* Mutant: only the edges that leave the node go with it.                  *)
WithoutOut(g, n) ==
  [nodes  |-> [g.nodes EXCEPT ![n] = Missing],
   edges  |-> [e \in EdgeIds |-> IF g.edges[e] # Unused /\ n = g.edges[e].source
                                   THEN Unused ELSE g.edges[e]],
   spans  |-> g.spans \ {n},
   issues |-> g.issues \ {n}]

Without(g, n) ==
  [nodes  |-> [g.nodes EXCEPT ![n] = Missing],
   edges  |-> [e \in EdgeIds |-> IF g.edges[e] # Unused /\ n \in {g.edges[e].source, g.edges[e].target}
                                   THEN Unused ELSE g.edges[e]],
   spans  |-> g.spans \ {n},
   issues |-> g.issues \ {n}]

DeleteNode ==
  /\ graph # NoGraph
  /\ \E n \in Present(graph) : Edit(Without(graph, n))

(* An edge of another id with the same ends and relation is a duplicate.   *)
UpsertEdge ==
  /\ graph # NoGraph
  /\ \E id \in EdgeIds, r \in Relations, s, t \in NodeIds :
       /\ Valid(graph, Edge(r, s, t))
       /\ \A other \in EdgeIds \ {id} : graph.edges[other] # Edge(r, s, t)
       /\ Edit([graph EXCEPT !.edges[id] = Edge(r, s, t)])

DeleteEdge == graph # NoGraph /\ \E id \in EdgeIds : Edit([graph EXCEPT !.edges[id] = Unused])

(* A span is added for whatever node the client names.                     *)
AddSpan    == graph # NoGraph /\ \E n \in NodeIds : Edit([graph EXCEPT !.spans = @ \cup {n}])
DeleteSpan == graph # NoGraph /\ \E n \in graph.spans : Edit([graph EXCEPT !.spans = @ \ {n}])

DeleteGraph == Edit(NoGraph)

-----------------------------------------------------------------------------
StartExtraction ==
  /\ graph # NoGraph /\ ~extraction
  /\ extraction' = TRUE
  /\ UNCHANGED <<graph, critique>>

(* The model's graph takes the place of nodes, edges and spans: nodes get  *)
(* new ids, edges the pairs do not allow are skipped.  The issues stay.    *)
NewNodes == NodeIds \ (Present(graph) \cup graph.spans \cup graph.issues)

ReplaceGraph ==
  /\ extraction /\ graph # NoGraph
  /\ extraction' = FALSE
  /\ \E types \in UNION {[new -> NodeTypes] : new \in SUBSET NewNodes}, id \in EdgeIds :
       LET nodes == [n \in NodeIds |-> IF n \in DOMAIN types THEN types[n] ELSE Missing]
           bare  == [EmptyGraph EXCEPT !.nodes = nodes, !.issues = graph.issues]
       IN \E edges \in SUBSET {e \in [rel : Relations, source : DOMAIN types, target : DOMAIN types] :
                                 Valid(bare, e)}, quoted \in SUBSET DOMAIN types :
            /\ Cardinality(edges) <= 1
            /\ graph' = ([bare EXCEPT !.spans = quoted,
                                   !.edges = IF edges = {} THEN @ ELSE [@ EXCEPT ![id] = CHOOSE e \in edges : TRUE]])
  /\ UNCHANGED critique

(* No answer, no JSON twice, or a KeyError of a graph that was deleted.    *)
ExtractionFails ==
  /\ extraction /\ extraction' = FALSE
  /\ UNCHANGED <<graph, critique>>

TargetsOf(g, r) == {e.target : e \in {f \in Edges(g) : f.rel = r}}
Sources(g, r) == {e.source : e \in {f \in Edges(g) : f.rel = r}}

Lacking(g) ==
  [ missing_grounds       |-> {n \in NodeIds : g.nodes[n] = "claim"} \ TargetsOf(g, "supports"),
    missing_warrant       |-> {n \in NodeIds : g.nodes[n] = "claim"} \ TargetsOf(g, "warrants"),
    missing_backing       |-> {n \in NodeIds : g.nodes[n] = "warrant"} \ TargetsOf(g, "backs"),
    unaddressed_rebuttal  |-> {n \in NodeIds : g.nodes[n] = "rebuttal"} \ TargetsOf(g, "counters"),
    unsupported_qualifier |-> {n \in NodeIds : g.nodes[n] = "qualifier"} \ Sources(g, "qualifies"),
    orphan |-> IF Cardinality(Present(g)) > 1
                 THEN Present(g) \ UNION {{e.source, e.target} : e \in Edges(g)} ELSE {} ]

StructuralCritique(g) == UNION {Lacking(g)[c] : c \in DOMAIN Lacking(g)}

StartCritique ==
  /\ graph # NoGraph /\ critique = {}
  /\ critique' = {StructuralCritique(graph)}
  /\ UNCHANGED <<graph, extraction>>

(* What the rules found, and the model's findings, whose nodes are looked  *)
(* up in the graph as it is now; the graph may have been deleted.          *)
SetIssues ==
  /\ critique # {}
  /\ critique' = {}
  /\ IF graph = NoGraph THEN UNCHANGED <<graph>>
     ELSE \E n \in Present(graph) \cup {NoNode} : graph' = ([graph EXCEPT !.issues = {n} \cup UNION critique])
  /\ UNCHANGED extraction

GraphNext ==
  \/ UpsertNode \/ DeleteNode \/ UpsertEdge \/ DeleteEdge \/ AddSpan \/ DeleteSpan \/ DeleteGraph
  \/ StartExtraction \/ ReplaceGraph \/ ExtractionFails \/ StartCritique \/ SetIssues

GraphSpec == GraphInit /\ [][GraphNext]_graphVars

-----------------------------------------------------------------------------
(* graph_to_sections: the nodes of the sections, claim by claim.           *)
Incoming(g, n, r) == {e.source : e \in {f \in Edges(g) : f.target = n /\ f.rel = r}} \cap Present(g)
Backed(g, ns) == ns \cup UNION {Incoming(g, n, "backs") : n \in ns}

Claims(g) == {n \in NodeIds : g.nodes[n] = "claim"}
ClaimSection(g, c) ==
  {c} \cup Backed(g, Incoming(g, c, "supports") \cup Incoming(g, c, "warrants"))
      \cup Incoming(g, c, "qualifies")
RebuttalSection(g, c) ==
  LET rs == Incoming(g, c, "rebuts") IN rs \cup UNION {Incoming(g, r, "counters") : r \in rs}

(* Mutant: what hangs on no edge, in place of what was not written yet.    *)
OrphansOnly(g) == Present(g) \ UNION {{e.source, e.target} : e \in Edges(g)}

Remaining(g) ==
  Present(g) \ UNION {ClaimSection(g, c) \cup RebuttalSection(g, c) : c \in Claims(g)}

GraphToSections(g) == IF Claims(g) = {} THEN {Present(g)} ELSE
  {ClaimSection(g, c) : c \in Claims(g)} \cup {RebuttalSection(g, c) : c \in Claims(g)} \cup {Remaining(g)}

-----------------------------------------------------------------------------
GraphType ==
  [nodes : [NodeIds -> NodeTypes \cup {Missing}],
   edges : [EdgeIds -> [rel : Relations, source : NodeIds, target : NodeIds] \cup {Unused}],
   spans : SUBSET NodeIds, issues : SUBSET (NodeIds \cup {NoNode})]

(* Types of the state.                                                     *)
GraphTypeOK ==
  /\ graph \in GraphType \cup {NoGraph}
  /\ extraction \in BOOLEAN /\ critique \subseteq SUBSET NodeIds

(* An edge joins two different nodes of the graph, whatever is deleted,    *)
(* or extracted between.                                                   *)
EdgesJoinNodes ==
  \A g \in {graph} \ {NoGraph} : \A e \in Edges(g) :
    e.source # e.target /\ {e.source, e.target} \subseteq Present(g)

(* The draft has every node of the graph, as no edge may keep one out of   *)
(* the sections: a claim answered by a claim, a node whose type changed.   *)
DraftIsComplete == graph # NoGraph => Present(graph) \subseteq UNION GraphToSections(graph)

(* "pairs allowed per relation": the types of an edge's ends.              *)
EdgesAllowed == graph # NoGraph => \A e \in Edges(graph) : Valid(graph, e)

(* "cascade: remove spans and issues linked to this node".                 *)
IssuesOfNodes == graph # NoGraph => graph.issues \subseteq Present(graph) \cup {NoNode}
=============================================================================
