------------------------------ MODULE Kruskal ------------------------------
(***************************************************************************)
(* ami-suite/kruskal: kruskal(g, mst, par, len), which has its branch on    *)
(* "are the two roots equal" replaced by masked instructions (Molnar's      *)
(* method).  One action is one pass of the loop over the edges; the two     *)
(* inner loops that walk to a root are part of it.                          *)
(***************************************************************************)
EXTENDS AmiRoutines

CONSTANTS
  Vertex,     (* vertices of the input graphs                              *)
  EdgeLists   (* inputs: sequences of pairs of vertices, cheapest first    *)

(* The vertices index par, which has as many elements as g: the caller has   *)
(* to give enough edges for its vertices.                                    *)
ASSUME KruskalAssumption ==
  /\ Vertex \subseteq Nat
  /\ EdgeLists \subseteq Seq(Vertex \X Vertex)
  /\ \A edges \in EdgeLists, v \in Vertex : v <= 2 * Len(edges)

VARIABLES
  edges,  (* g, without its first element, which is not read                *)
  len,    (* the parameter, Len(g)                                          *)
  par,    (* par[v]: v's parent, a root is its own                          *)
  mst,    (* the result                                                     *)
  taken,  (* a4: edges of the forest                                        *)
  i,      (* a5: position in g of the next edge; 0 before the loop          *)
  result  (* a0 on return, -1 before                                        *)

kruskalVars == <<edges, len, par, mst, taken, i, result>>

NoResult == -1

(* The arrays are static: zero before the first call.                        *)
KruskalInit ==
  /\ edges \in EdgeLists
  /\ len = 2 * Len(edges) + 1
  /\ par = [v \in 0 .. len - 1 |-> 0]
  /\ mst = [k \in 0 .. len - 1 |-> 0]
  /\ taken = 0 /\ i = 0 /\ result = NoResult

(* The first loop, and the branches behind it.                               *)
ClearArrays ==
  /\ i = 0 /\ result = NoResult
  /\ mst' = [k \in 0 .. len - 1 |-> -1]
  /\ par' = [v \in 0 .. len - 1 |-> v]
  /\ i' = 1
  /\ UNCHANGED <<edges, len, taken, result>>

(* The walk "until the parent is the same": len steps reach a root if there  *)
(* is one.                                                                   *)
Root(v) ==
  LET walk[step \in 0 .. len] == IF step = 0 THEN v ELSE par[walk[step - 1]]
  IN  walk[len]

WalkEnds(v) == par[Root(v)] = Root(v)

(* The condition of the branch, between roots and not between the vertices.  *)
VerticesDiffer(edge) == edge[1] # edge[2]

Differ(edge) == Root(edge[1]) # Root(edge[2])

(* The pass as the instructions have it.  differ is the true mask.           *)
(* t1 is loaded again from par for the rejected edge, so that the store      *)
(* changes nothing, and then counted down with a7.                           *)
TakeEdge ==
  /\ i # 0 /\ i < len /\ result = NoResult
  /\ LET k  == (i + 1) \div 2
         a7 == Root(edges[k][1])
         t1 == Root(edges[k][2])
         differ == Differ(edges[k])
         stored == Masked(differ, t1, par[a7])
     IN  /\ WalkEnds(edges[k][1]) /\ WalkEnds(edges[k][2])
         /\ par' = [par EXCEPT ![a7] = stored]
         /\ taken' = Masked(differ, taken + 1, taken)
         /\ mst' = [mst EXCEPT ![i]     = Masked(differ, a7, a7 - 1),
                               ![i + 1] = Masked(differ, stored, stored - 1)]
  /\ i' = i + 2
  /\ UNCHANGED <<edges, len, result>>

Return ==
  /\ i >= len /\ result = NoResult
  /\ mst' = [mst EXCEPT ![0] = taken]
  /\ result' = taken
  /\ UNCHANGED <<edges, len, par, taken, i>>

KruskalNext == ClearArrays \/ TakeEdge \/ Return

-----------------------------------------------------------------------------
(* Edges behind the loop's position.                                         *)
Done == IF i = 0 THEN {} ELSE {edges[k] : k \in 1 .. (i - 1) \div 2}

(* Two vertices are connected if no set that is closed under the edges       *)
(* separates them.                                                           *)
Connected(E, u, v) ==
  \A S \in SUBSET Vertex :
    /\ u \in S
    /\ \A e \in E : e[1] \in S <=> e[2] \in S
    => v \in S

Components(E) == {{v \in Vertex : Connected(E, u, v)} : u \in Vertex}

(* The edges taken are a spanning forest: as many as it has, and each joins  *)
(* what the edges taken before it leave apart.  mst names them by roots: par *)
(* is a forest whose trees are the components of the edges seen so far, each *)
(* walk ends, and at the same root for connected vertices alone.             *)
SpanningForest ==
  LET accepted == {k \in 1 .. (i - 1) \div 2 : ~ Connected({edges[j] : j \in 1 .. k - 1},
                                                          edges[k][1], edges[k][2])}
  IN  i # 0 =>
        /\ \A u, v \in Vertex :
             WalkEnds(u) /\ (Root(u) = Root(v) <=> Connected(Done, u, v))
        /\ taken = Cardinality(Vertex) - Cardinality(Components(Done))
        /\ taken = Cardinality(accepted)
        /\ \A k \in accepted :
             LET root == mst[2 * k - 1]
             IN  /\ root # mst[2 * k]
                 /\ Connected({edges[j] : j \in 1 .. k - 1}, root, edges[k][1])
                 /\ Connected({edges[j] : j \in 1 .. k - 1}, mst[2 * k], edges[k][2])
        /\ result # NoResult => result = taken /\ mst[0] = taken
=============================================================================
