--------------------------- MODULE MCGatewayStream ---------------------------
(* Small instances of GatewayStream.  Requests meet in the pool only, so one *)
(* run takes two shapes, chosen at the start: a crowd of native chat streams *)
(* that contend for slots and complete, or one request alone, on any route   *)
(* and with everything that can happen to it.                                *)
EXTENDS GatewayStream

VARIABLE crowd

shapeVars == <<crowd, vars>>

Lead == CHOOSE r \in Request : TRUE

ShapeInit ==
  /\ crowd \in BOOLEAN
  /\ Init
  /\ \A r \in Request : crowd \/ r # Lead => route[r] = "native_chat"

(* A step of a request that is there.                                        *)
Taking(r, Step) == (crowd \/ r = Lead) /\ Step /\ UNCHANGED crowd

ShapeNext ==
  \E r \in Request :
    /\ \/ Taking(r, Going(r)) \/ Taking(r, Lost(r))
       \/ \E e \in Sent : Taking(r, Chunk(r, e)) \/ Taking(r, Collect(r, e))
    /\ crowd => said'[r] \subseteq {"completed"}

(* The fairness of GatewayStream, for the requests that are there.           *)
ShapeSpec ==
  /\ ShapeInit /\ [][ShapeNext]_shapeVars
  /\ \A r \in Request :
       WF_shapeVars(Taking(r, Going(r))) /\ SF_shapeVars(Taking(r, SourceEnds(r)))
=============================================================================
