----------------------------- MODULE MCMrcCache -----------------------------
(* Two sets of modules; training the first one can end in two ways. *)
EXTENDS MrcCache

McTimings == {[dimms |-> "d1", run |-> 1], [dimms |-> "d1", run |-> 2],
              [dimms |-> "d2", run |-> 1]}
=============================================================================
