-------------------------- MODULE MCReleaseOutputs --------------------------
(* A Release with an output of each kind.                                      *)
EXTENDS ReleaseOutputs

CONSTANTS app, cnx, ccnx, one, two

Output(c, values) == [object |-> c, contract |-> "db", values |-> values]
OneSchema == {{one, two, None}}
BothKinds == [r \in Releases |->
  {<<Output(cnx, one), Output(ccnx, one)>>, <<Output(cnx, two)>>}]
=============================================================================
