--------------------- MODULE MCServerManagerRefinement ---------------------
(* ServerManagerRefinement on the instances of MCServerManager.            *)
EXTENDS MCServerManager, ServerManagerRefinement
============================================================================
