------------------------------ MODULE MC_Bitcoind ------------------------------
(* Every combination of inputs, on both platforms, with and without the   *)
(* benchmark block; and the one input on which zend should start.         *)
EXTENDS Bitcoind

MCEnvironments == EnvironmentType

ValidStart ==
    {[help |-> FALSE, dataDirExists |-> TRUE, conf |-> "present", paramsOk |-> TRUE,
      commandLine |-> FALSE, daemon |-> FALSE, forkOk |-> TRUE, appInit2 |-> "ok"]}
==============================================================================
