----------------------------- MODULE MCStorage -----------------------------
(* Configurations for Storage: the one of trpc_go.yaml, its neighbours, and *)
(* a server that has moved to another name.                                 *)
EXTENDS Storage, TLC

CONSTANTS w1, w2

MCWorkers  == {w1, w2}
MCSymmetry == Permutations(MCWorkers)

Config(driver, keys, prefix, names) ==
  [driver |-> driver, keys |-> keys, urlPrefix |-> prefix, domains |-> names]

MCConfigs ==
  { Config("", FALSE, <<"static", "uploads">>, {"old"}),
    Config("local", TRUE, <<"static">>, {"old", "new"}),
    Config("local", FALSE, << >>, {"new"}),
    Config("cos", TRUE, <<"static", "uploads">>, {"old", "new"}),
    Config("cos", FALSE, <<"static", "uploads">>, {"new"}) }
=============================================================================
