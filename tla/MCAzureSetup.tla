---------------------------- MODULE MCAzureSetup ----------------------------
(* Instances of AzureSetup for TLC. *)
EXTENDS AzureSetup

Setup(defaults, addins, humans) ==
  [defaults |-> defaults, addins |-> addins, ownKey |-> FALSE, canary |-> TRUE,
   humans |-> humans, writeOnly |-> FALSE]

\* steps: 1 a default one, 2 Azure ML, 3 an add-in
MCLanes == {[Setup(d, a, FALSE) EXCEPT !.canary = FALSE] : d \in BOOLEAN, a \in {{}, {2}, {2, 3}}}
MCSecondPhase ==
  {Setup(FALSE, {}, h) : h \in BOOLEAN}
    \cup {[Setup(FALSE, {3}, TRUE) EXCEPT !.canary = FALSE, !.ownKey = TRUE],
          [Setup(FALSE, {3}, TRUE) EXCEPT !.writeOnly = TRUE]}
MCConfigs(n) == MCLanes \cup MCSecondPhase
MCMachineLearning(n) == {Setup(FALSE, a, FALSE) : a \in {{}, {2}}}
=============================================================================
