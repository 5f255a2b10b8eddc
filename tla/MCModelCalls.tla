---------------------------- MODULE MCModelCalls ----------------------------
(***************************************************************************)
(* Instance of ModelCalls for TLC: every provider with and without a        *)
(* deployment name, Azure also with one between blanks and with nothing but *)
(* blanks, which may be its model too; no key, the provider's own, or all.  *)
(***************************************************************************)
EXTENDS ModelCalls, TLC

CONSTANTS d1, padded, blank

\* str.strip()
Strip == [d \in Deployments |-> CASE d = padded -> d1 [] d = blank -> Empty [] OTHER -> d]

EnvFiles ==
    {s \in LLMSettings : /\ s.keys \in {{}, {s.provider} \cap Keyed, Keyed}
                         /\ s.provider # "azure" => s.deployment \in {Empty, d1}
                         /\ s.model = blank => s.provider = "azure" /\ s.deployment = blank}

Symmetric == Permutations(Reqs)

=============================================================================
