-------------------------- MODULE MCDomainSecrets --------------------------
(* Three secrets in two namespaces, a domain with its wildcard and one     *)
(* without; chains that end with their first or their last certificate.    *)
EXTENDS DomainSecrets

MCSecretName  == {<<1, 1>>, <<1, 2>>, <<2, 1>>}
MCNamespace   == {1, 2, 3}
MCDomain      == {"a.x", "*.x", "b"}
MCWildcardOf  == [d \in MCDomain |-> IF d = "b" THEN NONE ELSE "*.x"]
MCAnnotations == {NONE, <<"a.x", "", "a.x">>, <<"*.x">>, <<"a.x", "b">>}
MCChains      == {NONE, <<>>, <<0, 4>>, <<4, 2>>, <<2, 4>>}

=============================================================================
