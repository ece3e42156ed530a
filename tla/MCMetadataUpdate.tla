-------------------------- MODULE MCMetadataUpdate --------------------------
EXTENDS MetadataUpdate
CONSTANTS main, contrib, sid, mainIndex, contribIndex, translation
SidOf == (main :> sid) @@ (contrib :> sid)
Indexes == (main :> <<mainIndex, translation>>) @@ (contrib :> <<contribIndex>>)
Contents == (mainIndex :> <<1, 2>>) @@ (contribIndex :> <<1, 2>>) @@ (translation :> <<1, 2>>)
AllVariants == <<"diff", "compressed", "plain">>
\* The release file lists plain indexes too, but the server has one of them only.
AllOffered == {<<kind, sid>> : kind \in ReleaseKind} \cup {<<kind, mainIndex>> : kind \in VariantKind}
  \cup {<<"compressed", contribIndex>>, <<"plain", translation>>}
AllOptions == {{"diffs", "index of index", "cleanup", "checks"}}
AllSources == {{main, contrib}, {main}}
=============================================================================
