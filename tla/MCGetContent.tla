--------------------------- MODULE MCGetContent ---------------------------
(* Instances of GetContent for TLC. *)
EXTENDS GetContent, TLC

CONSTANTS pic, note, web, rel, host, folder, about1, image, doc

MCFiles == {pic, note}
MCRefs == MCFiles \cup {web, rel, host}
MCKind == [r \in MCRefs |-> CASE r = web -> "external" [] r = rel -> "home"
                              [] r = host -> "absolute" [] OTHER -> "dial"]
MCHomeUrl == [r \in {rel} |-> note]

\* The server of web states another type than its name has; note has no name to guess by.
MCGuess == [r \in MCRefs |-> IF r = note THEN NoType ELSE image]
MCServed == [r \in {web} |-> doc]

File(url, about) == [url |-> url, about |-> about]

MCHoldings == {{}, {pic}}

\* No contexts; a described file and the folder, which may hold it; the folder, described.
MCContextLists ==
  { <<>>, <<File(pic, about1), File(folder, Plain)>>, <<File(folder, about1)>> }

Upload(ref, type) == [ref |-> ref, type |-> type]
MCUploads ==
  { <<>>, <<Upload(pic, NoType)>>, <<Upload(note, image), Upload(web, NoType), Upload(host, NoType)>> }

=============================================================================
