--------------------------- MODULE FileArguments ---------------------------
(***************************************************************************)
(* References to files in the arguments of a tool: how a url is classified *)
(* (classify_url) and what _FileArgumentTransformer puts in the place of a *)
(* reference file:{prefix}::{url}.                                         *)
(*                                                                         *)
(* A url is a name; Parts says what the classification sees of it.         *)
(***************************************************************************)
EXTENDS Naturals, Sequences

CONSTANTS
  Parts,     \* of each url: its start, scheme, host and segments
  DialHost   \* the host of DIAL Core

Urls == DOMAIN Parts

(* is_appdir_relative: segments of good names, and perhaps a slash at the end. *)
AppdirRelative(path) ==
  LET names == IF Len(path) > 0 /\ path[Len(path)] = "empty"
                 THEN SubSeq(path, 1, Len(path) - 1) ELSE path
  IN names # <<>> /\ \A i \in DOMAIN names : names[i] = "name"

(* classify_url *)
Scheme(u) ==
  LET p == Parts[u] IN
  IF p.files \/ (p.scheme = "http" /\ p.host = DialHost) THEN "dial"
  ELSE IF p.scheme = "http" /\ p.host # "none" THEN "external"
  ELSE IF p.scheme = "none" /\ AppdirRelative(p.segments) THEN "appdir"
  ELSE "unsupported"

(* The prefixes whose file is loaded; url:: only loses its prefix. *)
Loading == {"data", "base64", "text"}

(* file: with another prefix, or with none, is no reference. *)
FilePrefixes == Loading \cup {"plain", "url", "unknown"}

References == [prefix : FilePrefixes, url : Urls]

(* What stands in the place of a loaded file, seen as a url: a data: url, a text of letters
   and slashes, or whatever the file says. *)
Inlined(prefix) ==
  {u \in Urls :
     \/ prefix = "data" /\ ~Parts[u].files /\ Parts[u].scheme = "data"
     \/ prefix = "base64" /\ Parts[u].scheme = "none"
     \/ prefix = "text"}

(* FileLoaderService: the urls it has a way to load. *)
Loadable(u) == Scheme(u) \in {"dial", "external"}

=============================================================================
