------------------------------ MODULE Routing ------------------------------
(***************************************************************************)
(* From the URI of a request line to a path of the file system:            *)
(* validateURI, decodeAndNormalize, normalize and RouteURI of              *)
(* src/src/http/HttpRequest.cpp.  Each round of their loops is a step.     *)
(*                                                                         *)
(* A text is a sequence of symbols.  An escape (%2e) is one symbol until   *)
(* decode replaces it by the character it stands for.                      *)
(***************************************************************************)
EXTENDS Integers, Sequences, SequencesExt

CONSTANTS
  URIs,       \* [absolute |-> it has a scheme, text |-> what follows, up to "?"]
  Character,  \* what decoded texts and roots consist of; "/" and "." are in it
  Meaning,    \* symbol |-> the character decode makes of it; Bad symbols have none
  Bad,        \* symbols decode refuses: no URI character, or a bad escape
  MaxURI,     \* longest URI (2048)
  RouteMaps   \* the possible maps of routes: key |-> root

ASSUME RoutingAssumption ==
  /\ {"/", "."} \subseteq Character
  /\ Meaning \in [DOMAIN Meaning -> Character] /\ DOMAIN Meaning \cap Bad = {}
  /\ \A u \in URIs : u.absolute \in BOOLEAN /\ u.text \in Seq(DOMAIN Meaning \cup Bad)
  /\ "/" \in DOMAIN Meaning /\ Meaning["/"] = "/"
  /\ MaxURI \in Nat
  /\ \A routes \in RouteMaps : \A k \in DOMAIN routes :
       Len(k) > 0 /\ k[1] = "/" /\ k \in Seq(Character) /\ routes[k] \in Seq(Character)

VARIABLES
  pc,         \* the loop the parser is in
  uri,        \* the URI as it was sent
  rest,       \* what the loop's istringstream still holds
  decoded,    \* decodedAndNormalized
  segments,   \* normalizedSegments
  slash,      \* hasTrailingSlash
  uriPath,    \* the path, normalised and then rewritten
  routes,     \* the routes of the server
  toCompare,  \* keys the loop over the routes has not seen
  routeKey,   \* the longest match so far
  status      \* status thrown, 0 if none

vars == <<pc, uri, rest, decoded, segments, slash, uriPath, routes, toCompare, routeKey, status>>

(***************************************************************************)
(* Texts                                                                   *)
(***************************************************************************)
\* getline(iss, segment, '/') takes what is before the first slash, or all there is,
\* and that slash.
Cuts(s) == {n \in 1..(Len(s) + 1) : (\A i \in 1..(n - 1) : s[i] # "/") /\ (n <= Len(s) => s[n] = "/")}
Before(s, n) == SubSeq(s, 1, n - 1)
After(s, n) == SubSeq(s, n + 1, Len(s))

Dot == <<".">>
DotDot == <<".", ".">>

Throw(code) == pc' = "done" /\ status' = code

(***************************************************************************)
(* validateURI                                                             *)
(***************************************************************************)
\* A URI with a scheme loses the scheme and its two slashes: the host is the first
\* segment.  hasTrailingSlash reads the character before an empty text.
ValidateURI ==
  /\ pc = "validateURI"
  /\ CASE uri.text = <<>> /\ ~uri.absolute -> Throw(400) /\ UNCHANGED <<rest, slash>>
       [] Len(uri.text) > MaxURI -> Throw(414) /\ UNCHANGED <<rest, slash>>
       [] Len(uri.text) \in 1..MaxURI /\ ~uri.absolute /\ uri.text[1] # "/" -> Throw(400) /\ UNCHANGED <<rest, slash>>
       [] OTHER ->
            /\ rest' = uri.text
            /\ IF uri.text = <<>> THEN slash' \in BOOLEAN ELSE slash' = (Last(uri.text) = "/")
            /\ pc' = "decode" /\ UNCHANGED status
  /\ UNCHANGED <<uri, decoded, segments, uriPath, routes, toCompare, routeKey>>

(***************************************************************************)
(* decodeAndNormalize and decode                                           *)
(***************************************************************************)
decode(segment) == [i \in DOMAIN segment |-> Meaning[segment[i]]]

DecodeSegment ==
  /\ pc = "decode" /\ rest # <<>>
  /\ \E n \in Cuts(rest) :
       /\ IF \E i \in 1..(n - 1) : rest[i] \in Bad
          THEN Throw(400) /\ UNCHANGED decoded
          ELSE decoded' = decoded \o <<"/">> \o decode(Before(rest, n)) /\ UNCHANGED <<pc, status>>
       /\ rest' = After(rest, n)
  /\ UNCHANGED <<uri, segments, slash, uriPath, routes, toCompare, routeKey>>

StartNormalize ==
  /\ pc = "decode" /\ rest = <<>>
  /\ pc' = "normalize"
  /\ rest' = decoded
  /\ UNCHANGED <<uri, decoded, segments, slash, uriPath, routes, toCompare, routeKey, status>>

(***************************************************************************)
(* normalize                                                               *)
(***************************************************************************)
\* Variant: ".." at the root stays.
NormalizedAboveRoot(stack, segment) ==
  CASE segment = Dot -> stack
    [] segment = DotDot /\ stack # <<>> -> Front(stack)
    [] OTHER -> Append(stack, segment)
\* Variant: empty segments are not pushed.
NormalizedSkipsEmpty(stack, segment) ==
  CASE segment \in {Dot, <<>>} -> stack
    [] segment = DotDot -> IF stack = <<>> THEN stack ELSE Front(stack)
    [] OTHER -> Append(stack, segment)
\* An empty segment is pushed like a name.
Normalized(stack, segment) ==
  CASE segment = Dot -> stack
    [] segment = DotDot -> IF stack = <<>> THEN stack ELSE Front(stack)
    [] OTHER -> Append(stack, segment)

NormalizeSegment ==
  /\ pc = "normalize" /\ rest # <<>>
  /\ \E n \in Cuts(rest) : segments' = Normalized(segments, Before(rest, n)) /\ rest' = After(rest, n)
  /\ UNCHANGED <<pc, uri, decoded, slash, uriPath, routes, toCompare, routeKey, status>>

\* The segments that are not empty, each after a slash, or the root; the trailing
\* slash is put back, after the root too.
Joined(stack) == FlattenSeq([i \in DOMAIN stack |-> IF stack[i] = <<>> THEN <<>> ELSE <<"/">> \o stack[i]])
Normal(stack) == IF Joined(stack) = <<>> THEN <<"/">> ELSE Joined(stack)

JoinSegments ==
  /\ pc = "normalize" /\ rest = <<>>
  /\ uriPath' = Normal(segments) \o (IF slash THEN <<"/">> ELSE <<>>)
  /\ toCompare' = DOMAIN routes
  /\ pc' = "RouteURI"
  /\ UNCHANGED <<uri, rest, decoded, segments, slash, routes, routeKey, status>>

(***************************************************************************)
(* RouteURI                                                                *)
(***************************************************************************)
\* Variant: any match replaces the one before.
LongerAny(key, best) == TRUE
Longer(key, best) == Len(key) > Len(best)

CompareRoute ==
  /\ pc = "RouteURI"
  /\ \E key \in toCompare :
       /\ routeKey' = IF IsPrefix(key, uriPath) /\ Longer(key, routeKey) THEN key ELSE routeKey
       /\ toCompare' = toCompare \ {key}
  /\ UNCHANGED <<pc, uri, rest, decoded, segments, slash, uriPath, routes, status>>

\* The key at the front of the path is replaced by the route's root; without a route
\* the path stays what it is.  What exists there, and may be read, is HttpResponse's.
HasDotDot(s) == \E i \in 1..(Len(s) - 1) : s[i] = "." /\ s[i + 1] = "."
AfterKey(key, path) == SubSeq(path, Len(key) + 1, Len(path))
Rewritten(key, path) ==
  routes[key] \o (IF key = <<"/">> THEN <<"/">> ELSE <<>>) \o AfterKey(key, path)
RewritePath ==
  /\ pc = "RouteURI" /\ toCompare = {}
  /\ pc' = "done"
  /\ CASE routeKey = <<>> -> UNCHANGED <<uriPath, status>>
       [] routeKey # <<>> /\ HasDotDot(routes[routeKey]) -> status' = 403 /\ UNCHANGED uriPath
       [] OTHER -> uriPath' = Rewritten(routeKey, uriPath) /\ UNCHANGED status
  /\ UNCHANGED <<uri, rest, decoded, segments, slash, routes, toCompare, routeKey>>

Init ==
  /\ pc = "validateURI"
  /\ uri \in URIs
  /\ rest = <<>> /\ decoded = <<>> /\ segments = <<>> /\ uriPath = <<>>
  /\ slash = FALSE
  /\ routes \in RouteMaps
  /\ toCompare = {} /\ routeKey = <<>> /\ status = 0

Next ==
  \/ ValidateURI \/ DecodeSegment \/ StartNormalize \/ NormalizeSegment
  \/ JoinSegments \/ CompareRoute \/ RewritePath

Spec == Init /\ [][Next]_vars

(***************************************************************************)
(* Properties                                                              *)
(***************************************************************************)
Text == Seq(Character)

\* Every variable has its type.
TypeOK ==
  /\ pc \in {"validateURI", "decode", "normalize", "RouteURI", "done"}
  /\ routes \in RouteMaps
  /\ \A i \in DOMAIN segments : segments[i] \in Text
  /\ decoded \in Text
  /\ slash \in BOOLEAN
  /\ toCompare \subseteq DOMAIN routes /\ routeKey \in DOMAIN routes \cup {<<>>}
  /\ status \in {0, 400, 403, 414}

\* No segment that means "here" or "above" gets past normalize, however it was
\* written: escaped, doubled, behind empty segments or behind an escaped slash.
NoDotSegments == \A i \in DOMAIN segments : segments[i] \notin {Dot, DotDot}

\* A request that gets as far as the file system is served from the root of the
\* longest route its path begins with.
AfterRoot == SubSeq(uriPath, Len(routes[routeKey]) + 1, Len(uriPath))
BeforeRewriting == IF routeKey = <<"/">> THEN AfterRoot ELSE routeKey \o AfterRoot
Served == pc = "done" /\ status = 0 /\ routeKey # <<>>
ServedByLongestRoute ==
  Served =>
    /\ IsPrefix(routes[routeKey], uriPath)
    /\ \A key \in DOMAIN routes : IsPrefix(key, BeforeRewriting) => Len(key) <= Len(routeKey)
=============================================================================
