-------------------------- MODULE MCConfiguration --------------------------
\* Instance of Configuration: blocks with up to four routes over three paths, and
\* every short sequence of marks and lines.
EXTENDS Configuration, SequencesExt

Item(key) == [key |-> key]
PortLine(s) == [key |-> "port", ports |-> s]
HostLine(ok) == [key |-> "host", valid |-> ok]
Pages(s) == [key |-> "error_pages", codes |-> s]
RouteLine(p, r) == [key |-> "route", valid |-> TRUE, path |-> p, redirects |-> r]

Block(lines) == <<Item("SERVER")>> \o lines \o <<Item("]")>>
Listening == <<PortLine(<<2, 3>>), HostLine(TRUE)>>
RouteLines(paths) == {RouteLine(p, r) : p \in paths, r \in {<<>>} \cup {<<t>> : t \in paths}}

Lines ==
  {Item("SERVER"), Item("["), Item("]"), Item("other"), [key |-> "server_names", valid |-> TRUE],
   PortLine(<<2>>), PortLine(<<1>>), PortLine(<<3, 3>>), HostLine(TRUE), HostLine(FALSE),
   Pages(<<404, 510>>), Pages(<<500, 511>>), Pages(<<200>>), [RouteLine("/a", <<>>) EXCEPT !.valid = FALSE]}

MCFiles ==
  {Block(Listening \o routes) : routes \in BoundedSeq(RouteLines({"/a", "/b", "/c"}), 3)}
  \cup {Block(Listening \o routes) : routes \in BoundedSeq(RouteLines({"/a", "/b"}), 4)}
  \cup {Block(Listening \o <<RouteLine("/a", r), RouteLine("/b", <<"/a">>)>>) : r \in BoundedSeq({"/b", "/c"}, 2)}
  \cup BoundedSeq(Lines, 4)
  \cup {Block(Listening) \o s : s \in BoundedSeq(Lines, 2)}
  \cup {Block(Listening) \o s \o Block(Listening) : s \in BoundedSeq(Lines, 2)}
  \cup {Block(s \o Listening \o t) : s \in BoundedSeq(Lines, 1), t \in BoundedSeq(Lines, 1)}
=============================================================================
