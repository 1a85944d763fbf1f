----------------------------- MODULE MCPreamble -----------------------------
EXTENDS Preamble

\* A proxy that sends no line, a line with an address, and UNKNOWN.
MCHeaders == {<<>>, Line("ip1"), Line("UNKNOWN")}

\* Everything of up to three symbols, and that behind whole lines, half lines
\* and lines without a break.
Short(n) == UNION {[1..k -> {"P", "R", "S", "CR", "LF"}] : k \in 0..n}

MCMessages ==
    Short(3) \cup
    {a \o b : a \in {Prefix, Line("ip2"), Line("S"), Prefix \o <<"S", "S", "S", "S">>},
              b \in Short(2)}
=============================================================================
