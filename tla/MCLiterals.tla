------------------------------ MODULE MCLiterals -------------------------------
(* Short texts of all kinds, and long ones chosen for what needs many symbols: numbers at the *)
(* limits of an integer of eight bits, and escapes of every kind, most from TokenizerTest.cpp. *)
EXTENDS Literals

Zero == 48
One == 49
Four == 52
Nine == 57
Letters == [a |-> 97, b |-> 98, f |-> 102, n |-> 110, o |-> 111, u |-> 117, w |-> 119, x |-> 120]
Hash == 35
Underscore == 95
Space == 32
LineFeed == 10

Strings(symbols, most) == UNION {[1 .. n -> symbols] : n \in 0 .. most}

\* A closing symbol behind each text.
Closed(texts, symbol) == {Append(t, symbol) : t \in texts}

SomeNumbers ==
    {<<50, 53, 53>>, <<50, 53, 54>>, <<Letters.x, Colon, Letters.f, Letters.f>>,
     <<Letters.x, Colon, Zero, Letters.f, Letters.f>>, <<Letters.o, Colon, 51, 55, 55>>,
     <<Letters.b, Colon, Minus, One, Period, Zero, One>>, <<Letters.x, Colon, Plus, 70>>,
     <<Letters.o, Colon, 56>>, <<Nine, Nine, Nine, Nine>>}

SomeStrings ==
    {<<Backslash, Letters.x, 54, 50, Letters.f, 51>>,
     <<Backslash, One, Letters.x, Four, Backslash, Letters.a, Four, One>>,
     <<Backslash, One, Letters.x, 54, 50>>,
     <<Backslash, Four, Letters.x, 54, 50, Letters.f, 51>>,
     <<Backslash, Letters.x, Letters.f, Letters.f>>,
     <<Backslash, 51, 51, Letters.b, One>>, <<Backslash, Nine, Letters.x, One>>,
     <<Backslash, Letters.a, Four, One>>, <<Backslash, Letters.a, 55, Letters.f>>,
     <<Backslash, Letters.a, 56, Zero>>, <<Backslash, 50, Letters.a, 55, Letters.f>>,
     <<Backslash, Letters.w, 56, Zero>>, <<Backslash, Letters.w, 56, 100>>,
     <<Backslash, Letters.w, 55, Letters.f>>, <<Backslash, 50, Letters.w, 56, Zero>>,
     <<Backslash, Letters.b, Zero, One, Zero, One, Zero, One, Zero, One>>,
     <<Backslash, Four, Letters.b, Zero, One, Zero, One, Zero>>,
     <<Backslash, Letters.u, Zero, Zero, Letters.b, Nine>>,
     <<Backslash, 53, Letters.u, One, Letters.f, Nine, One, 51>>,
     <<Backslash, 54, Letters.u, 50, Zero, Zero, Zero, Zero, Zero>>,
     <<Backslash, Letters.x, Zero, Space>>, <<Backslash, Letters.x, Zero, 103>>,
     <<Backslash, Letters.n, Space, Backslash, Letters.n>>}

MCNumericTexts ==
    Closed(SomeNumbers \cup Strings({Zero, One, Letters.x, Letters.b, Colon, Minus, Period}, 4)
           \cup Strings({Nine, Letters.f, Underscore, Space, 61}, 2), Hash)

MCStringTexts ==
    Closed(SomeStrings \cup Strings({One, Letters.x, Letters.n, Backslash, DoubleQuotes, LineFeed}, 4),
           DoubleQuotes)
=============================================================================
