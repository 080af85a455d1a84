------------------------------ MODULE MCSecurity ------------------------------
(* Values of the constants of Security for model checking. *)
EXTENDS Security

CONSTANTS client, meter

\* Words of two bits, in a cipher of four rounds with tables that mix them.
Number(w) == CHOOSE n \in 0 .. 3 : Word(n) = w
MCT      == [w \in Words |-> Word((Number(w) * Number(w) + Number(w) + 1) % 4)]
MCTPrime == [w \in Words |-> Word((3 * Number(w) + 2) % 4)]
MCSubRot == [w \in Words |-> Word((Number(w) + 3) % 4)]
MCFK   == [i \in 1 .. 4 |-> Word((3 * i) % 4)]
MCCK   == [i \in 1 .. Rounds |-> Word((3 * i + 1) % 4)]
MCRCON == [i \in 1 .. Rounds |-> Word(i % 4)]

W(numbers) == [i \in 1 .. Len(numbers) |-> Word(numbers[i])]

MCTitle == [e \in Ends |-> IF e = client THEN W(<<1, 2>>) ELSE W(<<1, 3>>)]
MCMaster == W(<<0, 1, 3, 2>>)
MCLabel == [l \in {"ENC", "MAC"} |-> IF l = "ENC" THEN Word(1) ELSE Word(2)]

\* Installed keys are the same at both ends; what is behind them may not be.
MCInstalled ==
    LET with(tail) == [enc  |-> W(<<2, 3, 1, 1, 0, 0, 0, 0>>), auth |-> W(<<1, 0, 3, 2>> \o tail)]
    IN  [e \in Ends |-> IF e = client THEN {with(<<0, 0, 0, 0>>)}
                       ELSE {with(<<0, 0, 0, 0>>), with(<<2, 3, 0, 1>>)}]

Whole == <<W(<<1, 3, 0, 2>>), W(<<1, 3, 0, 2>>)>>
Odd   == <<W(<<1, 3, 0, 2>>), W(<<3, 1>>)>>
MCTexts == {<<>>, Whole, Odd}

Control(suite, flag) ==
    [suite |-> suite, authenticated |-> TRUE, encrypted |-> TRUE,
     broadcast_key |-> flag, compressed |-> FALSE]

Request(sender, method, texts, controls) ==
    [sender : {sender}, method : {method}, text : texts, sc : controls]

MCRequests ==
    Request(client, "encrypt", {Odd}, {Control(0, FALSE), Control(5, FALSE)})
    \cup Request(client, "encrypt", {<<>>}, {Control(5, TRUE)})
    \cup Request(client, "gmac", {Odd}, {Control(s, FALSE) : s \in {2, 3, 5, 18}})
    \cup Request(client, "ecb", {Whole}, {Control(5, TRUE)})
    \cup Request(client, "cbc", {Whole, Odd}, {Control(5, TRUE)})
    \cup Request(client, "ctr", {Odd}, {Control(5, TRUE)})
    \cup Request(meter, "gmac", {Whole}, {Control(2, TRUE)})
    \cup Request(meter, "encrypt", {Whole}, {Control(2, TRUE)})

==============================================================================
