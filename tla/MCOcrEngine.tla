----------------------------- MODULE MCOcrEngine -----------------------------
EXTENDS OcrEngine

Shapes == {<<1, 2>>, <<2, 2>>, <<2, 1>>}
Corners == {<<0, 0>>, <<0, 2>>, <<1, 1>>, <<1, 0>>, <<2, 0>>}

\* The i-th region reads as i, i unless it is blank, unclear or has a symbol
\* outside of ASCII.
Region(i, corner, shape, mark) ==
    [y |-> corner[1], x |-> corner[2], w |-> shape[1], h |-> shape[2],
     steps |-> CASE mark = "blank"   -> <<0, 0>>
                 [] mark = "foreign" -> <<i, 9>>
                 [] OTHER            -> <<i, i, 0, i>>,
     clear |-> mark # "unclear"]

\* Up to three regions anywhere, some without a text.
Anywhere ==
    UNION {{[i \in 1..n |-> Region(i, corner[i], <<i, 2>>, mark[i])] :
                corner \in [1..n -> Corners], mark \in [1..n -> {"text", "blank"}]} :
           n \in 0..3}

\* A row of four regions of any shapes, in two batches.
Row ==
    {[i \in 1..4 |-> Region(i, <<0, 4 - i>>, shape[i], IF i = last THEN "unclear" ELSE "text")] :
         shape \in [1..4 -> Shapes], last \in {0, 4}}

\* A column of three, one of them outside of ASCII.
Column ==
    {[i \in 1..3 |-> Region(i, <<4 * i, 0>>, <<2, 1>>, IF i = odd THEN "foreign" ELSE "text")] :
         odd \in 1..3}

MCImages == Anywhere \cup Row \cup Column
==============================================================================
