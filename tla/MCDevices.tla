------------------------------ MODULE MCDevices ------------------------------
EXTENDS Devices

\* The letter a, rubbing out, the line's end, and an arrow behind its prefix.
SmallKeyMap == 14 :> [low |-> Backspace, up |-> Backspace] @@ 28 :> [low |-> Newline, up |-> Newline]
               @@ 30 :> [low |-> 97, up |-> 65] @@ 72 :> [low |-> 0, up |-> 0]

SmallBanner  == <<Newline, Newline>>
SmallPrompt  == <<62>>
\* clear, something, and nothing, as for a line of spaces.
SmallOutputs == {[clear |-> TRUE, text |-> <<>>], [clear |-> FALSE, text |-> <<111, 111>>],
                 [clear |-> FALSE, text |-> <<>>]}

SmallScenarios ==
  {[keys |-> {30, 28, 14}, ups |-> {FALSE}, events |-> 4, mouse |-> FALSE, packets |-> 0, calls |-> 0],
   [keys |-> {LeftShift, RightShift, 256 + 72}, ups |-> BOOLEAN, events |-> 4, mouse |-> FALSE, packets |-> 0, calls |-> 0],
   [keys |-> {LeftShift, CapsLock, 30}, ups |-> BOOLEAN, events |-> 3, mouse |-> FALSE, packets |-> 0, calls |-> 0],
   [keys |-> {RightShift}, ups |-> BOOLEAN, events |-> 2, mouse |-> TRUE, packets |-> 1, calls |-> 0],
   [keys |-> {30}, ups |-> {FALSE}, events |-> 1, mouse |-> TRUE, packets |-> 2, calls |-> 0],
   [keys |-> {}, ups |-> {}, events |-> 0, mouse |-> FALSE, packets |-> 0, calls |-> 2]}

SmallPackets ==
  {[left |-> TRUE, dx |-> 1, dy |-> 127, over |-> FALSE],
   [left |-> FALSE, dx |-> -2, dy |-> -1, over |-> FALSE],
   [left |-> TRUE, dx |-> -1, dy |-> 0, over |-> TRUE]}

SmallContents == {<<1, 2>>, <<3, 4>>}
==============================================================================
