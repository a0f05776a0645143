--------------------------------- MODULE MCSse ---------------------------------
EXTENDS Sse

\* Either event can come to outrank the other, the local one can be a one-shot,
\* and the global one can be sent to either hart.
WrittenAttrs == {<<"PRIORITY", 2>>, <<"CONFIG", 2>>, <<"PREFERRED_HART", 3>>}

\* The local event of hart 0, and the global one.
UsedEvents == {<<2, 0>>, <<3, NoHart>>}
================================================================================
