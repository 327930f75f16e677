----------------------------- MODULE MCVtParser -----------------------------
EXTENDS VtParser
\* Control sequences; DCS strings; OSC and other strings; UTF-8 text.  In each, a
\* byte or more of every class that the table tells apart where it matters.
MCControls == {7, 24, 27, 36, 49, 58, 59, 63, 91, 113, 127, 133, 155, 195}
MCDevice   == {24, 27, 36, 43, 63, 80, 113, 127, 133, 156}
MCSystem   == {7, 24, 27, 80, 88, 91, 93, 127, 133, 144, 156, 157, 158, 195}
MCText     == {7, 24, 27, 127, 128, 143, 144, 155, 159, 160, 191, 193, 195, 224, 237, 239,
               240, 244, 255}
MCRepertoires == {MCControls, MCDevice, MCSystem, MCText}
=============================================================================
