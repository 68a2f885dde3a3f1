\* A reader and a card that select T=0 or T=1, resets and ends of buffers anywhere.
\* RST stays low past the end of a buffer or the supply is cut, a selection names
\* PPS1, and T=1 is selected before it is used.
CONSTANTS
  MaximumInformationSize = 254
  ATRs <- MCATRs
  Exchanges <- MCExchanges
  Blocks <- MCBlocks
  WarmResets = FALSE
  PlainPPS = FALSE
  ImplicitT1 = FALSE
SPECIFICATION Spec
INVARIANT FramesAreUnits
