\* Two requests side by side, again and again: both for a song and its video,
\* or both for lyrics.
SPECIFICATION FairSpec
CONSTANTS
  x = x
  y = y
  us = us
  jp = jp
  Inst = {x, y}
  Region = {us, jp}
  RegionOf <- MCRegionOf
  Speaks = {jp}
  Worlds <- MCWorlds
  Snapshots = {{}, {x, y}}
  Req = {p, q}
  Workers = 1
  None = None
INVARIANTS TypeOK RememberedIsTrue SelectionExact LanguagePreferred
PROPERTIES VideosForWantOfSongs SelectionEnds
