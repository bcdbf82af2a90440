\* Two sources, one list longer than MaxSources, a window of three turns and
\* ticks 0..6: every mark pattern inside, at and past the end of the window.
CONSTANTS
  Lookahead = 3
  MaxSources = 2
  Source = {a, b}
  Tick = {0, 1, 2, 3, 4, 5, 6}
SPECIFICATION Spec
INVARIANTS TypeOK FrontierInv
PROPERTIES ReadyStable ImplementsAbs
