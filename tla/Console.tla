------------------------------ MODULE Console ------------------------------
(***************************************************************************)
(* The framebuffer console (kconsole.c): the escape parser, the colours,   *)
(* the cursor, wrapping and scrolling, one character at a time.            *)
(*                                                                         *)
(* A cell of the screen is a character and its two colours.  A text is     *)
(* given with what it means: the numbers of the colour sequence at its     *)
(* start and the characters that are meant for the screen.  The ghost      *)
(* `page' is typed from the meaning alone, and never scrolls.              *)
(***************************************************************************)
EXTENDS Naturals, Sequences, SequencesExt

CONSTANTS
    Cols, Rows,     \* fb_cols, fb_rows
    NParams,        \* the size of esc_params
    ParamWidth,     \* 2^w, the values of a parameter
    Texts,          \* what may be written: [chars, sgr, ink]
    MaxTexts        \* bound: texts written in all

Control == {"esc", "cr", "lf", "bs", "nul"}
DigitChars == <<"0", "1", "2", "3", "4", "5", "6", "7", "8", "9">>

ASSUME ConsoleAssumption ==
    /\ Cols \in Nat \ {0} /\ Rows \in Nat \ {0} /\ NParams \in Nat \ {0}
    /\ ParamWidth \in Nat /\ ParamWidth > 107 /\ MaxTexts \in Nat

(* Colours: 0..15 of ansi_palette, whose first is bg_default; fg_default   *)
(* is not in the palette.                                                  *)
BgDefault == 0
FgDefault == 16
DefaultPen == [fg |-> FgDefault, bg |-> BgDefault]

VARIABLES
    screen,             \* the framebuffer, as cells
    cur_col, cur_row,
    pen,                \* fg_color, bg_color
    esc_state, esc_params, esc_nparam,
    todo,               \* what is left of the text being written
    page,               \* ghost: [lines, col, pen]
    nwritten

ConsoleVars == <<screen, cur_col, cur_row, pen, esc_state, esc_params, esc_nparam,
                 todo, page, nwritten>>

(* A blank shows the background only. *)
Cell(ch, p) == [ch |-> ch, fg |-> IF ch = " " THEN p.bg ELSE p.fg, bg |-> p.bg]
BlankLine(p) == [c \in 1..Cols |-> Cell(" ", p)]
BlankPage == [lines |-> <<BlankLine(DefaultPen)>>, col |-> 0, pen |-> DefaultPen]

(* kconsole_init and kconsole_clear. *)
ConsoleInit ==
    /\ screen = [r \in 1..Rows |-> BlankLine(DefaultPen)]
    /\ cur_col = 0 /\ cur_row = 0 /\ pen = DefaultPen
    /\ esc_state = "none" /\ esc_params = [k \in 0..(NParams - 1) |-> 0] /\ esc_nparam = 0
    /\ todo = <<>> /\ page = BlankPage /\ nwritten = 0

-----------------------------------------------------------------------------
(* What a text means *)

IsDigit(ch) == ch \in Range(DigitChars)
DigitValue(ch) == (CHOOSE i \in DOMAIN DigitChars : DigitChars[i] = ch) - 1

(* The numbers that digits and semicolons spell. *)
Spell(ns, ch) == IF ch = ";" THEN Append(ns, 0)
                 ELSE [ns EXCEPT ![Len(ns)] = @ * 10 + DigitValue(ch)]
Numbers(q) == FoldLeft(Spell, <<0>>, q)

(* Before what a text shows there may be a nul, an escape that starts no   *)
(* sequence, or one sequence whose numbers are in range.                   *)
Opening(t) == SubSeq(t.chars, 1, Len(t.chars) - Len(t.ink))
IsSequence(q) ==
    LET n == Len(q)
    IN  /\ n >= 3 /\ q[1] = "esc" /\ q[2] = "["
        /\ \A k \in 3..n : (IsDigit(q[k]) \/ q[k] = ";") <=> k < n
        /\ \A k \in 2..(n - 1) : \A x \in Range(Numbers(SubSeq(q, 3, k))) : x < ParamWidth
IsText(t) ==
    LET q == Opening(t)
        n == Len(q)
    IN  /\ t.chars \in Seq(STRING) /\ t.ink \in Seq(STRING) /\ Len(t.ink) <= Len(t.chars)
        /\ t.chars = q \o t.ink /\ Range(t.ink) \cap {"esc", "nul"} = {}
        /\ n = 0 \/ q = <<"nul">> \/ (n = 2 /\ q[1] = "esc" /\ q[2] # "[") \/ IsSequence(q)
        /\ t.sgr = IF n >= 3 /\ q[n] = "m" THEN Numbers(SubSeq(q, 3, n - 1)) ELSE <<>>

ASSUME TextsAssumption == \A t \in Texts : IsText(t)

(* One parameter of a colour sequence; bold brightens a normal colour. *)
ApplyParam(p, n) ==
    CASE n = 0 -> DefaultPen
      [] n = 1 /\ p.fg \in 0..7 -> [p EXCEPT !.fg = @ + 8]
      [] n \in 30..37 -> [p EXCEPT !.fg = n - 30]
      [] n \in 90..97 -> [p EXCEPT !.fg = n - 90 + 8]
      [] n \in 40..47 -> [p EXCEPT !.bg = n - 40]
      [] n \in 100..107 -> [p EXCEPT !.bg = n - 100 + 8]
      [] OTHER -> p

(* Of too many parameters the last takes the place of those in excess. *)
Honoured(ns) == IF Len(ns) <= NParams THEN ns ELSE SubSeq(ns, 1, NParams - 1) \o <<Last(ns)>>

(* A line that scrolls in has the background of that moment. *)
NewLine(pg) ==
    [pg EXCEPT !.col = 0,
               !.lines = Append(@, BlankLine(IF Len(@) < Rows THEN DefaultPen ELSE pg.pen))]
Ink(pg, k, ch) == [pg EXCEPT !.lines[Len(pg.lines)][k] = Cell(ch, pg.pen)]
TypeOn(pg, ch) ==
    CASE ch = "lf" -> NewLine(pg)
      [] ch = "cr" -> [pg EXCEPT !.col = 0]
      [] ch = "bs" -> IF pg.col = 0 THEN pg ELSE [Ink(pg, pg.col, " ") EXCEPT !.col = @ - 1]
      [] OTHER -> LET q == [Ink(pg, pg.col + 1, ch) EXCEPT !.col = @ + 1]
                  IN  IF q.col = Cols THEN NewLine(q) ELSE q

-----------------------------------------------------------------------------
(* cons_write: puts on the console, character by character. *)
cons_write(t) ==
    /\ todo = <<>> /\ nwritten < MaxTexts
    /\ todo' = t.chars
    /\ page' = FoldLeft(TypeOn, [page EXCEPT !.pen = FoldLeft(ApplyParam, @, Honoured(t.sgr))], t.ink)
    /\ nwritten' = nwritten + 1
    /\ UNCHANGED <<screen, cur_col, cur_row, pen, esc_state, esc_params, esc_nparam>>

(* kconsole_putc, while esc_state is not ESC_NONE *)

fb_apply_sgr(n) ==
    pen' = FoldLeft(ApplyParam, pen, [k \in 1..n |-> esc_params[k - 1]])

EscEsc(ch) ==
    /\ esc_state = "esc"
    /\ IF ch = "["
       THEN /\ esc_state' = "bracket" /\ esc_nparam' = 0
            /\ esc_params' = [esc_params EXCEPT ![0] = 0]
       ELSE esc_state' = "none" /\ UNCHANGED <<esc_params, esc_nparam>>
    /\ UNCHANGED <<screen, cur_col, cur_row, pen>>

EscDigit(ch) ==
    /\ esc_state = "bracket" /\ IsDigit(ch)
    /\ esc_params' = [esc_params EXCEPT ![esc_nparam] = (@ * 10 + DigitValue(ch)) % ParamWidth]
    /\ UNCHANGED <<screen, cur_col, cur_row, pen, esc_state, esc_nparam>>

EscSemi(ch) ==
    /\ esc_state = "bracket" /\ ch = ";"
    /\ esc_nparam' = IF esc_nparam < NParams - 1 THEN esc_nparam + 1 ELSE esc_nparam
    /\ esc_params' = [esc_params EXCEPT ![esc_nparam'] = 0]
    /\ UNCHANGED <<screen, cur_col, cur_row, pen, esc_state>>

(* Final bytes other than m are dropped. *)
EscFinal(ch) ==
    /\ esc_state = "bracket" /\ ~IsDigit(ch) /\ ch # ";"
    /\ esc_nparam' = esc_nparam + 1
    /\ IF ch = "m" THEN fb_apply_sgr(esc_nparam') ELSE UNCHANGED pen
    /\ esc_state' = "none"
    /\ UNCHANGED <<screen, cur_col, cur_row, esc_params>>

(* kconsole_putc, outside a sequence *)

fb_draw_glyph(col, row, ch) == [screen EXCEPT ![row + 1][col + 1] = Cell(ch, pen)]

(* Mutant: the last row keeps what it showed. *)
ScrollNoClear(s) == [r \in 1..Rows |-> IF r < Rows THEN s[r + 1] ELSE s[r]]

fb_scroll(s) == [r \in 1..Rows |-> IF r < Rows THEN s[r + 1] ELSE BlankLine(pen)]

(* To the next row of a screen s. *)
Down(s) ==
    /\ cur_col' = 0
    /\ IF cur_row + 1 >= Rows THEN screen' = fb_scroll(s) /\ cur_row' = Rows - 1
       ELSE screen' = s /\ cur_row' = cur_row + 1

Plain(ch) ==
    /\ esc_state = "none"
    /\ esc_state' = IF ch = "esc" THEN "esc" ELSE "none"
    /\ \/ ch = "cr" /\ cur_col' = 0 /\ UNCHANGED <<cur_row, screen>>
       \/ ch = "lf" /\ Down(screen)
       \/ /\ ch = "bs" /\ cur_col > 0
          /\ cur_col' = cur_col - 1
          /\ screen' = fb_draw_glyph(cur_col - 1, cur_row, " ")
          /\ UNCHANGED cur_row
       \/ ch \notin Control /\ cur_col + 1 >= Cols /\ Down(fb_draw_glyph(cur_col, cur_row, ch))
       \/ /\ ch \notin Control /\ cur_col + 1 < Cols
          /\ screen' = fb_draw_glyph(cur_col, cur_row, ch)
          /\ cur_col' = cur_col + 1 /\ UNCHANGED cur_row
       \/ /\ ch \in {"esc", "nul"} \/ (ch = "bs" /\ cur_col = 0)
          /\ UNCHANGED <<cur_col, cur_row, screen>>
    /\ UNCHANGED <<pen, esc_params, esc_nparam>>

kconsole_putc ==
    /\ todo # <<>>
    /\ todo' = Tail(todo)
    /\ LET ch == Head(todo)
       IN  EscEsc(ch) \/ EscDigit(ch) \/ EscSemi(ch) \/ EscFinal(ch) \/ Plain(ch)
    /\ UNCHANGED <<page, nwritten>>

ConsoleNext == kconsole_putc \/ \E t \in Texts : cons_write(t)

ConsoleSpec == ConsoleInit /\ [][ConsoleNext]_ConsoleVars

-----------------------------------------------------------------------------
(* Properties *)

Pen == [fg : 0..16, bg : 0..15]

(* Every variable has its type: the cursor is on the screen and the        *)
(* parameters that the parser counts are in its array.                     *)
ConsoleTypeOK ==
    /\ \A r \in 1..Rows, c \in 1..Cols : [fg |-> screen[r][c].fg, bg |-> screen[r][c].bg] \in Pen
    /\ cur_col \in 0..(Cols - 1) /\ cur_row \in 0..(Rows - 1)
    /\ pen \in Pen
    /\ esc_state \in {"none", "esc", "bracket"}
    /\ esc_params \in [0..(NParams - 1) -> 0..(ParamWidth - 1)]
    /\ esc_nparam \in 0..NParams
    /\ esc_state = "bracket" => esc_nparam < NParams
    /\ nwritten \in 0..MaxTexts

(* Between texts the screen is a window on the page: its last Rows lines,  *)
(* in the colours that were asked for, with the cursor where the next      *)
(* character belongs, however the texts wrapped, scrolled, went back or    *)
(* changed colours.                                                        *)
ScreenIsWindow ==
    todo = <<>> =>
      LET n == Len(page.lines)
          top == IF n > Rows THEN n - Rows ELSE 0
      IN  /\ screen = [r \in 1..Rows |-> IF top + r <= n THEN page.lines[top + r]
                                         ELSE BlankLine(DefaultPen)]
          /\ cur_row = n - top - 1 /\ cur_col = page.col
          /\ pen = page.pen
=============================================================================
