---------------------------- MODULE VehicleColor ----------------------------
(* SharedUtil.Game.hpp, class CVehicleColor: the colours of a vehicle, kept  *)
(* as RGB colours and as indices of a palette.  The representation that was  *)
(* not written last is marked wrong and converted when it is next asked for. *)
(* A colour is one number here, the palette a short table of them.           *)
EXTENDS Integers, Sequences, FiniteSets

CONSTANTS
    Slots,        \* 0 .. 3 in the code
    MaxColor,     \* colours are 0 .. MaxColor, 0 is black
    Table         \* paletteColorTable8: a sequence of colours, the first one black

Colors == 0 .. MaxColor
Indices == 0 .. Len(Table) - 1

TableAssumption ==
    /\ Table \in Seq(Colors) /\ Table # <<>> /\ Table[1] = 0
    /\ MaxColor \in Nat /\ Slots # {} /\ Slots \subseteq Nat

VARIABLES m_RGBColors, m_ucPaletteColors, m_bPaletteColorsWrong, m_bRGBColorsWrong
colorVars == <<m_RGBColors, m_ucPaletteColors, m_bPaletteColorsWrong, m_bRGBColorsWrong>>

GetRGBFromPaletteIndex(index) == Table[index + 1]

\* The first one of the nearest.
GetPaletteIndexFromRGB(color) ==
    LET Dist(i) == (Table[i + 1] - color) * (Table[i + 1] - color)
    IN  CHOOSE i \in Indices : /\ \A j \in Indices : Dist(i) <= Dist(j)
                               /\ \A j \in 0 .. i - 1 : Dist(i) < Dist(j)

ColorInit ==
    /\ m_RGBColors = [s \in Slots |-> 0] /\ m_ucPaletteColors = [s \in Slots |-> 0]
    /\ m_bPaletteColorsWrong = FALSE /\ m_bRGBColorsWrong = FALSE

\* What ValidateRGBColors and ValidatePaletteColors leave in the arrays.
ValidRGB ==
    IF m_bRGBColorsWrong THEN [s \in Slots |-> GetRGBFromPaletteIndex(m_ucPaletteColors[s])]
    ELSE m_RGBColors
ValidPalette ==
    IF m_bPaletteColorsWrong THEN [s \in Slots |-> GetPaletteIndexFromRGB(m_RGBColors[s])]
    ELSE m_ucPaletteColors

InvalidatePaletteColors == m_bRGBColorsWrong' = FALSE /\ m_bPaletteColorsWrong' = TRUE
InvalidateRGBColors == m_bPaletteColorsWrong' = FALSE /\ m_bRGBColorsWrong' = TRUE

SetRGBColors(colors) ==
    /\ colors # m_RGBColors
    /\ m_RGBColors' = colors /\ InvalidatePaletteColors
    /\ UNCHANGED m_ucPaletteColors

SetPaletteColors(indices) ==
    /\ indices # m_ucPaletteColors
    /\ m_ucPaletteColors' = indices /\ InvalidateRGBColors
    /\ UNCHANGED m_RGBColors

\* Mutant: the slot is written without converting the others first.
SetRGBColorUnvalidated(slot, color) ==
    /\ m_RGBColors' = [m_RGBColors EXCEPT ![slot] = color]
    /\ IF color = m_RGBColors[slot] THEN UNCHANGED <<m_bRGBColorsWrong, m_bPaletteColorsWrong>>
       ELSE InvalidatePaletteColors
    /\ UNCHANGED m_ucPaletteColors

SetRGBColor(slot, color) ==
    /\ m_RGBColors' = [ValidRGB EXCEPT ![slot] = color]
    /\ IF color = ValidRGB[slot]
       THEN m_bRGBColorsWrong' = FALSE /\ UNCHANGED m_bPaletteColorsWrong
       ELSE InvalidatePaletteColors
    /\ UNCHANGED m_ucPaletteColors

SetPaletteColor(slot, index) ==
    /\ m_ucPaletteColors' = [ValidPalette EXCEPT ![slot] = index]
    /\ IF index = ValidPalette[slot]
       THEN m_bPaletteColorsWrong' = FALSE /\ UNCHANGED m_bRGBColorsWrong
       ELSE InvalidateRGBColors
    /\ UNCHANGED m_RGBColors

\* GetRGBColor and GetPaletteColor convert all the slots; GetNumColorsUsed asks for
\* RGB colours.
GetRGBColor ==
    /\ m_RGBColors' = ValidRGB /\ m_bRGBColorsWrong' = FALSE
    /\ UNCHANGED <<m_ucPaletteColors, m_bPaletteColorsWrong>>

GetPaletteColor ==
    /\ m_ucPaletteColors' = ValidPalette /\ m_bPaletteColorsWrong' = FALSE
    /\ UNCHANGED <<m_RGBColors, m_bRGBColorsWrong>>

ColorNext ==
    \/ \E colors \in [Slots -> Colors] : SetRGBColors(colors)
    \/ \E indices \in [Slots -> Indices] : SetPaletteColors(indices)
    \/ \E slot \in Slots, color \in Colors : SetRGBColor(slot, color)
    \/ \E slot \in Slots, index \in Indices : SetPaletteColor(slot, index)
    \/ GetRGBColor \/ GetPaletteColor

ColorSpec == ColorInit /\ [][ColorNext]_colorVars

(* ------------------------------- properties ------------------------------- *)

\* The arrays hold colours and indices, and one of them is always right
\* (InvalidatePaletteColors, InvalidateRGBColors).
ColorTypeOK ==
    /\ m_RGBColors \in [Slots -> Colors] /\ m_ucPaletteColors \in [Slots -> Indices]
    /\ m_bPaletteColorsWrong \in BOOLEAN /\ m_bRGBColorsWrong \in BOOLEAN
    /\ ~(m_bPaletteColorsWrong /\ m_bRGBColorsWrong)

\* Where neither array is marked wrong one is the other one converted, whichever was
\* written and however often the other was asked for.
ViewsAgree ==
    ~m_bPaletteColorsWrong /\ ~m_bRGBColorsWrong =>
        \/ \A s \in Slots : m_RGBColors[s] = GetRGBFromPaletteIndex(m_ucPaletteColors[s])
        \/ \A s \in Slots : m_ucPaletteColors[s] = GetPaletteIndexFromRGB(m_RGBColors[s])

\* Asking for colours changes none: what GetRGBColor and GetPaletteColor return of any
\* slot is the same before and after ("Get a slot colour", SharedUtil.Game.hpp:124, 132).
AskingChangesNothing ==
    [][GetRGBColor \/ GetPaletteColor => ValidRGB' = ValidRGB /\ ValidPalette' = ValidPalette]_colorVars

\* SetRGBColor sets one slot's RGB colour, SetPaletteColor one slot's index, and the
\* other slots keep theirs, whichever representation was valid before.
OneSlotSet ==
    [][/\ \A slot \in Slots, color \in Colors : SetRGBColor(slot, color) =>
              ValidRGB' = [ValidRGB EXCEPT ![slot] = color]
       /\ \A slot \in Slots, index \in Indices : SetPaletteColor(slot, index) =>
              ValidPalette' = [ValidPalette EXCEPT ![slot] = index]]_colorVars

\* CVehicleColor: the array that is not marked wrong is right, setting one slot keeps the
\* others, and asking for colours changes none.
ColorsKept == [](ColorTypeOK /\ ViewsAgree) /\ OneSlotSet /\ AskingChangesNothing
=============================================================================
