------------------------------ MODULE Colours -------------------------------
(***************************************************************************)
(* Colours of pixels, and what a temperature, a windspeed and a place in   *)
(* the day are painted in.  Temperatures are tenths of a kelvin, speeds    *)
(* tenths of m/s, times of day seconds; a cast to int cuts the fraction,   *)
(* and one to uint8_t keeps the low 8 bits.                                *)
(***************************************************************************)
EXTENDS Integers

Colours == [r : 0 .. 255, g : 0 .. 255, b : 0 .. 255]
Colour(red, green, blue) == [r |-> red, g |-> green, b |-> blue]
Shades(level) == Colour(level, level, level)
White  == Shades(255)
Grey   == Shades(50)
Purple == Colour(255, 0, 255)

uint8(i) == i % 256
AtMost(i, high) == IF i > high THEN high ELSE i
AtLeast(i, low) == IF i < low THEN low ELSE i

(* set_windspeed_pixel_colour.                                             *)
WindColour(speed) ==
  LET rg == AtMost((255 * speed) \div 100, 255) IN Colour(uint8(rg), uint8(rg), 255)

(* set_temp_pixel_colour.                                                  *)
Red(t)   == IF t > 0 THEN AtMost((17 * t) \div 10, 255) ELSE 0
Green(t) ==
  CASE t > 150             -> AtLeast((85 * (400 - t)) \div 100, 0)
    [] t \in -49 .. 150    -> 255
    [] t \in -99 .. -50    -> (255 * (-t)) \div 100
    [] t < -99             -> 0
Blue(t)  == IF t > -50 THEN AtLeast((255 * (50 - t)) \div 100, 0) ELSE 255

(* Mutant: a warm pixel's blue is not held at 0.                           *)
TempColourWraps(kelvin) ==
  LET t == kelvin - 2730
  IN  Colour(uint8(Red(t)), uint8(Green(t)), uint8((255 * (50 - t)) \div 100))

TempColour(kelvin) ==
  LET t == kelvin - 2730 IN Colour(uint8(Red(t)), uint8(Green(t)), uint8(Blue(t)))

-----------------------------------------------------------------------------
DayLength == 24 * 3600

(* The level of a part of the daylight, from 0 at its ends to 255 at its   *)
(* middle: past 255 it is turned negative and wraps.                       *)
Level(part, daylight) ==
  LET set == (510 * part) \div daylight
  IN  uint8(IF set > 255 THEN 255 - set ELSE set)

(* Mutant: a day that has midnight in it is not put on one axis.           *)
BrightnessNoMidnight(sunrise, sunset, now) ==
  LET before_sunset == sunset - now
  IN IF now > sunrise /\ before_sunset > 0 THEN Level(before_sunset, sunset - sunrise) ELSE 0

(* sun_get_pixel.                                                          *)
Brightness(sunrise, sunset, now) ==
  LET daylight       == sunset - sunrise
      before_sunset  == sunset - now
      before_sunrise == sunrise - now
  IN CASE daylight = 0 -> 0
       [] daylight > 0 ->
            IF before_sunrise < 0 /\ before_sunset > 0 THEN Level(before_sunset, daylight) ELSE 0
       [] daylight < 0 /\ before_sunset > 0 -> Level(before_sunset, daylight + DayLength)
       [] daylight < 0 /\ before_sunset <= 0 ->
            IF before_sunrise < 0 THEN Level(- before_sunrise, daylight + DayLength) ELSE 0
=============================================================================
