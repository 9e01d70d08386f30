----------------------------- MODULE MC_DevicePm -----------------------------
(* Instantiation of DevicePm for TLC.  The current charge is empty, half  *)
(* or all of a 2600 mAh cell; the last full charge is 1300 (below the     *)
(* current, which is then clamped), 2600, or 300000, whose product with a *)
(* 14.8 V design voltage (4.44e9) leaves the range of int.  Rates hold    *)
(* ACPI's 0xffff "unknown".  The voltages cover an unknown design voltage *)
(* and current voltages inside and above the design range.                *)
EXTENDS DevicePm

MCCurrents == {0, 1300, 2600}
MCLastFulls == {1300, 2600, 300000}
MCRates == {65535, 1000}
MCDesignVoltages == {0, 14800}
MCVoltages == {11100, 16000}
\* Not charging, or discharging: the rate is kept only in the second.
MCFlows == {<<FALSE, FALSE>>, <<FALSE, TRUE>>}
\* hal_device_property_get_int answers -1 for a missing key (device.c).
MCMissingInt == -1
=============================================================================
